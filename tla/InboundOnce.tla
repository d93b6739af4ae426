----------------------------- MODULE InboundOnce -----------------------------
(***************************************************************************)
(* Type correctness of Inbound, that it keeps its contract, what it does   *)
(* once (store an email, execute a task, queue a replay), what is recorded *)
(* of a task, and which thread a message is in.  For any emails,           *)
(* deliveries, queues, calls and failures.                                 *)
(***************************************************************************)
EXTENDS Inbound, SequenceTheorems, FiniteSetTheorems, TLAPS

-----------------------------------------------------------------------------
(* The types of the rows.                                                  *)

MsgStatus == {"none", "received", "normalized", "tasked", "failed"}
TaskStatus == {"none", "queued", "running", "needs_review"}
MsgType ==
    [status : MsgStatus, id : {About[e].id : e \in Emails} \union {None}, spelled : BOOLEAN,
     thread : Threads \union {None}, normalized : BOOLEAN]
TaskType == [status : TaskStatus, assigned : Targets \union {None}, result : BOOLEAN]
ThreadKeys == Boxes \X (Sent \union {About[e].key : e \in Emails})
KeyedType ==
    [status : {"free", "pending", "completed"}, msg : Messages \union {None},
     mode : {"none", "normalize", "rerun"}, noted : BOOLEAN, times : Nat]

MailTypes ==
    /\ message \in [Messages -> MsgType]
    /\ sentThread \in [Sent -> Threads \union {None}]
    /\ thread \in [Threads -> ThreadKeys \union {None}]
    /\ files \in [Messages -> SUBSET Nat]
    /\ \A m \in Messages : files[m] \subseteq FilesOf(m)
TaskTypes ==
    /\ task \in [Tasks -> TaskType] /\ ran \subseteq Tasks
    /\ claims \in [Tasks -> Nat] /\ keyed \in KeyedType
WorldTypes ==
    /\ box \in [Boxes -> {"active", "inactive", "gone"}]
    /\ target \in [Boxes -> Targets \union {None}]
    /\ moves \in 0..MaxMoves /\ workload \subseteq Calls
HistoryTypes == dropped \subseteq Messages /\ idleAt \subseteq Messages /\ faults \in 0..MaxFaults

-----------------------------------------------------------------------------
(* What a process keeps, by what it does.                                  *)

Work == ThreadSteps \union StoreSteps \union FileSteps \union TaskSteps \union RecordSteps
Pcs == Steps \union {"free", "queued", "again", "accepted", "rejected", "bounced", "refused",
                     "crashed"}
Kinds == {"none", "delivery", "job", "exec", "normalize", "rerun"}
ProcType ==
    [pc : Pcs, kind : Kinds, todo : Seq(Emails), attempt : 0..MaxAttempts,
     msg : Messages \union {None}, found : MsgStatus, thread : Threads \union {None},
     out : Sent \union {None}, rows : SUBSET Nat, n : Nat, to : Targets \union {None},
     task : Tasks \union {None}, state : TaskStatus, tries : Nat]

(* A replay that has put nothing on a queue yet.                           *)
Unsent == {"free", "Reserve", "ReplayTarget", "SendNormalize", "CreateReplay", "SendReplay",
           "DropReplay"}

(* The tasks that may be executed: their message is seen, and a replay has *)
(* put its task on the queue.  They stay so.                               *)
Shown ==
    {t \in Tasks : /\ SourceOf(t) \in Messages /\ Seen(SourceOf(t))
                   /\ t[1] = "replay" => proc[t[2]].pc \notin Unsent}

(* An ingest of a message whose reply is one of the tasks S.               *)
Threaded == {"Assign", "PutNormalized", "Normalize", "DropNormalized", "DropThread"}
Tasked == {"Mark", "SendTask"} \union RecordSteps
Works(r, S) ==
    /\ <<"reply", r.msg>> \in S /\ r.rows \subseteq FilesOf(r.msg)
    /\ r.pc = "InsertFile" => r.n \in FilesOf(r.msg)
    /\ r.pc \in Threaded => r.thread \in Threads
    /\ r.pc = "Assign" => r.out \in Sent
    /\ r.pc \in Tasked => r.task = <<"reply", r.msg>>

Bringing(p, r) ==
    /\ r.kind = "delivery" /\ r.attempt \in Attempts /\ r.todo # <<>>
    /\ \A i \in DOMAIN r.todo : r.todo[i] \in Brought(p)
Looking == {"Lookup", "Insert", "Finalize", "Relook"}
Delivering(p, r, S) ==
    /\ r.pc \in {"free", "again", "accepted", "rejected", "bounced", "Bounce"}
                  \union ReceiveSteps \union Work
    /\ r.pc = "again" => r.attempt \in Attempts /\ r.attempt < MaxAttempts
    /\ r.pc \in ReceiveSteps \union Work \union {"Bounce"} => Bringing(p, r)
    /\ r.pc \in Looking => r.rows = {}
    /\ r.pc = "Finalize" => r.msg \in Messages
    /\ r.pc \in {"Dispatch", "FailRow"} \union Work => Works(r, S)
InJob(r, S) ==
    r.pc # "free" => /\ r.pc \in {"queued", "Letter"} \union Work
                     /\ r.kind = "job" /\ Works(r, S)
InExec(r, S) ==
    r.pc # "free" => /\ r.pc \in {"queued"} \union ExecSteps \union RecordSteps
                     /\ r.kind = "exec" /\ r.task \in S
InReplay(r, S) ==
    /\ r.pc # "free" => /\ r.pc \in {"accepted", "refused", "crashed"} \union ReplaySteps
                        /\ <<"reply", r.msg>> \in S
    /\ r.pc \in ReplaySteps => r.kind \in {"normalize", "rerun"}

ProcOK(p, r, S) ==
    /\ r \in ProcType
    /\ p \in Deliveries => Delivering(p, r, S)
    /\ p \in IngestSlots => InJob(r, S)
    /\ p \in ExecSlots => InExec(r, S)
    /\ p \in Replays => InReplay(r, S)

RowsInv == MailTypes /\ TaskTypes /\ WorldTypes /\ HistoryTypes
ProcsOK == proc \in [Procs -> ProcType] /\ \A p \in Procs : ProcOK(p, proc[p], Shown)

TypeInv == RowsInv /\ ProcsOK

(* A step of p to a record that fits what p does; one that puts a job on a *)
(* queue, too; what it does to the others; and what no step does.          *)
Onward(p, r) == r.pc # "free" /\ (r.pc \in Unsent => proc[p].pc \in Unsent)
Fits(p, r) == ProcOK(p, r, Shown) /\ (p \in Replays => Onward(p, r))
Sending(p, r) == IF p \in Replays /\ r.pc \notin Unsent THEN {ReplayTask(p)} ELSE {}
Moves(p) == \E x : Put(p, x) /\ Fits(p, x)
Sends(p) ==
    \E x, j : \E q \in IngestSlots \union ExecSlots :
      /\ At(q, "free") /\ Fits(p, x) /\ ProcOK(q, j, Shown \union Sending(p, x)) /\ q # p
      /\ proc' = [proc EXCEPT ![q] = j, ![p] = x]
Alone(p) ==
    /\ \A q \in Procs \ {p} : \/ proc'[q] = proc[q]
                              \/ At(q, "free") /\ q \in IngestSlots \union ExecSlots
    /\ p \in Replays /\ proc'[p].pc \in Unsent => proc[p].pc \in Unsent
Hidden == \A m \in Messages : Seen(m) => Seen(m)'

-----------------------------------------------------------------------------
(* Messages, tasks and records.                                            *)

LEMMA MessageIs ==
    ASSUME NEW m \in Messages
    PROVE  /\ m[1] \in Emails /\ m[2] \in Deliveries /\ m[3] \in Attempts
           /\ m[1] \in Brought(m[2]) /\ m = <<m[1], m[2], m[3]>>
           /\ BoxOf(m) \in Boxes /\ FilesOf(m) \subseteq Nat /\ About[m[1]].atts \in Nat
<1>1. PICK d \in Deliveries : \E e \in Brought(d), n \in Attempts : m = <<e, d, n>>
    BY DEF Messages
<1>2. Carries[d] \in Seq(Emails)
    BY InboundAssumption
<1>3. Brought(d) \subseteq Emails
    BY <1>2 DEF Brought
<1>4. m[1] \in Emails
    BY <1>1, <1>3
<1>5. About[m[1]].box \in Boxes /\ About[m[1]].atts \in Nat
    BY <1>4, InboundAssumption
<1>. QED
    BY <1>1, <1>4, <1>5 DEF BoxOf, FilesOf

LEMMA MessageOf ==
    ASSUME NEW d \in Deliveries, NEW e, e \in Brought(d), NEW n \in Attempts
    PROVE  <<e, d, n>> \in Messages
BY DEF Messages

LEMMA TaskIs ==
    /\ \A m \in Messages : <<"reply", m>> \in Tasks
    /\ \A q \in Replays : <<"replay", q>> \in Tasks
    /\ \A t \in Tasks : \/ t[1] = "reply" /\ t[2] \in Messages /\ t = <<"reply", t[2]>>
                        \/ t[1] = "replay" /\ t[2] \in Replays /\ t = <<"replay", t[2]>>
BY DEF Tasks

LEMMA ShownIs ==
    /\ \A m : <<"reply", m>> \in Shown <=> m \in Messages /\ Seen(m)
    /\ \A q \in Replays :
         <<"replay", q>> \in Shown
           <=> proc[q].msg \in Messages /\ Seen(proc[q].msg) /\ proc[q].pc \notin Unsent
BY TaskIs DEF Shown, SourceOf

LEMMA IdleTypes ==
    /\ IdleProc \in ProcType /\ IdleProc.pc = "free"
    /\ NoMessage \in MsgType /\ NoTask \in TaskType
<1>1. <<>> \in Seq(Emails) /\ 0 \in 0..MaxAttempts
    BY InboundAssumption
<1>. QED
    BY <1>1 DEF IdleProc, ProcType, Pcs, Kinds, MsgStatus, TaskStatus, NoMessage, NoTask,
                MsgType, TaskType

LEMMA GoRecord ==
    ASSUME NEW r \in ProcType, NEW s \in Pcs
    PROVE  LET x == [r EXCEPT !.pc = s] IN
           /\ x \in ProcType /\ x.pc = s /\ x.kind = r.kind /\ x.todo = r.todo
           /\ x.attempt = r.attempt /\ x.msg = r.msg /\ x.found = r.found /\ x.thread = r.thread
           /\ x.out = r.out /\ x.rows = r.rows /\ x.n = r.n /\ x.to = r.to /\ x.task = r.task
           /\ x.state = r.state /\ x.tries = r.tries
BY DEF ProcType

(* Steps are among the states of a process, and no two kinds overlap.      *)
LEMMA StepNames ==
    /\ Work \subseteq Steps /\ Steps \subseteq Pcs
    /\ {"free", "queued", "again", "accepted", "rejected", "bounced", "refused", "crashed",
        "Letter", "Bounce"} \subseteq Pcs
BY DEF Work, Steps, Pcs

LEMMA Ranks ==
    /\ \A p \in Procs : \/ p \in Deliveries /\ p \notin IngestSlots \union ExecSlots \union Replays
                        \/ p \in IngestSlots /\ p \notin Deliveries \union ExecSlots \union Replays
                        \/ p \in ExecSlots /\ p \notin Deliveries \union IngestSlots \union Replays
                        \/ p \in Replays /\ p \notin Deliveries \union IngestSlots \union ExecSlots
    /\ Deliveries \union IngestSlots \union ExecSlots \union Replays = Procs
BY InboundAssumption DEF Procs

-----------------------------------------------------------------------------
(* One process moves, or one moves and another is given a job.             *)

LEMMA Grows ==
    ASSUME NEW p, NEW r, NEW S, NEW T, S \subseteq T, ProcOK(p, r, S)
    PROVE  ProcOK(p, r, T)
BY DEF ProcOK, Delivering, InJob, InExec, InReplay, Works

LEMMA StaysShown ==
    ASSUME Hidden,
           \A q \in Replays : \/ proc'[q] = proc[q]
                              \/ <<"reply", proc'[q].msg>> \in Shown /\ Onward(q, proc'[q])
    PROVE  /\ Shown \subseteq Shown'
           /\ \A q \in Replays : <<"reply", proc'[q].msg>> \in Shown /\ proc'[q].pc \notin Unsent
                                  => <<"replay", q>> \in Shown'
<1>1. ASSUME NEW m \in Messages, Seen(m)
      PROVE  message'[m].status # "none" /\ box'[About[m[1]].box] # "gone"
    BY <1>1 DEF Hidden, Seen, Exists, BoxOf
<1>2. ASSUME NEW t \in Tasks,
             LET s == IF t[1] = "reply" THEN t[2] ELSE proc'[t[2]].msg IN
               s \in Messages /\ message'[s].status # "none" /\ box'[About[s[1]].box] # "gone",
             t[1] = "replay" => proc'[t[2]].pc \notin Unsent
      PROVE  t \in Shown'
    BY <1>2 DEF Shown, SourceOf, Seen, Exists, BoxOf, Unsent
<1>3. ASSUME NEW q \in Replays, <<"reply", proc'[q].msg>> \in Shown, proc'[q].pc \notin Unsent
      PROVE  <<"replay", q>> \in Shown'
    <2>1. proc'[q].msg \in Messages /\ Seen(proc'[q].msg)
        BY <1>3, ShownIs
    <2>2. message'[proc'[q].msg].status # "none" /\ box'[About[proc'[q].msg[1]].box] # "gone"
        BY <2>1, <1>1
    <2>. QED
        BY <1>2, <1>3, <2>1, <2>2, TaskIs
<1>4. ASSUME NEW t \in Shown PROVE t \in Shown'
    <2>1. /\ t \in Tasks /\ SourceOf(t) \in Messages /\ Seen(SourceOf(t))
          /\ t[1] = "replay" => proc[t[2]].pc \notin Unsent
        BY DEF Shown
    <2>2. CASE t[1] = "reply"
        BY <1>1, <1>2, <2>1, <2>2 DEF SourceOf
    <2>3. CASE t[1] # "reply"
        <3>1. t[1] = "replay" /\ t[2] \in Replays /\ t = <<"replay", t[2]>>
            BY <2>1, <2>3, TaskIs
        <3>2. CASE proc'[t[2]] = proc[t[2]]
            BY <1>1, <1>2, <2>1, <2>3, <3>1, <3>2 DEF SourceOf
        <3>3. CASE <<"reply", proc'[t[2]].msg>> \in Shown /\ Onward(t[2], proc'[t[2]])
            BY <1>3, <2>1, <3>1, <3>3 DEF Onward
        <3>. QED
            BY <3>1, <3>2, <3>3
    <2>. QED
        BY <2>2, <2>3
<1>. QED
    BY <1>3, <1>4

LEMMA MoveTypes ==
    ASSUME ProcsOK, NEW p \in Procs, Moves(p), Hidden
    PROVE  ProcsOK' /\ Shown \subseteq Shown' /\ Alone(p)
<1>1. PICK x : Put(p, x) /\ Fits(p, x)
    BY DEF Moves
<1>2. proc \in [Procs -> ProcType] /\ proc' = [proc EXCEPT ![p] = x]
    BY <1>1 DEF ProcsOK, Put
<1>3. ProcOK(p, x, Shown) /\ x \in ProcType /\ (p \in Replays => Onward(p, x))
    BY <1>1 DEF Fits, ProcOK
<1>4. proc' \in [Procs -> ProcType] /\ proc'[p] = x
    BY <1>2, <1>3
<1>5. \A q \in Procs : q # p => proc'[q] = proc[q]
    BY <1>2
<1>6. p \in Replays => <<"reply", x.msg>> \in Shown
    BY <1>3 DEF ProcOK, InReplay, Onward
<1>7. Shown \subseteq Shown'
    BY <1>3, <1>4, <1>5, <1>6, StaysShown, Ranks
<1>8. \A q \in Procs : ProcOK(q, proc'[q], Shown)
    BY <1>3, <1>4, <1>5 DEF ProcsOK
<1>9. \A q \in Procs : ProcOK(q, proc'[q], Shown')
    BY <1>7, <1>8, Grows
<1>10. Alone(p)
    BY <1>3, <1>4, <1>5 DEF Alone, Onward
<1>. QED
    BY <1>4, <1>7, <1>9, <1>10 DEF ProcsOK

LEMMA SendTypes ==
    ASSUME ProcsOK, NEW p \in Procs, Sends(p), Hidden
    PROVE  ProcsOK' /\ Shown \subseteq Shown' /\ Alone(p)
<1>1. PICK x, j : \E q \in IngestSlots \union ExecSlots :
            /\ At(q, "free") /\ Fits(p, x) /\ ProcOK(q, j, Shown \union Sending(p, x)) /\ q # p
            /\ proc' = [proc EXCEPT ![q] = j, ![p] = x]
    BY DEF Sends
<1>0. PICK q \in IngestSlots \union ExecSlots :
            /\ At(q, "free") /\ Fits(p, x) /\ ProcOK(q, j, Shown \union Sending(p, x)) /\ q # p
            /\ proc' = [proc EXCEPT ![q] = j, ![p] = x]
    BY <1>1
<1>2. proc \in [Procs -> ProcType] /\ q \in Procs /\ q \notin Replays
    BY <1>0, Ranks DEF ProcsOK
<1>3. /\ ProcOK(p, x, Shown) /\ x \in ProcType /\ (p \in Replays => Onward(p, x))
      /\ j \in ProcType
    BY <1>0 DEF Fits, ProcOK
<1>4. proc' \in [Procs -> ProcType] /\ proc'[p] = x /\ proc'[q] = j
    BY <1>0, <1>2, <1>3
<1>5. \A o \in Procs : o # p /\ o # q => proc'[o] = proc[o]
    BY <1>0, <1>2
<1>6. p \in Replays => <<"reply", x.msg>> \in Shown
    BY <1>3 DEF ProcOK, InReplay, Onward
<1>7. \A o \in Replays : \/ proc'[o] = proc[o]
                         \/ <<"reply", proc'[o].msg>> \in Shown /\ Onward(o, proc'[o])
    BY <1>2, <1>3, <1>4, <1>5, <1>6, Ranks
<1>8. Shown \subseteq Shown' /\ Sending(p, x) \subseteq Shown'
    BY <1>4, <1>6, <1>7, StaysShown DEF Sending, ReplayTask
<1>9. \A o \in Procs : o # q => ProcOK(o, proc'[o], Shown')
    BY <1>3, <1>4, <1>5, <1>8, Grows DEF ProcsOK
<1>10. ProcOK(q, proc'[q], Shown')
    <2>1. Shown \union Sending(p, x) \subseteq Shown'
        BY <1>8
    <2>. QED
        BY <1>0, <1>4, <2>1, Grows
<1>11. Alone(p)
    BY <1>0, <1>3, <1>4, <1>5 DEF Alone, Onward
<1>. QED
    BY <1>4, <1>8, <1>9, <1>10, <1>11 DEF ProcsOK

(* A process that goes on keeps its record.                                *)
LEMMA GoIs ==
    ASSUME ProcsOK, NEW p \in Procs, NEW s, Go(p, s)
    PROVE  Put(p, [proc[p] EXCEPT !.pc = s])
BY DEF ProcsOK, Go, Put

(* What a step that writes no row leaves alone.                            *)
RowsStay ==
    UNCHANGED <<message, sentThread, thread, files, task, ran, claims, keyed, box, target, moves,
                workload>>

LEMMA QuietTypes ==
    ASSUME RowsInv, RowsStay, HistoryTypes'
    PROVE  RowsInv' /\ Hidden
<1>1. RowsInv'
    BY DEF RowsStay, RowsInv, MailTypes, TaskTypes, WorldTypes
<1>2. Hidden
    BY DEF RowsStay, Hidden, Seen, Exists
<1>. QED
    BY <1>1, <1>2

LEMMA HistoryStays ==
    ASSUME RowsInv, UNCHANGED historyVars
    PROVE  HistoryTypes'
BY DEF RowsInv, HistoryTypes, historyVars

LEMMA FaultTypes ==
    ASSUME RowsInv, NEW s, MayFail(s), faults' = faults + 1
    PROVE  faults' \in 0..MaxFaults
BY InboundAssumption DEF RowsInv, HistoryTypes, MayFail

LEMMA RecordTypes ==
    ASSUME RowsInv, NEW s, MayFail(s), Record(s)
    PROVE  HistoryTypes'
BY FaultTypes DEF RowsInv, HistoryTypes, Record

(* A step that writes the row of one message, and hides no message.        *)
LEMMA RowTypes ==
    ASSUME RowsInv, NEW m \in Messages, NEW v \in MsgType,
           v.status # "none" \/ ~Seen(m),
           message' = [message EXCEPT ![m] = v],
           UNCHANGED <<sentThread, thread, files, taskVars, worldVars, workload, keyed>>,
           HistoryTypes'
    PROVE  RowsInv' /\ Hidden
<1>1. message \in [Messages -> MsgType]
    BY DEF RowsInv, MailTypes
<1>2. message' \in [Messages -> MsgType] /\ message'[m] = v
    BY <1>1
<1>3. RowsInv'
    BY <1>2 DEF RowsInv, MailTypes, TaskTypes, WorldTypes, taskVars, worldVars
<1>4. box' = box
    BY DEF worldVars
<1>5. ASSUME NEW k \in Messages, Seen(k) PROVE message'[k].status # "none" /\ box'[BoxOf(k)] # "gone"
    BY <1>1, <1>2, <1>4, <1>5 DEF Seen, Exists
<1>6. Hidden
    BY <1>5 DEF Hidden, Seen, Exists, BoxOf
<1>. QED
    BY <1>3, <1>6

(* What each process is, by what it may do.                                *)
LEMMA ProcIs ==
    ASSUME ProcsOK, NEW p \in Procs
    PROVE  /\ proc[p] \in ProcType
           /\ p \in Deliveries => Delivering(p, proc[p], Shown)
           /\ p \in IngestSlots => InJob(proc[p], Shown)
           /\ p \in ExecSlots => InExec(proc[p], Shown)
           /\ p \in Replays => InReplay(proc[p], Shown)
BY DEF ProcsOK, ProcOK

-----------------------------------------------------------------------------
(* An ingest goes on, fails or ends.                                       *)

LEMMA WorkIs ==
    ASSUME ProcsOK, NEW p \in Procs,
           \/ proc[p].pc \in Work \ RecordSteps
           \/ proc[p].pc \in RecordSteps /\ proc[p].kind # "exec"
    PROVE  /\ \/ p \in Deliveries /\ proc[p].kind = "delivery" /\ Bringing(p, proc[p])
              \/ p \in IngestSlots /\ proc[p].kind = "job"
           /\ Works(proc[p], Shown) /\ proc[p] \in ProcType
           /\ proc[p].msg \in Messages /\ Seen(proc[p].msg) /\ message[proc[p].msg].status # "none"
           /\ <<"reply", proc[p].msg>> \in Tasks /\ It(p).box \in Boxes
<1>1. proc[p].pc \in Work
    BY DEF Work
<1>2. proc[p].pc \notin {"free", "queued", "again", "accepted", "rejected", "bounced", "Bounce",
                         "Letter", "refused", "crashed", "Dispatch", "FailRow"}
                         \union ReceiveSteps \union ExecSteps \union ReplaySteps
    BY <1>1 DEF Work, ReceiveSteps, ExecSteps, ReplaySteps, ThreadSteps, StoreSteps, FileSteps,
                TaskSteps, RecordSteps
<1>3. p \notin ExecSlots
    <2>. SUFFICES ASSUME p \in ExecSlots PROVE FALSE
        OBVIOUS
    <2>1. InExec(proc[p], Shown)
        BY ProcIs
    <2>. QED
        BY <2>1, <1>2 DEF InExec
<1>4. p \notin Replays
    <2>. SUFFICES ASSUME p \in Replays PROVE FALSE
        OBVIOUS
    <2>1. InReplay(proc[p], Shown)
        BY ProcIs
    <2>. QED
        BY <2>1, <1>2 DEF InReplay
<1>5. p \in Deliveries => Delivering(p, proc[p], Shown)
    BY ProcIs
<1>6. p \in IngestSlots => InJob(proc[p], Shown)
    BY ProcIs
<1>7. Works(proc[p], Shown)
    BY <1>1, <1>2, <1>3, <1>4, <1>5, <1>6, Ranks DEF Delivering, InJob
<1>8. proc[p].msg \in Messages /\ Seen(proc[p].msg)
    BY <1>7, ShownIs DEF Works
<1>. QED
    BY <1>1, <1>2, <1>3, <1>4, <1>5, <1>6, <1>7, <1>8, Ranks, ProcIs, TaskIs, MessageIs
        DEF Delivering, InJob, Bringing, It, BoxOf, Seen, Exists

LEMMA WorkTo ==
    ASSUME NEW p \in Procs, NEW r, NEW x \in ProcType,
           \/ p \in Deliveries /\ Bringing(p, r)
           \/ p \in IngestSlots /\ r.kind = "job",
           x.kind = r.kind, x.todo = r.todo, x.attempt = r.attempt,
           x.pc \in Work, Works(x, Shown)
    PROVE  Fits(p, x)
<1>1. x.pc \notin {"again", "Finalize"} \union Looking
    BY DEF Work, Looking, ThreadSteps, StoreSteps, FileSteps, TaskSteps, RecordSteps
<1>. QED
    BY <1>1, Ranks DEF Fits, ProcOK, Delivering, InJob, Bringing

LEMMA FailIngestTypes ==
    ASSUME ProcsOK, NEW p \in Procs, FailIngest(p),
           \/ proc[p].pc \in Work \ RecordSteps
           \/ proc[p].pc \in RecordSteps /\ proc[p].kind # "exec"
    PROVE  Moves(p)
<1>. DEFINE s == IF proc[p].kind = "job" THEN "Letter" ELSE IF IsSmtp(p) THEN "FailRow" ELSE "Bounce"
            x == [proc[p] EXCEPT !.pc = s]
<1>1. /\ \/ p \in Deliveries /\ proc[p].kind = "delivery" /\ Bringing(p, proc[p])
         \/ p \in IngestSlots /\ proc[p].kind = "job"
      /\ Works(proc[p], Shown) /\ proc[p] \in ProcType
    BY WorkIs
<1>2. s \in {"Letter", "FailRow", "Bounce"} /\ (s = "Letter" <=> proc[p].kind = "job")
    OBVIOUS
<1>3. s \in Pcs
    BY <1>2 DEF Pcs, Steps, ReceiveSteps
<1>4. Go(p, s)
    BY DEF FailIngest
<1>. HIDE DEF s
<1>5. /\ x \in ProcType /\ x.pc = s /\ x.kind = proc[p].kind /\ x.todo = proc[p].todo
      /\ x.attempt = proc[p].attempt /\ x.msg = proc[p].msg /\ x.rows = proc[p].rows
    BY <1>1, <1>3, GoRecord
<1>6. Put(p, x)
    BY <1>4, GoIs
<1>. HIDE DEF x
<1>7. Works(x, Shown)
    BY <1>1, <1>2, <1>5 DEF Works, Threaded, Tasked, RecordSteps
<1>8. Fits(p, x)
    BY <1>1, <1>2, <1>5, <1>7, Ranks
        DEF Fits, ProcOK, Delivering, InJob, Bringing, ReceiveSteps, Looking
<1>. QED
    BY <1>6, <1>8 DEF Moves

LEMMA StartedTypes ==
    ASSUME NEW p \in Deliveries, NEW n \in Attempts, NEW s \in Seq(Emails), s # <<>>,
           \A i \in DOMAIN s : s[i] \in Brought(p)
    PROVE  Fits(p, [Started(p, n) EXCEPT !.todo = s])
<1>. DEFINE x == [Started(p, n) EXCEPT !.todo = s]
<1>1. /\ x.pc = FirstStep(p) /\ x.kind = "delivery" /\ x.attempt = n /\ x.todo = s /\ x.rows = {}
    BY DEF Started, IdleProc
<1>2. FirstStep(p) \in {"Lookup", "Insert"}
    BY DEF FirstStep
<1>3. x \in ProcType
    <2>1. n \in 0..MaxAttempts /\ FirstStep(p) \in Pcs /\ Carries[p] \in Seq(Emails)
        BY <1>2, InboundAssumption DEF Attempts, Pcs, Steps, ReceiveSteps
    <2>. HIDE DEF FirstStep
    <2>. QED
        BY <2>1, IdleTypes DEF Started, IdleProc, ProcType, Kinds
<1>. HIDE DEF x
<1>4. Bringing(p, x)
    BY <1>1 DEF Bringing
<1>5. Fits(p, x)
    BY <1>1, <1>2, <1>3, <1>4, Ranks
        DEF Fits, ProcOK, Delivering, ReceiveSteps, Work, ThreadSteps, StoreSteps, FileSteps,
            TaskSteps, RecordSteps
<1>. QED
    BY <1>5 DEF x

LEMMA AfterEmailTypes ==
    ASSUME NEW p \in Deliveries, proc[p] \in ProcType, Bringing(p, proc[p])
    PROVE  Fits(p, AfterEmail(p))
<1>. DEFINE todo == proc[p].todo
<1>0. /\ todo \in Seq(Emails) /\ todo # <<>> /\ proc[p].attempt \in Attempts
      /\ \A i \in DOMAIN todo : todo[i] \in Brought(p)
    BY DEF Bringing, ProcType
<1>1. CASE Len(todo) = 1
    <2>1. [IdleProc EXCEPT !.pc = "accepted"] \in ProcType
        BY IdleTypes, GoRecord, StepNames
    <2>2. AfterEmail(p) = [IdleProc EXCEPT !.pc = "accepted"]
        BY <1>1 DEF AfterEmail
    <2>3. [IdleProc EXCEPT !.pc = "accepted"].pc = "accepted"
        BY DEF IdleProc
    <2>. QED
        BY <2>1, <2>2, <2>3, Ranks
            DEF Fits, ProcOK, Delivering, ReceiveSteps, Work, ThreadSteps, StoreSteps, FileSteps,
                TaskSteps, RecordSteps, Looking
<1>2. CASE Len(todo) # 1
    <2>. HIDE DEF todo
    <2>3. Len(todo) \in Nat \ {0}
        BY <1>0, EmptySeq
    <2>4. DOMAIN todo = 1..Len(todo)
        BY <1>0, LenProperties
    <2>0. Len(todo) \in Nat /\ Len(todo) > 1 /\ DOMAIN todo = 1..Len(todo)
        BY <1>2, <2>3, <2>4
    <2>1. /\ Tail(todo) \in Seq(Emails) /\ Tail(todo) # <<>> /\ Len(Tail(todo)) = Len(todo) - 1
          /\ \A i \in 1..Len(todo) - 1 : Tail(todo)[i] = todo[i + 1]
        BY <1>0, <2>0
    <2>2. \A i \in DOMAIN Tail(todo) : Tail(todo)[i] \in Brought(p)
        BY <1>0, <2>0, <2>1
    <2>. QED
        BY <1>0, <1>2, <2>1, <2>2, StartedTypes DEF AfterEmail, todo
<1>. QED
    BY <1>1, <1>2

LEMMA IdleSlot ==
    ASSUME NEW p \in IngestSlots \union ExecSlots
    PROVE  Fits(p, IdleProc)
BY IdleTypes, Ranks DEF Fits, ProcOK, InJob, InExec

LEMMA EndIngestTypes ==
    ASSUME ProcsOK, NEW p \in Procs,
           \/ proc[p].pc \in Work \ RecordSteps
           \/ proc[p].pc \in RecordSteps /\ proc[p].kind # "exec"
    PROVE  Fits(p, EndIngest(p))
BY WorkIs, AfterEmailTypes, IdleSlot DEF EndIngest

(* A step within an ingest that keeps all but the state, or a little more. *)
LEMMA WorkGo ==
    ASSUME ProcsOK, NEW p \in Procs, NEW s, s \in Work, Go(p, s),
           \/ proc[p].pc \in Work \ RecordSteps
           \/ proc[p].pc \in RecordSteps /\ proc[p].kind # "exec",
           s = "InsertFile" => proc[p].n \in FilesOf(proc[p].msg),
           s \in Threaded => proc[p].thread \in Threads,
           s = "Assign" => proc[p].out \in Sent,
           s \in Tasked => proc[p].task = <<"reply", proc[p].msg>>
    PROVE  Moves(p)
<1>. DEFINE x == [proc[p] EXCEPT !.pc = s]
<1>1. /\ \/ p \in Deliveries /\ proc[p].kind = "delivery" /\ Bringing(p, proc[p])
         \/ p \in IngestSlots /\ proc[p].kind = "job"
      /\ Works(proc[p], Shown) /\ proc[p] \in ProcType
    BY WorkIs
<1>2. s \in Pcs
    BY StepNames
<1>3. /\ x \in ProcType /\ x.pc = s /\ x.kind = proc[p].kind /\ x.todo = proc[p].todo
      /\ x.attempt = proc[p].attempt /\ x.msg = proc[p].msg /\ x.rows = proc[p].rows
      /\ x.n = proc[p].n /\ x.thread = proc[p].thread /\ x.out = proc[p].out
      /\ x.task = proc[p].task
    BY <1>1, <1>2, GoRecord
<1>4. Put(p, x)
    BY GoIs
<1>. HIDE DEF x
<1>5. Works(x, Shown)
    BY <1>1, <1>3 DEF Works
<1>6. Fits(p, x)
    BY <1>1, <1>3, <1>5, WorkTo
<1>. QED
    BY <1>4, <1>6 DEF Moves

LEMMA QuietMove ==
    ASSUME TypeInv, NEW p \in Procs, Moves(p), RowsStay, HistoryTypes'
    PROVE  TypeInv' /\ Alone(p)
BY QuietTypes, MoveTypes DEF TypeInv

LEMMA QuietSend ==
    ASSUME TypeInv, NEW p \in Procs, Sends(p), RowsStay, HistoryTypes'
    PROVE  TypeInv' /\ Alone(p)
BY QuietTypes, SendTypes DEF TypeInv

-----------------------------------------------------------------------------
(* A delivery.                                                             *)

LEMMA CarriesAre ==
    ASSUME NEW p \in Deliveries
    PROVE  /\ Carries[p] \in Seq(Emails) /\ Carries[p] # <<>>
           /\ \A i \in DOMAIN Carries[p] : Carries[p][i] \in Brought(p)
BY InboundAssumption DEF Brought

LEMMA CallsAre ==
    \A c \in Calls :
      /\ c.call = "deliver" => c.who \in Deliveries
      /\ c.call = "replay" => c.who \in Replays /\ c.mode \in {"normalize", "rerun"}
<1>. SUFFICES ASSUME NEW c \in Calls
              PROVE  /\ c.call = "deliver" => c.who \in Deliveries
                     /\ c.call = "replay" => c.who \in Replays /\ c.mode \in {"normalize", "rerun"}
    OBVIOUS
<1>1. CASE c \in [who : Deliveries, call : {"deliver"}, mode : {"none"}]
    BY <1>1
<1>2. CASE c \in [who : Replays, call : {"replay"}, mode : {"normalize", "rerun"}]
    BY <1>2
<1>3. CASE c \in [who : Boxes, call : {"close", "retarget"}, mode : {"none"}]
    BY <1>3
<1>. QED
    BY <1>1, <1>2, <1>3, Zenon DEF Calls

LEMMA StartTypes ==
    ASSUME NEW p \in Deliveries, NEW n \in Attempts
    PROVE  Fits(p, Started(p, n))
<1>1. Started(p, n) = [Started(p, n) EXCEPT !.todo = Carries[p]]
    BY DEF Started, IdleProc
<1>. QED
    BY <1>1, CarriesAre, StartedTypes

LEMMA KnownIs ==
    ASSUME NEW b, NEW i, Known(b, i) # None
    PROVE  Known(b, i) \in Messages /\ Seen(Known(b, i))
<1>1. Cardinality(Same(b, i)) = 1 /\ Known(b, i) = CHOOSE m \in Same(b, i) : TRUE
    BY DEF Known
<1>2. Same(b, i) # {}
    BY <1>1, FS_EmptySet
<1>. QED
    BY <1>1, <1>2 DEF Same

(* A delivery at one of its own steps.                                     *)
LEMMA AtDelivery ==
    ASSUME ProcsOK, NEW p \in Procs, proc[p].pc \in ReceiveSteps \union {"Bounce"}
    PROVE  /\ p \in Deliveries /\ Delivering(p, proc[p], Shown) /\ Bringing(p, proc[p])
           /\ proc[p] \in ProcType /\ Mine(p) \in Messages
           /\ Email(p) \in Emails
<1>1. p \in Deliveries
    BY ProcIs, Ranks DEF InJob, InExec, InReplay, Work, ReceiveSteps, ExecSteps, ReplaySteps,
       ThreadSteps, StoreSteps, FileSteps, TaskSteps, RecordSteps
<1>2. Delivering(p, proc[p], Shown) /\ proc[p] \in ProcType
    BY <1>1, ProcIs
<1>3. Bringing(p, proc[p])
    BY <1>2 DEF Delivering
<1>4. proc[p].todo \in Seq(Emails) /\ proc[p].todo # <<>>
    BY <1>2, <1>3 DEF Bringing, ProcType
<1>5. Len(proc[p].todo) \in Nat \ {0} /\ DOMAIN proc[p].todo = 1..Len(proc[p].todo)
    BY <1>4, EmptySeq, LenProperties
<1>6. 1 \in DOMAIN proc[p].todo /\ Email(p) = proc[p].todo[1]
    BY <1>4, <1>5 DEF Email
<1>7. Email(p) \in Brought(p) /\ Email(p) \in Emails
    BY <1>3, <1>4, <1>5, <1>6, ElementOfSeq DEF Bringing
<1>8. Mine(p) \in Messages
    BY <1>1, <1>3, <1>7, MessageOf DEF Mine, Bringing
<1>. QED
    BY <1>1, <1>2, <1>3, <1>7, <1>8

LEMMA ResumeTypes ==
    ASSUME ProcsOK, NEW p \in Procs, proc[p].pc \in Looking, NEW m \in Messages, Seen(m),
           Resume(p, m)
    PROVE  Moves(p)
<1>1. /\ p \in Deliveries /\ Delivering(p, proc[p], Shown) /\ Bringing(p, proc[p])
      /\ proc[p] \in ProcType
    BY AtDelivery DEF Looking, ReceiveSteps
<1>2. CASE Resumable(m)
    <2>. DEFINE x == [proc[p] EXCEPT !.pc = "Dispatch", !.msg = m]
    <2>1. "Dispatch" \in Pcs
        BY DEF Pcs, Steps, ReceiveSteps
    <2>2. /\ x \in ProcType /\ x.pc = "Dispatch" /\ x.msg = m /\ x.rows = proc[p].rows
          /\ x.kind = proc[p].kind /\ x.todo = proc[p].todo /\ x.attempt = proc[p].attempt
        BY <1>1, <2>1 DEF ProcType
    <2>3. Put(p, x)
        BY <1>2 DEF Resume
    <2>. HIDE DEF x
    <2>4. x.rows = {} /\ <<"reply", m>> \in Shown
        BY <1>1, <2>2, ShownIs DEF Delivering
    <2>5. Works(x, Shown)
        BY <2>2, <2>4 DEF Works, Threaded, Tasked, RecordSteps
    <2>6. Fits(p, x)
        BY <1>1, <2>2, <2>5, Ranks DEF Fits, ProcOK, Delivering, Bringing, ReceiveSteps, Looking
    <2>. QED
        BY <2>3, <2>6 DEF Moves
<1>3. CASE ~Resumable(m)
    BY <1>1, <1>3, AfterEmailTypes DEF Resume, Moves
<1>. QED
    BY <1>2, <1>3

(* A delivery goes on to another of its own steps with the same record.    *)
LEMMA ReceiveGo ==
    ASSUME ProcsOK, NEW p \in Procs, proc[p].pc \in ReceiveSteps \union {"Bounce"}, NEW s, Go(p, s),
           \/ s \in {"Insert", "Relook"} /\ proc[p].pc \in Looking
           \/ s \in {"Dispatch", "Read"} /\ Works(proc[p], Shown)
           \/ s = "Bounce"
    PROVE  Moves(p)
<1>. DEFINE x == [proc[p] EXCEPT !.pc = s]
<1>1. /\ p \in Deliveries /\ Delivering(p, proc[p], Shown) /\ Bringing(p, proc[p])
      /\ proc[p] \in ProcType
    BY AtDelivery
<1>2. s \in Pcs
    BY DEF Pcs, Steps, ReceiveSteps, StoreSteps
<1>3. /\ x \in ProcType /\ x.pc = s /\ x.kind = proc[p].kind /\ x.todo = proc[p].todo
      /\ x.attempt = proc[p].attempt /\ x.msg = proc[p].msg /\ x.rows = proc[p].rows
    BY <1>1, <1>2, GoRecord
<1>4. Put(p, x)
    BY GoIs
<1>. HIDE DEF x
<1>5. s \in {"Dispatch", "Read"} => Works(x, Shown)
    BY <1>3 DEF Works, Threaded, Tasked, RecordSteps, Looking
<1>6. s \in {"Insert", "Relook"} => x.rows = {}
    BY <1>1, <1>3 DEF Delivering, Looking
<1>7. Bringing(p, x)
    BY <1>1, <1>3 DEF Bringing
<1>8. Delivering(p, x, Shown)
    BY <1>3, <1>5, <1>6, <1>7 DEF Delivering, ReceiveSteps, Looking, Work, StoreSteps, ThreadSteps,
       FileSteps, TaskSteps, RecordSteps
<1>9. Fits(p, x)
    BY <1>1, <1>3, <1>8, Ranks DEF Fits, ProcOK
<1>. QED
    BY <1>4, <1>9 DEF Moves

LEMMA BouncedTypes ==
    ASSUME RowsInv, NEW p \in Deliveries, proc[p] \in ProcType, Bringing(p, proc[p]), Bounced(p)
    PROVE  Moves(p) /\ dropped' \subseteq Messages
<1>. DEFINE s == IF proc[p].attempt < MaxAttempts THEN "again" ELSE "bounced"
            x == [IdleProc EXCEPT !.pc = s, !.attempt = proc[p].attempt]
<1>1. s \in Pcs /\ s \in {"again", "bounced"}
    BY DEF Pcs
<1>2. proc[p].attempt \in 0..MaxAttempts /\ (s = "again" => proc[p].attempt < MaxAttempts)
    BY DEF ProcType
<1>3. Put(p, x)
    BY DEF Bounced
<1>. HIDE DEF s
<1>4. x \in ProcType /\ x.pc = s /\ x.attempt = proc[p].attempt
    BY <1>1, <1>2, IdleTypes DEF IdleProc, ProcType
<1>. HIDE DEF x
<1>5. Delivering(p, x, Shown)
    BY <1>1, <1>2, <1>4 DEF Delivering, Bringing, ReceiveSteps, Looking, Work, StoreSteps,
       ThreadSteps, FileSteps, TaskSteps, RecordSteps
<1>6. Fits(p, x)
    BY <1>4, <1>5, Ranks DEF Fits, ProcOK
<1>7. dropped' \subseteq dropped \union Left(p) \union ({proc[p].msg} \ {None})
    BY DEF Bounced
<1>. QED
    BY <1>3, <1>6, <1>7 DEF Moves, RowsInv, HistoryTypes, Left, ProcType

LEMMA DeliverTypes ==
    ASSUME TypeInv, NEW p \in Procs, Deliver(p) \/ Again(p)
    PROVE  TypeInv' /\ Alone(p)
<1>1. RowsStay /\ HistoryTypes'
    BY HistoryStays DEF Deliver, Again, RowsStay, mailVars, taskVars, worldVars, fixedVars, TypeInv
<1>2. CASE Deliver(p)
    <2>1. p \in Deliveries
        <3>1. PICK c \in workload : c.who = p /\ c.call = "deliver"
            BY <1>2 DEF Deliver
        <3>2. c \in Calls
            BY DEF TypeInv, RowsInv, WorldTypes
        <3>. QED
            BY <3>1, <3>2, CallsAre
    <2>2. 1 \in Attempts
        BY InboundAssumption DEF Attempts
    <2>3. Moves(p)
        BY <1>2, <2>1, <2>2, StartTypes DEF Deliver, Moves
    <2>. QED
        BY <1>1, <2>3, QuietMove
<1>3. CASE Again(p)
    <2>1. p \in Deliveries /\ proc[p].attempt + 1 \in Attempts
        <3>1. proc[p].pc = "again"
            BY <1>3 DEF Again, At
        <3>2. p \in Deliveries
            BY <3>1, ProcIs, Ranks DEF TypeInv, InJob, InExec, InReplay, Work, ExecSteps, ReplaySteps,
               ThreadSteps, StoreSteps, FileSteps, TaskSteps, RecordSteps
        <3>3. proc[p].attempt \in Attempts /\ proc[p].attempt < MaxAttempts
            BY <3>1, <3>2, ProcIs DEF TypeInv, Delivering
        <3>. QED
            BY <3>2, <3>3, InboundAssumption DEF Attempts
    <2>2. Moves(p)
        BY <1>3, <2>1, StartTypes DEF Again, Moves
    <2>. QED
        BY <1>1, <2>2, QuietMove
<1>. QED
    BY <1>2, <1>3

LEMMA LookupTypes ==
    ASSUME TypeInv, NEW p \in Procs, Lookup(p)
    PROVE  TypeInv' /\ Alone(p)
<1>0. proc[p].pc = "Lookup" /\ "Lookup" \in Looking /\ "Lookup" \in ReceiveSteps
    BY DEF Lookup, At, Looking, ReceiveSteps
<1>1. /\ p \in Deliveries /\ Delivering(p, proc[p], Shown) /\ Bringing(p, proc[p])
      /\ proc[p] \in ProcType
    BY <1>0, AtDelivery DEF TypeInv
<1>. DEFINE e == About[Email(p)]
            k == Known(e.box, e.id)
<1>2. RowsStay /\ HistoryTypes'
    <2>1. dropped' \subseteq dropped \union Left(p)
        BY DEF Lookup
    <2>2. UNCHANGED <<idleAt, faults>> /\ RowsStay
        BY DEF Lookup, RowsStay, mailVars, taskVars, worldVars, fixedVars
    <2>. QED
        BY <2>1, <2>2 DEF TypeInv, RowsInv, HistoryTypes, Left
<1>3. \/ Put(p, [IdleProc EXCEPT !.pc = "rejected"])
      \/ k # None /\ Resume(p, k)
      \/ Go(p, "Insert")
    BY DEF Lookup
<1>4. CASE Put(p, [IdleProc EXCEPT !.pc = "rejected"])
    <2>1. [IdleProc EXCEPT !.pc = "rejected"] \in ProcType
        BY IdleTypes, GoRecord, StepNames
    <2>2. [IdleProc EXCEPT !.pc = "rejected"].pc = "rejected"
        BY DEF IdleProc
    <2>3. Fits(p, [IdleProc EXCEPT !.pc = "rejected"])
        BY <1>1, <2>1, <2>2, Ranks
            DEF Fits, ProcOK, Delivering, ReceiveSteps, Work, ThreadSteps, StoreSteps, FileSteps,
                TaskSteps, RecordSteps, Looking
    <2>4. Moves(p)
        BY <1>4, <2>3 DEF Moves
    <2>. QED
        BY <1>2, <2>4, QuietMove
<1>5. CASE k # None /\ Resume(p, k)
    BY <1>0, <1>2, <1>5, KnownIs, ResumeTypes, QuietMove DEF TypeInv
<1>6. CASE Go(p, "Insert")
    BY <1>0, <1>2, <1>6, ReceiveGo, QuietMove DEF TypeInv
<1>. QED
    BY <1>3, <1>4, <1>5, <1>6

LEMMA InsertTypes ==
    ASSUME TypeInv, NEW p \in Procs, Insert(p)
    PROVE  TypeInv' /\ Alone(p)
<1>0. proc[p].pc = "Insert" /\ "Insert" \in Looking /\ "Insert" \in ReceiveSteps
    BY DEF Insert, At, Looking, ReceiveSteps
<1>1. /\ p \in Deliveries /\ Delivering(p, proc[p], Shown) /\ Bringing(p, proc[p])
      /\ proc[p] \in ProcType /\ Mine(p) \in Messages /\ Email(p) \in Emails
    BY <1>0, AtDelivery DEF TypeInv
<1>2. /\ UNCHANGED <<sentThread, thread, files, taskVars, worldVars, workload, keyed>>
      /\ HistoryTypes'
    BY HistoryStays DEF Insert, fixedVars, TypeInv
<1>3. InsertRow(p) \/ (Go(p, "Relook") /\ message' = message)
    BY DEF Insert
<1>4. CASE InsertRow(p)
    <2>. DEFINE v == Received(About[Email(p)])
                x == [proc[p] EXCEPT !.pc = "Finalize", !.msg = Mine(p)]
    <2>1. v \in MsgType /\ v.status # "none"
        BY <1>1 DEF Received, NoMessage, MsgType, MsgStatus
    <2>2. message' = [message EXCEPT ![Mine(p)] = v] /\ Put(p, x)
        BY <1>4 DEF InsertRow
    <2>. HIDE DEF v
    <2>3. RowsInv' /\ Hidden
        BY <1>1, <1>2, <2>1, <2>2, RowTypes DEF TypeInv
    <2>4. "Finalize" \in Pcs
        BY DEF Pcs, Steps, ReceiveSteps
    <2>5. /\ x \in ProcType /\ x.pc = "Finalize" /\ x.msg \in Messages /\ x.rows = proc[p].rows
          /\ x.kind = proc[p].kind /\ x.todo = proc[p].todo /\ x.attempt = proc[p].attempt
        BY <1>1, <2>4 DEF ProcType
    <2>. HIDE DEF x
    <2>6. Delivering(p, x, Shown)
        BY <1>0, <1>1, <2>5 DEF Delivering, Bringing, ReceiveSteps, Looking, Work, StoreSteps,
           ThreadSteps, FileSteps, TaskSteps, RecordSteps
    <2>7. Moves(p)
        BY <1>1, <2>2, <2>5, <2>6, Ranks DEF Moves, Fits, ProcOK
    <2>. QED
        BY <2>3, <2>7, MoveTypes DEF TypeInv
<1>5. CASE Go(p, "Relook") /\ message' = message
    <2>1. RowsStay
        BY <1>2, <1>5 DEF RowsStay, taskVars, worldVars
    <2>. QED
        BY <1>0, <1>2, <1>5, <2>1, ReceiveGo, QuietMove DEF TypeInv
<1>. QED
    BY <1>3, <1>4, <1>5

LEMMA FinalizeTypes ==
    ASSUME TypeInv, NEW p \in Procs, Finalize(p)
    PROVE  TypeInv' /\ Alone(p)
<1>0. proc[p].pc = "Finalize" /\ "Finalize" \in Looking /\ "Finalize" \in ReceiveSteps
    BY DEF Finalize, At, Looking, ReceiveSteps
<1>1. /\ Delivering(p, proc[p], Shown) /\ proc[p].msg \in Messages
    BY <1>0, AtDelivery DEF TypeInv, Delivering
<1>2. /\ UNCHANGED <<sentThread, thread, files, taskVars, worldVars, workload, keyed>>
      /\ HistoryTypes'
    BY HistoryStays DEF Finalize, fixedVars, TypeInv
<1>3. CASE Seen(proc[p].msg)
    <2>1. RowsStay /\ Go(p, "Dispatch")
        BY <1>2, <1>3 DEF Finalize, RowsStay, taskVars, worldVars
    <2>2. <<"reply", proc[p].msg>> \in Shown /\ proc[p].rows = {}
        BY <1>0, <1>1, <1>3, ShownIs DEF Delivering
    <2>3. Works(proc[p], Shown)
        BY <1>0, <2>2 DEF Works, Threaded, Tasked, RecordSteps
    <2>. QED
        BY <1>0, <1>2, <2>1, <2>3, ReceiveGo, QuietMove DEF TypeInv
<1>4. CASE ~Seen(proc[p].msg)
    <2>1. message' = [message EXCEPT ![proc[p].msg] = NoMessage] /\ Go(p, "Bounce")
        BY <1>4 DEF Finalize
    <2>2. RowsInv' /\ Hidden
        BY <1>1, <1>2, <1>4, <2>1, IdleTypes, RowTypes DEF TypeInv
    <2>. QED
        BY <1>0, <2>1, <2>2, ReceiveGo, MoveTypes DEF TypeInv
<1>. QED
    BY <1>3, <1>4

LEMMA RelookTypes ==
    ASSUME TypeInv, NEW p \in Procs, Relook(p)
    PROVE  TypeInv' /\ Alone(p)
<1>0. proc[p].pc = "Relook" /\ "Relook" \in Looking /\ "Relook" \in ReceiveSteps
    BY DEF Relook, At, Looking, ReceiveSteps
<1>1. RowsStay /\ HistoryTypes'
    BY HistoryStays DEF Relook, RowsStay, mailVars, taskVars, worldVars, fixedVars, TypeInv
<1>. DEFINE e == About[Email(p)]
            k == Known(e.box, e.id)
<1>2. (k # None /\ Resume(p, k)) \/ Go(p, "Bounce")
    BY DEF Relook
<1>3. CASE k # None /\ Resume(p, k)
    BY <1>0, <1>1, <1>3, KnownIs, ResumeTypes, QuietMove DEF TypeInv
<1>4. CASE Go(p, "Bounce")
    BY <1>0, <1>1, <1>4, ReceiveGo, QuietMove DEF TypeInv
<1>. QED
    BY <1>2, <1>3, <1>4

(* What is put on a queue.                                                 *)
LEMMA EnqueueTypes ==
    ASSUME NEW p \in Procs, ~At(p, "free"), NEW x, Fits(p, x)
    PROVE  /\ \A m : <<"reply", m>> \in Shown /\ Enqueue(IngestSlots, "job", Job(m), p, x) => Sends(p)
           /\ \A t : /\ t \in Shown \union Sending(p, x) /\ t \in Tasks
                    /\ Enqueue(ExecSlots, "exec", TaskJob(t), p, x)
                    => Sends(p)
<1>1. ASSUME NEW m, <<"reply", m>> \in Shown, Enqueue(IngestSlots, "job", Job(m), p, x)
      PROVE  Sends(p)
    <2>. DEFINE j == Queued("job", Job(m))
    <2>1. PICK q \in IngestSlots : At(q, "free") /\ proc' = [proc EXCEPT ![q] = j, ![p] = x]
        BY <1>1 DEF Enqueue
    <2>2. m \in Messages
        BY <1>1, ShownIs
    <2>3. j.pc = "queued" /\ j.kind = "job" /\ j.msg = m /\ j.rows = {}
        BY DEF Queued, Job, IdleProc
    <2>4. j \in ProcType
        BY <2>2, IdleTypes DEF Queued, Job, IdleProc, ProcType, Pcs, Kinds
    <2>. HIDE DEF j
    <2>5. Works(j, Shown)
        BY <1>1, <2>3 DEF Works, Threaded, Tasked, RecordSteps
    <2>6. ProcOK(q, j, Shown)
        BY <2>3, <2>4, <2>5, Ranks DEF ProcOK, InJob
    <2>7. ProcOK(q, j, Shown \union Sending(p, x))
        BY <2>6, Grows
    <2>8. q # p /\ q \in IngestSlots \union ExecSlots
        BY <2>1
    <2>. QED
        BY <2>1, <2>7, <2>8 DEF Sends
<1>2. ASSUME NEW t, t \in Shown \union Sending(p, x), t \in Tasks,
             Enqueue(ExecSlots, "exec", TaskJob(t), p, x)
      PROVE  Sends(p)
    <2>. DEFINE j == Queued("exec", TaskJob(t))
    <2>1. PICK q \in ExecSlots : At(q, "free") /\ proc' = [proc EXCEPT ![q] = j, ![p] = x]
        BY <1>2 DEF Enqueue
    <2>3. j.pc = "queued" /\ j.kind = "exec" /\ j.task = t
        BY DEF Queued, TaskJob, IdleProc
    <2>4. j \in ProcType
        BY <1>2, IdleTypes DEF Queued, TaskJob, IdleProc, ProcType, Pcs, Kinds
    <2>. HIDE DEF j
    <2>5. ProcOK(q, j, Shown \union Sending(p, x))
        BY <1>2, <2>3, <2>4, Ranks DEF ProcOK, InExec
    <2>6. q # p /\ q \in IngestSlots \union ExecSlots
        BY <2>1
    <2>. QED
        BY <2>1, <2>5, <2>6 DEF Sends
<1>. QED
    BY <1>1, <1>2

LEMMA DispatchTypes ==
    ASSUME TypeInv, NEW p \in Procs, Dispatch(p)
    PROVE  TypeInv' /\ Alone(p)
<1>0. proc[p].pc = "Dispatch" /\ "Dispatch" \in ReceiveSteps
    BY DEF Dispatch, At, ReceiveSteps
<1>1. /\ p \in Deliveries /\ Delivering(p, proc[p], Shown) /\ Bringing(p, proc[p])
      /\ proc[p] \in ProcType /\ Works(proc[p], Shown)
    BY <1>0, AtDelivery DEF TypeInv, Delivering
<1>2. RowsStay /\ HistoryTypes'
    BY HistoryStays DEF Dispatch, RowsStay, mailVars, taskVars, worldVars, fixedVars, TypeInv
<1>3. \/ Enqueue(IngestSlots, "job", Job(proc[p].msg), p, AfterEmail(p))
      \/ Go(p, "Read")
    BY DEF Dispatch
<1>4. CASE Enqueue(IngestSlots, "job", Job(proc[p].msg), p, AfterEmail(p))
    <2>1. Fits(p, AfterEmail(p)) /\ ~At(p, "free") /\ <<"reply", proc[p].msg>> \in Shown
        BY <1>0, <1>1, AfterEmailTypes DEF At, Works
    <2>2. Sends(p)
        BY <1>4, <2>1, EnqueueTypes
    <2>. QED
        BY <1>2, <2>2, QuietSend
<1>5. CASE Go(p, "Read")
    BY <1>0, <1>1, <1>2, <1>5, ReceiveGo, QuietMove DEF TypeInv
<1>. QED
    BY <1>3, <1>4, <1>5

LEMMA FailRowTypes ==
    ASSUME TypeInv, NEW p \in Procs, FailRow(p) \/ FailFailRow(p)
    PROVE  TypeInv' /\ Alone(p)
<1>0. proc[p].pc = "FailRow" /\ "FailRow" \in ReceiveSteps /\ Go(p, "Bounce")
    BY DEF FailRow, FailFailRow, At, ReceiveSteps
<1>1. /\ Delivering(p, proc[p], Shown) /\ Works(proc[p], Shown)
    BY <1>0, AtDelivery DEF TypeInv, Delivering
<1>2. HistoryTypes'
    BY HistoryStays, RecordTypes DEF FailRow, FailFailRow, TypeInv
<1>3. UNCHANGED <<sentThread, thread, files, taskVars, worldVars, workload, keyed>>
    BY DEF FailRow, FailFailRow, fixedVars
<1>4. proc[p].msg \in Messages /\ Seen(proc[p].msg)
    BY <1>1, ShownIs DEF Works
<1>5. Moves(p)
    BY <1>0, ReceiveGo DEF TypeInv
<1>6. SetFailed(p) \/ message' = message
    BY DEF FailRow, FailFailRow
<1>7. CASE SetFailed(p)
    <2>. DEFINE v == [message[proc[p].msg] EXCEPT !.status = "failed"]
    <2>1. message[proc[p].msg] \in MsgType
        BY <1>4 DEF TypeInv, RowsInv, MailTypes
    <2>2. v \in MsgType /\ v.status # "none"
        BY <2>1 DEF MsgType, MsgStatus
    <2>3. message' = [message EXCEPT ![proc[p].msg] = v]
        BY <1>4, <1>7, <2>1 DEF SetFailed, TypeInv, RowsInv, MailTypes
    <2>. HIDE DEF v
    <2>4. RowsInv' /\ Hidden
        BY <1>2, <1>3, <1>4, <2>2, <2>3, RowTypes DEF TypeInv
    <2>. QED
        BY <1>5, <2>4, MoveTypes DEF TypeInv
<1>8. CASE message' = message
    <2>1. RowsStay
        BY <1>3, <1>8 DEF RowsStay, taskVars, worldVars
    <2>. QED
        BY <1>2, <1>5, <2>1, QuietMove
<1>. QED
    BY <1>6, <1>7, <1>8

LEMMA BounceTypes ==
    ASSUME TypeInv, NEW p \in Procs, Bounce(p)
    PROVE  TypeInv' /\ Alone(p)
<1>1. /\ p \in Deliveries /\ Bringing(p, proc[p]) /\ proc[p] \in ProcType
    BY AtDelivery DEF TypeInv, Bounce, At
<1>2. Moves(p) /\ dropped' \subseteq Messages
    BY <1>1, BouncedTypes DEF TypeInv, Bounce
<1>3. RowsStay /\ UNCHANGED <<idleAt, faults>>
    BY DEF Bounce, RowsStay, mailVars, taskVars, worldVars, fixedVars
<1>4. HistoryTypes'
    BY <1>2, <1>3 DEF TypeInv, RowsInv, HistoryTypes
<1>. QED
    BY <1>2, <1>3, <1>4, QuietMove

LEMMA FailReceiveTypes ==
    ASSUME TypeInv, NEW p \in Procs, FailReceive(p) \/ FailDispatch(p)
    PROVE  TypeInv' /\ Alone(p)
<1>1. RowsStay /\ HistoryTypes'
    BY RecordTypes
        DEF FailReceive, FailDispatch, RowsStay, mailVars, taskVars, worldVars, fixedVars, TypeInv
<1>2. CASE FailReceive(p)
    <2>1. proc[p].pc \in ReceiveSteps /\ Go(p, "Bounce")
        BY <1>2 DEF FailReceive, ReceiveSteps
    <2>. QED
        BY <1>1, <2>1, ReceiveGo, QuietMove DEF TypeInv
<1>3. CASE FailDispatch(p)
    <2>1. proc[p].pc = "Dispatch" /\ "Dispatch" \in ReceiveSteps /\ Go(p, "Read")
        BY <1>3 DEF FailDispatch, ReceiveSteps, At
    <2>2. Works(proc[p], Shown)
        BY <2>1, AtDelivery DEF TypeInv, Delivering
    <2>. QED
        BY <1>1, <2>1, <2>2, ReceiveGo, QuietMove DEF TypeInv
<1>. QED
    BY <1>2, <1>3

-----------------------------------------------------------------------------
(* The steps of an ingest.                                                 *)

(* A step within an ingest to a record that fits its next one.             *)
LEMMA WorkPut ==
    ASSUME ProcsOK, NEW p \in Procs, NEW x \in ProcType, Put(p, x),
           proc[p].pc \in Work \ RecordSteps,
           x.kind = proc[p].kind, x.todo = proc[p].todo, x.attempt = proc[p].attempt,
           x.pc \in Work, Works(x, Shown)
    PROVE  Moves(p)
BY WorkIs, WorkTo DEF Moves

LEMMA WorkNames ==
    /\ Work \ RecordSteps = ThreadSteps \union StoreSteps \union FileSteps \union TaskSteps
    /\ "InsertFile" \notin Threaded \union Tasked /\ "Assign" \notin Tasked
    /\ Threaded \intersect Tasked = {}
BY DEF Work, Threaded, Tasked, ThreadSteps, StoreSteps, FileSteps, TaskSteps, RecordSteps

LEMMA ReadTypes ==
    ASSUME TypeInv, NEW p \in Procs, Read(p)
    PROVE  TypeInv' /\ Alone(p)
<1>0. proc[p].pc = "Read" /\ proc[p].pc \in Work \ RecordSteps
    BY WorkNames DEF Read, At, StoreSteps
<1>1. RowsStay /\ HistoryTypes'
    BY HistoryStays DEF Read, RowsStay, mailVars, taskVars, worldVars, fixedVars, TypeInv
<1>2. Works(proc[p], Shown) /\ proc[p] \in ProcType /\ proc[p].msg \in Messages
    BY <1>0, WorkIs DEF TypeInv
<1>. DEFINE x == [proc[p] EXCEPT !.pc = "FindThread", !.found = message[proc[p].msg].status]
<1>3. Put(p, x) \/ FailIngest(p)
    BY DEF Read
<1>4. CASE Put(p, x)
    <2>1. message[proc[p].msg].status \in MsgStatus
        BY <1>2 DEF TypeInv, RowsInv, MailTypes, MsgType
    <2>2. "FindThread" \in Pcs /\ "FindThread" \in Work
        BY DEF Pcs, Steps, Work, ThreadSteps
    <2>3. /\ x \in ProcType /\ x.pc = "FindThread" /\ x.kind = proc[p].kind
          /\ x.todo = proc[p].todo /\ x.attempt = proc[p].attempt /\ x.msg = proc[p].msg
          /\ x.rows = proc[p].rows
        BY <1>2, <2>1, <2>2 DEF ProcType
    <2>. HIDE DEF x
    <2>4. Works(x, Shown)
        BY <1>2, <2>3 DEF Works, Threaded, Tasked, RecordSteps
    <2>5. Moves(p)
        BY <1>0, <1>4, <2>2, <2>3, <2>4, WorkPut DEF TypeInv
    <2>. QED
        BY <1>1, <2>5, QuietMove
<1>5. CASE FailIngest(p)
    BY <1>0, <1>1, <1>5, FailIngestTypes, QuietMove DEF TypeInv
<1>. QED
    BY <1>3, <1>4, <1>5

LEMMA FoundThreadTypes ==
    ASSUME TypeInv, NEW p \in Procs, proc[p].pc = "FindThread", NEW t \in Threads, FoundThread(p, t)
    PROVE  Moves(p)
<1>0. proc[p].pc \in Work \ RecordSteps
    BY WorkNames DEF ThreadSteps
<1>1. Works(proc[p], Shown) /\ proc[p] \in ProcType
    BY <1>0, WorkIs DEF TypeInv
<1>. DEFINE x == [proc[p] EXCEPT !.pc = "PutNormalized", !.thread = t]
<1>2. "PutNormalized" \in Pcs /\ "PutNormalized" \in Work
    BY DEF Pcs, Steps, Work, StoreSteps
<1>3. /\ x \in ProcType /\ x.pc = "PutNormalized" /\ x.kind = proc[p].kind /\ x.thread = t
      /\ x.todo = proc[p].todo /\ x.attempt = proc[p].attempt /\ x.msg = proc[p].msg
      /\ x.rows = proc[p].rows
    BY <1>1, <1>2 DEF ProcType
<1>4. Put(p, x)
    BY DEF FoundThread
<1>. HIDE DEF x
<1>5. Works(x, Shown)
    BY <1>1, <1>3 DEF Works, Tasked, RecordSteps
<1>. QED
    BY <1>0, <1>2, <1>3, <1>4, <1>5, WorkPut DEF TypeInv

LEMMA AboutIs ==
    ASSUME ProcsOK, NEW p \in Procs, proc[p].pc \in Work \ RecordSteps
    PROVE  /\ It(p).box \in Boxes /\ It(p).answers \subseteq Sent
           /\ It(p).key \in {About[e].key : e \in Emails}
<1>1. proc[p].msg[1] \in Emails
    BY WorkIs, MessageIs
<1>2. It(p).box \in Boxes /\ \A o \in It(p).answers : o \in Sent
    BY <1>1, InboundAssumption DEF It
<1>. QED
    BY <1>1, <1>2 DEF It

ToGetThread(p, s) == Put(p, [proc[p] EXCEPT !.pc = "GetThread", !.out = s])

LEMMA FindThreadTypes ==
    ASSUME TypeInv, NEW p \in Procs, FindThread(p)
    PROVE  TypeInv' /\ Alone(p)
<1>0. proc[p].pc = "FindThread" /\ proc[p].pc \in Work \ RecordSteps
    BY WorkNames DEF FindThread, At, ThreadSteps
<1>1. RowsStay /\ HistoryTypes'
    BY HistoryStays DEF FindThread, RowsStay, mailVars, taskVars, worldVars, fixedVars, TypeInv
<1>2. Works(proc[p], Shown) /\ proc[p] \in ProcType
    BY <1>0, WorkIs DEF TypeInv
<1>. DEFINE e == It(p)
            joins == Cardinality(CandidateKeys(e)) = 1
            o == CHOOSE c \in Candidates(e) : TRUE
<1>3. ExactThreads(e) \subseteq Threads
    <2>1. \A m \in Messages : message[m].thread \in Threads \union {None}
        BY DEF TypeInv, RowsInv, MailTypes, MsgType
    <2>2. \A s \in Sent : sentThread[s] \in Threads \union {None}
        BY DEF TypeInv, RowsInv, MailTypes
    <2>. QED
        BY <2>1, <2>2 DEF ExactThreads, ThreadsOfId
<1>4. joins => o \in Sent
    <2>1. joins => CandidateKeys(e) # {}
        BY FS_EmptySet
    <2>2. joins => Candidates(e) # {}
        BY <2>1 DEF CandidateKeys
    <2>3. Candidates(e) \subseteq Sent
        BY <1>0, AboutIs DEF Candidates, TypeInv
    <2>. QED
        BY <2>2, <2>3
<1>5. \/ \E t \in ExactThreads(e) : FoundThread(p, t)
      \/ /\ joins
         /\ \/ sentThread[o] # None /\ FoundThread(p, sentThread[o])
            \/ ToGetThread(p, o)
      \/ ToGetThread(p, None)
    BY DEF FindThread, ToGetThread
<1>. HIDE DEF e, joins, o
<1>6. ASSUME NEW s \in Sent \union {None}, ToGetThread(p, s)
      PROVE  Moves(p)
    <2>. DEFINE x == [proc[p] EXCEPT !.pc = "GetThread", !.out = s]
    <2>1. "GetThread" \in Pcs /\ "GetThread" \in Work
        BY DEF Pcs, Steps, Work, ThreadSteps
    <2>2. /\ x \in ProcType /\ x.pc = "GetThread" /\ x.kind = proc[p].kind
          /\ x.todo = proc[p].todo /\ x.attempt = proc[p].attempt /\ x.msg = proc[p].msg
          /\ x.rows = proc[p].rows
        BY <1>2, <2>1 DEF ProcType
    <2>3. Put(p, x)
        BY <1>6 DEF ToGetThread
    <2>. HIDE DEF x
    <2>4. Works(x, Shown)
        BY <1>2, <2>2 DEF Works, Threaded, Tasked, RecordSteps
    <2>. QED
        BY <1>0, <2>1, <2>2, <2>3, <2>4, WorkPut DEF TypeInv
<1>7. joins /\ sentThread[o] # None => sentThread[o] \in Threads
    BY <1>4 DEF TypeInv, RowsInv, MailTypes
<1>8. ASSUME NEW t \in Threads, FoundThread(p, t) PROVE Moves(p)
    BY <1>0, <1>8, FoundThreadTypes
<1>9. Moves(p)
    <2>1. CASE \E t \in ExactThreads(e) : FoundThread(p, t)
        BY <2>1, <1>3, <1>8
    <2>2. CASE joins /\ sentThread[o] # None /\ FoundThread(p, sentThread[o])
        BY <2>2, <1>7, <1>8
    <2>3. CASE joins /\ ToGetThread(p, o)
        BY <2>3, <1>4, <1>6
    <2>4. CASE ToGetThread(p, None)
        BY <2>4, <1>6
    <2>. QED
        BY <1>5, <2>1, <2>2, <2>3, <2>4
<1>. QED
    BY <1>1, <1>9, QuietMove

LEMMA GotThreadTypes ==
    ASSUME TypeInv, NEW p \in Procs, proc[p].pc = "GetThread", NEW t \in Threads, GotThread(p, t)
    PROVE  Moves(p)
<1>0. proc[p].pc \in Work \ RecordSteps
    BY WorkNames DEF ThreadSteps
<1>1. Works(proc[p], Shown) /\ proc[p] \in ProcType
    BY <1>0, WorkIs DEF TypeInv
<1>. DEFINE s == IF proc[p].out # None THEN "Assign" ELSE "PutNormalized"
            x == [proc[p] EXCEPT !.pc = s, !.thread = t]
<1>2. /\ s \in Pcs /\ s \in Work /\ s \in {"Assign", "PutNormalized"}
      /\ s = "Assign" => proc[p].out \in Sent
    BY <1>1 DEF Pcs, Steps, Work, StoreSteps, ThreadSteps, ProcType
<1>4. Put(p, x)
    BY DEF GotThread
<1>. HIDE DEF s
<1>3. /\ x \in ProcType /\ x.pc = s /\ x.kind = proc[p].kind /\ x.thread = t
      /\ x.todo = proc[p].todo /\ x.attempt = proc[p].attempt /\ x.msg = proc[p].msg
      /\ x.rows = proc[p].rows /\ x.out = proc[p].out
    BY <1>1, <1>2 DEF ProcType
<1>. HIDE DEF x
<1>5. Works(x, Shown)
    BY <1>1, <1>2, <1>3 DEF Works, Tasked, RecordSteps
<1>. QED
    BY <1>0, <1>2, <1>3, <1>4, <1>5, WorkPut DEF TypeInv

(* A step that writes no message.                                          *)
LEMMA MailMove ==
    ASSUME TypeInv, NEW p \in Procs, Moves(p), MailTypes', HistoryTypes',
           UNCHANGED <<message, taskVars, worldVars, workload, keyed>>
    PROVE  TypeInv' /\ Alone(p)
<1>1. RowsInv'
    BY DEF TypeInv, RowsInv, TaskTypes, WorldTypes, taskVars, worldVars
<1>2. Hidden
    BY DEF Hidden, Seen, Exists, worldVars
<1>. QED
    BY <1>1, <1>2, MoveTypes DEF TypeInv

LEMMA GetThreadTypes ==
    ASSUME TypeInv, NEW p \in Procs, GetThread(p)
    PROVE  TypeInv' /\ Alone(p)
<1>0. proc[p].pc = "GetThread" /\ proc[p].pc \in Work \ RecordSteps
    BY WorkNames DEF GetThread, At, ThreadSteps
<1>1. /\ UNCHANGED <<message, sentThread, files, taskVars, worldVars, workload, keyed>>
      /\ HistoryTypes'
    BY HistoryStays DEF GetThread, fixedVars, TypeInv
<1>2. Key(p) \in ThreadKeys
    <2>1. proc[p].out \in Sent \union {None}
        BY <1>0, WorkIs DEF TypeInv, ProcType
    <2>. QED
        BY <1>0, <2>1, AboutIs DEF Key, ThreadKeys, TypeInv
<1>3. \/ \E t \in WithKey(Key(p)) : GotThread(p, t) /\ thread' = thread
      \/ /\ \E t \in Threads : ~InUse(t)
         /\ thread' = [thread EXCEPT ![NewThread] = Key(p)]
         /\ GotThread(p, NewThread)
    BY DEF GetThread
<1>4. CASE \E t \in WithKey(Key(p)) : GotThread(p, t) /\ thread' = thread
    <2>1. Moves(p)
        BY <1>0, <1>4, GotThreadTypes DEF WithKey
    <2>2. MailTypes'
        BY <1>1, <1>4 DEF TypeInv, RowsInv, MailTypes
    <2>. QED
        BY <1>1, <2>1, <2>2, MailMove
<1>5. CASE /\ \E t \in Threads : ~InUse(t)
           /\ thread' = [thread EXCEPT ![NewThread] = Key(p)]
           /\ GotThread(p, NewThread)
    <2>1. NewThread \in Threads
        BY <1>5 DEF NewThread
    <2>2. Moves(p)
        BY <1>0, <1>5, <2>1, GotThreadTypes
    <2>3. thread' \in [Threads -> ThreadKeys \union {None}]
        BY <1>2, <1>5, <2>1 DEF TypeInv, RowsInv, MailTypes
    <2>4. MailTypes'
        BY <1>1, <2>3 DEF TypeInv, RowsInv, MailTypes
    <2>. QED
        BY <1>1, <2>2, <2>4, MailMove
<1>. QED
    BY <1>3, <1>4, <1>5

LEMMA AssignTypes ==
    ASSUME TypeInv, NEW p \in Procs, Assign(p)
    PROVE  TypeInv' /\ Alone(p)
<1>0. proc[p].pc = "Assign" /\ proc[p].pc \in Work \ RecordSteps
    BY WorkNames DEF Assign, At, ThreadSteps
<1>1. /\ UNCHANGED <<message, thread, files, taskVars, worldVars, workload, keyed>>
      /\ HistoryTypes'
    BY HistoryStays DEF Assign, fixedVars, TypeInv
<1>2. proc[p].thread \in Threads /\ proc[p].out \in Sent
    BY <1>0, WorkIs DEF TypeInv, Works, Threaded
<1>3. \E s \in {"PutNormalized", "DropThread"} : Go(p, s)
    BY DEF Assign
<1>4. Moves(p)
    BY <1>0, <1>2, <1>3, WorkGo, WorkNames DEF TypeInv, Work, StoreSteps, Threaded
<1>5. sentThread' \in [Sent -> Threads \union {None}]
    BY <1>2 DEF Assign, TypeInv, RowsInv, MailTypes
<1>6. MailTypes'
    BY <1>1, <1>5 DEF TypeInv, RowsInv, MailTypes
<1>. QED
    BY <1>1, <1>4, <1>6, MailMove

LEMMA NormalizeTypes ==
    ASSUME TypeInv, NEW p \in Procs, Normalize(p)
    PROVE  TypeInv' /\ Alone(p)
<1>0. proc[p].pc = "Normalize" /\ proc[p].pc \in Work \ RecordSteps
    BY WorkNames DEF Normalize, At, StoreSteps
<1>1. /\ UNCHANGED <<sentThread, thread, files, taskVars, worldVars, workload, keyed>>
      /\ HistoryTypes'
    BY HistoryStays DEF Normalize, fixedVars, TypeInv
<1>2. proc[p].thread \in Threads /\ proc[p].msg \in Messages
    BY <1>0, WorkIs DEF TypeInv, Works, Threaded
<1>3. \/ message' = [message EXCEPT ![proc[p].msg] = Normalized(p)] /\ Go(p, "PutFiles")
      \/ message' = message /\ Go(p, "DropNormalized")
    BY DEF Normalize
<1>4. Moves(p)
    BY <1>0, <1>2, <1>3, WorkGo, WorkNames DEF TypeInv, Work, StoreSteps, Threaded, Tasked, RecordSteps
<1>5. CASE message' = [message EXCEPT ![proc[p].msg] = Normalized(p)]
    <2>1. message[proc[p].msg] \in MsgType /\ (It(p).id \in Cased) \in BOOLEAN
        BY <1>2 DEF TypeInv, RowsInv, MailTypes
    <2>2. Normalized(p) \in MsgType /\ Normalized(p).status # "none"
        BY <1>2, <2>1 DEF Normalized, MsgType, MsgStatus
    <2>3. RowsInv' /\ Hidden
        BY <1>1, <1>2, <1>5, <2>2, RowTypes DEF TypeInv
    <2>. QED
        BY <1>4, <2>3, MoveTypes DEF TypeInv
<1>6. CASE message' = message
    <2>1. RowsStay
        BY <1>1, <1>6 DEF RowsStay, taskVars, worldVars
    <2>. QED
        BY <1>1, <1>4, <2>1, QuietMove
<1>. QED
    BY <1>3, <1>5, <1>6

(* The objects.                                                            *)
LEMMA PutTypes ==
    ASSUME TypeInv, NEW p \in Procs,
           PutNormalized(p) \/ DropNormalized(p) \/ PutFiles(p) \/ DropFiles(p)
    PROVE  TypeInv' /\ Alone(p)
<1>1. RowsStay /\ HistoryTypes'
    BY HistoryStays DEF PutNormalized, DropNormalized, PutFiles, DropFiles, RowsStay, mailVars,
       taskVars, worldVars, fixedVars, TypeInv
<1>2. proc[p].pc \in Work \ RecordSteps
    BY WorkNames
        DEF PutNormalized, DropNormalized, PutFiles, DropFiles, At, StoreSteps, FileSteps
<1>3. CASE PutNormalized(p) \/ DropNormalized(p)
    <2>1. proc[p].thread \in Threads
        BY <1>2, <1>3, WorkIs DEF TypeInv, Works, Threaded, At, PutNormalized, DropNormalized
    <2>2. Go(p, "Normalize") \/ Go(p, "DropThread")
        BY <1>3 DEF PutNormalized, DropNormalized
    <2>3. Moves(p)
        BY <1>2, <2>1, <2>2, WorkGo DEF TypeInv, Work, StoreSteps, Tasked, RecordSteps
    <2>. QED
        BY <1>1, <2>3, QuietMove
<1>4. CASE PutFiles(p)
    <2>1. Go(p, "ReadFiles")
        BY <1>4 DEF PutFiles
    <2>2. Moves(p)
        BY <1>2, <2>1, WorkGo DEF TypeInv, Work, FileSteps, Tasked, RecordSteps, Threaded
    <2>. QED
        BY <1>1, <2>2, QuietMove
<1>5. CASE DropFiles(p)
    <2>1. FailIngest(p)
        BY <1>5 DEF DropFiles
    <2>. QED
        BY <1>1, <1>2, <2>1, FailIngestTypes, QuietMove DEF TypeInv
<1>. QED
    BY <1>3, <1>4, <1>5

LEMMA DropThreadTypes ==
    ASSUME TypeInv, NEW p \in Procs, DropThread(p)
    PROVE  TypeInv' /\ Alone(p)
<1>0. proc[p].pc = "DropThread" /\ proc[p].pc \in Work \ RecordSteps
    BY WorkNames DEF DropThread, At, StoreSteps
<1>1. /\ UNCHANGED <<message, sentThread, files, taskVars, worldVars, workload, keyed>>
      /\ HistoryTypes'
    BY HistoryStays DEF DropThread, fixedVars, TypeInv
<1>2. Moves(p)
    BY <1>0, FailIngestTypes DEF DropThread, TypeInv
<1>3. thread' \in [Threads -> ThreadKeys \union {None}]
    BY DEF DropThread, TypeInv, RowsInv, MailTypes
<1>4. MailTypes'
    BY <1>1, <1>3 DEF TypeInv, RowsInv, MailTypes
<1>. QED
    BY <1>1, <1>2, <1>4, MailMove

(* The rows of the attachments.                                            *)
LEMMA SetFilesTypes ==
    ASSUME TypeInv, NEW p \in Procs, proc[p].msg \in Messages, NEW s, SetFiles(p, s),
           s \subseteq FilesOf(proc[p].msg), UNCHANGED <<message, sentThread, thread>>
    PROVE  MailTypes'
<1>1. FilesOf(proc[p].msg) \subseteq Nat
    BY MessageIs
<1>2. files \in [Messages -> SUBSET Nat] /\ files' = [files EXCEPT ![proc[p].msg] = s]
    BY DEF SetFiles, TypeInv, RowsInv, MailTypes
<1>3. files' \in [Messages -> SUBSET Nat]
    BY <1>1, <1>2
<1>4. \A m \in Messages : files'[m] \subseteq FilesOf(m)
    BY <1>2 DEF TypeInv, RowsInv, MailTypes
<1>. QED
    BY <1>3, <1>4 DEF TypeInv, RowsInv, MailTypes, FilesOf

LEMMA ReadFilesTypes ==
    ASSUME TypeInv, NEW p \in Procs, ReadFiles(p)
    PROVE  TypeInv' /\ Alone(p)
<1>0. proc[p].pc = "ReadFiles" /\ proc[p].pc \in Work \ RecordSteps
    BY WorkNames DEF ReadFiles, At, FileSteps
<1>1. RowsStay /\ HistoryTypes'
    BY HistoryStays DEF ReadFiles, RowsStay, mailVars, taskVars, worldVars, fixedVars, TypeInv
<1>2. Works(proc[p], Shown) /\ proc[p] \in ProcType /\ proc[p].msg \in Messages
    BY <1>0, WorkIs DEF TypeInv
<1>3. files[proc[p].msg] \subseteq FilesOf(proc[p].msg) /\ files[proc[p].msg] \in SUBSET Nat
    BY <1>2 DEF TypeInv, RowsInv, MailTypes
<1>. DEFINE x == [proc[p] EXCEPT !.pc = "ClearFiles", !.rows = files[proc[p].msg]]
<1>4. Put(p, x)
    BY DEF ReadFiles
<1>5. "ClearFiles" \in Pcs /\ "ClearFiles" \in Work
    BY DEF Pcs, Steps, Work, FileSteps
<1>6. /\ x \in ProcType /\ x.pc = "ClearFiles" /\ x.kind = proc[p].kind
      /\ x.todo = proc[p].todo /\ x.attempt = proc[p].attempt /\ x.msg = proc[p].msg
      /\ x.rows = files[proc[p].msg]
    BY <1>2, <1>3, <1>5 DEF ProcType
<1>. HIDE DEF x
<1>7. Works(x, Shown)
    BY <1>2, <1>3, <1>6 DEF Works, Threaded, Tasked, RecordSteps
<1>8. Moves(p)
    BY <1>0, <1>4, <1>5, <1>6, <1>7, WorkPut DEF TypeInv
<1>. QED
    BY <1>1, <1>8, QuietMove

(* The next attachment to be inserted, or the end of the loop.             *)
NextFile(p, n, s) == Put(p, [proc[p] EXCEPT !.n = n, !.pc = s])

LEMMA NextFileTypes ==
    ASSUME TypeInv, NEW p \in Procs, proc[p].pc \in {"ClearFiles", "InsertFile"}, NEW n \in Nat,
           NEW s \in {"Resolve", "InsertFile"}, s = "InsertFile" => n \in FilesOf(proc[p].msg),
           NextFile(p, n, s)
    PROVE  Moves(p)
<1>0. proc[p].pc \in Work \ RecordSteps
    BY WorkNames DEF FileSteps
<1>1. Works(proc[p], Shown) /\ proc[p] \in ProcType
    BY <1>0, WorkIs DEF TypeInv
<1>. DEFINE x == [proc[p] EXCEPT !.n = n, !.pc = s]
<1>2. s \in Pcs /\ s \in Work
    BY DEF Pcs, Steps, Work, FileSteps, TaskSteps
<1>3. /\ x \in ProcType /\ x.pc = s /\ x.kind = proc[p].kind
      /\ x.todo = proc[p].todo /\ x.attempt = proc[p].attempt /\ x.msg = proc[p].msg
      /\ x.rows = proc[p].rows /\ x.n = n
    BY <1>1, <1>2 DEF ProcType
<1>4. Put(p, x)
    BY DEF NextFile
<1>. HIDE DEF x
<1>5. Works(x, Shown)
    BY <1>1, <1>3 DEF Works, Threaded, Tasked, RecordSteps
<1>. QED
    BY <1>0, <1>2, <1>3, <1>4, <1>5, WorkPut DEF TypeInv

LEMMA ClearFilesTypes ==
    ASSUME TypeInv, NEW p \in Procs, ClearFiles(p)
    PROVE  TypeInv' /\ Alone(p)
<1>0. proc[p].pc = "ClearFiles" /\ proc[p].pc \in Work \ RecordSteps
    BY WorkNames DEF ClearFiles, At, FileSteps
<1>1. /\ UNCHANGED <<message, sentThread, thread, taskVars, worldVars, workload, keyed>>
      /\ HistoryTypes'
    BY HistoryStays DEF ClearFiles, fixedVars, TypeInv
<1>2. proc[p].msg \in Messages
    BY <1>0, WorkIs DEF TypeInv
<1>. DEFINE s == IF FilesOf(proc[p].msg) = {} THEN "Resolve" ELSE "InsertFile"
<1>3. NextFile(p, 1, s) /\ SetFiles(p, {})
    BY DEF ClearFiles, NextFile
<1>4. s \in {"Resolve", "InsertFile"} /\ (s = "InsertFile" => 1 \in FilesOf(proc[p].msg))
    BY <1>2, MessageIs DEF FilesOf
<1>. HIDE DEF s
<1>5. Moves(p)
    BY <1>0, <1>3, <1>4, NextFileTypes
<1>6. MailTypes'
    BY <1>1, <1>2, <1>3, SetFilesTypes
<1>. QED
    BY <1>1, <1>5, <1>6, MailMove

LEMMA InsertFileTypes ==
    ASSUME TypeInv, NEW p \in Procs, InsertFile(p)
    PROVE  TypeInv' /\ Alone(p)
<1>0. proc[p].pc = "InsertFile" /\ proc[p].pc \in Work \ RecordSteps
    BY WorkNames DEF InsertFile, At, FileSteps
<1>1. /\ UNCHANGED <<message, sentThread, thread, taskVars, worldVars, workload, keyed>>
      /\ HistoryTypes'
    BY HistoryStays DEF InsertFile, fixedVars, TypeInv
<1>. DEFINE m == proc[p].msg
            n == proc[p].n
            s == IF n + 1 \in FilesOf(m) THEN "InsertFile" ELSE "Resolve"
<1>2. m \in Messages /\ n \in FilesOf(m) /\ n \in Nat
    BY <1>0, WorkIs DEF TypeInv, Works, ProcType
<1>3. \/ SetFiles(p, files[m] \union {n}) /\ NextFile(p, n + 1, s)
      \/ files' = files /\ Go(p, "UndoFiles")
    BY DEF InsertFile, NextFile
<1>4. s \in {"Resolve", "InsertFile"} /\ (s = "InsertFile" => n + 1 \in FilesOf(m))
    OBVIOUS
<1>. HIDE DEF s
<1>5. CASE SetFiles(p, files[m] \union {n}) /\ NextFile(p, n + 1, s)
    <2>1. n + 1 \in Nat
        BY <1>2
    <2>2. Moves(p)
        BY <1>0, <1>4, <1>5, <2>1, NextFileTypes
    <2>3. files[m] \union {n} \subseteq FilesOf(m)
        BY <1>2 DEF TypeInv, RowsInv, MailTypes
    <2>4. MailTypes'
        BY <1>1, <1>2, <1>5, <2>3, SetFilesTypes
    <2>. QED
        BY <1>1, <2>2, <2>4, MailMove
<1>6. CASE files' = files /\ Go(p, "UndoFiles")
    <2>1. Moves(p)
        BY <1>0, <1>6, WorkGo DEF TypeInv, Work, FileSteps, Tasked, RecordSteps, Threaded
    <2>2. RowsStay
        BY <1>1, <1>6 DEF RowsStay, taskVars, worldVars
    <2>. QED
        BY <1>1, <2>1, <2>2, QuietMove
<1>. QED
    BY <1>3, <1>5, <1>6

LEMMA UndoFilesTypes ==
    ASSUME TypeInv, NEW p \in Procs, UndoFiles(p) \/ RestoreFiles(p)
    PROVE  TypeInv' /\ Alone(p)
<1>0. proc[p].pc \in Work \ RecordSteps
    BY WorkNames DEF UndoFiles, RestoreFiles, At, FileSteps
<1>1. /\ UNCHANGED <<message, sentThread, thread, taskVars, worldVars, workload, keyed>>
      /\ HistoryTypes'
    BY HistoryStays DEF UndoFiles, RestoreFiles, fixedVars, TypeInv
<1>2. proc[p].msg \in Messages /\ proc[p].rows \subseteq FilesOf(proc[p].msg)
    BY <1>0, WorkIs DEF TypeInv, Works
<1>3. Go(p, "RestoreFiles") \/ Go(p, "DropFiles")
    BY DEF UndoFiles, RestoreFiles
<1>4. Moves(p)
    BY <1>0, <1>3, WorkGo DEF TypeInv, Work, FileSteps, Tasked, RecordSteps, Threaded
<1>5. files[proc[p].msg] \union proc[p].rows \subseteq FilesOf(proc[p].msg)
    BY <1>2 DEF TypeInv, RowsInv, MailTypes
<1>6. SetFiles(p, {}) \/ SetFiles(p, files[proc[p].msg] \union proc[p].rows)
    BY DEF UndoFiles, RestoreFiles
<1>7. MailTypes'
    BY <1>1, <1>2, <1>5, <1>6, SetFilesTypes
<1>. QED
    BY <1>1, <1>4, <1>7, MailMove

-----------------------------------------------------------------------------
(* The task of an ingest.                                                  *)

LEMMA ResolveTypes ==
    ASSUME TypeInv, NEW p \in Procs, Resolve(p)
    PROVE  TypeInv' /\ Alone(p)
<1>0. proc[p].pc = "Resolve" /\ proc[p].pc \in Work \ RecordSteps
    BY WorkNames DEF Resolve, At, TaskSteps
<1>2. Works(proc[p], Shown) /\ proc[p] \in ProcType /\ proc[p].msg \in Messages /\ It(p).box \in Boxes
    BY <1>0, WorkIs DEF TypeInv
<1>1. RowsStay /\ HistoryTypes'
    <2>1. RowsStay /\ UNCHANGED <<dropped, faults>>
        BY DEF Resolve, RowsStay, mailVars, taskVars, worldVars, fixedVars
    <2>2. idleAt' \subseteq idleAt \union {proc[p].msg}
        BY DEF Resolve
    <2>. QED
        BY <1>2, <2>1, <2>2 DEF TypeInv, RowsInv, HistoryTypes
<1>. DEFINE to == target[It(p).box]
            s == IF to # None THEN "Task" ELSE "FindTask"
            x == [proc[p] EXCEPT !.pc = s, !.to = to]
<1>3. to \in Targets \union {None}
    BY <1>2 DEF TypeInv, RowsInv, WorldTypes
<1>4. Put(p, x)
    BY DEF Resolve
<1>5. s \in Pcs /\ s \in Work /\ s \in {"Task", "FindTask"}
    BY DEF Pcs, Steps, Work, TaskSteps
<1>. HIDE DEF s, to
<1>6. /\ x \in ProcType /\ x.pc = s /\ x.kind = proc[p].kind
      /\ x.todo = proc[p].todo /\ x.attempt = proc[p].attempt /\ x.msg = proc[p].msg
      /\ x.rows = proc[p].rows
    BY <1>2, <1>3, <1>5 DEF ProcType
<1>. HIDE DEF x
<1>7. Works(x, Shown)
    BY <1>2, <1>5, <1>6 DEF Works, Threaded, Tasked, RecordSteps
<1>8. Moves(p)
    BY <1>0, <1>4, <1>5, <1>6, <1>7, WorkPut DEF TypeInv
<1>. QED
    BY <1>1, <1>8, QuietMove

LEMMA SawTaskTypes ==
    ASSUME TypeInv, NEW p \in Procs, proc[p].pc \in {"Task", "FindTask"}, NEW s \in TaskStatus,
           SawTask(p, s)
    PROVE  Moves(p)
<1>0. proc[p].pc \in Work \ RecordSteps
    BY WorkNames DEF TaskSteps
<1>1. Works(proc[p], Shown) /\ proc[p] \in ProcType /\ Reply(p) \in Tasks
    BY <1>0, WorkIs DEF TypeInv, Reply
<1>. DEFINE x == [proc[p] EXCEPT !.pc = "Mark", !.task = Reply(p), !.state = s]
<1>2. "Mark" \in Pcs /\ "Mark" \in Work
    BY DEF Pcs, Steps, Work, TaskSteps
<1>3. /\ x \in ProcType /\ x.pc = "Mark" /\ x.kind = proc[p].kind /\ x.task = Reply(p)
      /\ x.todo = proc[p].todo /\ x.attempt = proc[p].attempt /\ x.msg = proc[p].msg
      /\ x.rows = proc[p].rows
    BY <1>1, <1>2 DEF ProcType
<1>4. Put(p, x)
    BY DEF SawTask
<1>. HIDE DEF x
<1>5. Works(x, Shown)
    BY <1>1, <1>3 DEF Works, Threaded, Reply
<1>. QED
    BY <1>0, <1>2, <1>3, <1>4, <1>5, WorkPut DEF TypeInv

(* A step that writes tasks, and no other row.                             *)
LEMMA TaskMove ==
    ASSUME TypeInv, NEW p \in Procs, Moves(p), TaskTypes', HistoryTypes',
           UNCHANGED <<mailVars, worldVars, workload>>
    PROVE  TypeInv' /\ Alone(p)
<1>1. RowsInv'
    BY DEF TypeInv, RowsInv, MailTypes, WorldTypes, mailVars, worldVars
<1>2. Hidden
    BY DEF Hidden, Seen, Exists, worldVars, mailVars
<1>. QED
    BY <1>1, <1>2, MoveTypes DEF TypeInv

LEMMA TaskAction ==
    ASSUME TypeInv, NEW p \in Procs, Task(p) \/ FindTask(p)
    PROVE  TypeInv' /\ Alone(p)
<1>0. proc[p].pc \in {"Task", "FindTask"} /\ proc[p].pc \in Work \ RecordSteps
    BY WorkNames DEF Task, FindTask, At, TaskSteps
<1>1. /\ UNCHANGED <<mailVars, ran, claims, worldVars, workload, keyed>>
      /\ HistoryTypes'
    BY HistoryStays DEF Task, FindTask, fixedVars, taskVars, TypeInv
<1>2. Reply(p) \in Tasks /\ proc[p].to \in Targets \union {None}
    BY <1>0, WorkIs DEF TypeInv, Reply, ProcType
<1>3. task[Reply(p)].status \in TaskStatus /\ "queued" \in TaskStatus
    BY <1>2 DEF TypeInv, RowsInv, TaskTypes, TaskType, TaskStatus
<1>4. SawTask(p, "queued") \/ SawTask(p, task[Reply(p)].status)
    BY DEF Task, FindTask
<1>5. Moves(p)
    BY <1>0, <1>3, <1>4, SawTaskTypes
<1>. DEFINE v == [NoTask EXCEPT !.status = "queued", !.assigned = proc[p].to]
<1>6. v \in TaskType
    BY <1>2 DEF NoTask, TaskType, TaskStatus
<1>7. task' = task \/ task' = [task EXCEPT ![Reply(p)] = v]
    BY DEF Task, FindTask, taskVars
<1>. HIDE DEF v
<1>8. TaskTypes'
    BY <1>1, <1>2, <1>6, <1>7 DEF TypeInv, RowsInv, TaskTypes
<1>. QED
    BY <1>1, <1>5, <1>8, TaskMove

LEMMA AfterMarkTypes ==
    ASSUME TypeInv, NEW p \in Procs, proc[p].pc = "Mark"
    PROVE  Fits(p, AfterMark(p))
<1>0. proc[p].pc \in Work \ RecordSteps
    BY WorkNames DEF TaskSteps
<1>1. CASE AfterMark(p) = EndIngest(p)
    BY <1>0, <1>1, EndIngestTypes DEF TypeInv
<1>2. CASE AfterMark(p) = [proc[p] EXCEPT !.pc = "SendTask"]
    <2>. DEFINE x == [proc[p] EXCEPT !.pc = "SendTask"]
    <2>1. /\ \/ p \in Deliveries /\ proc[p].kind = "delivery" /\ Bringing(p, proc[p])
             \/ p \in IngestSlots /\ proc[p].kind = "job"
          /\ Works(proc[p], Shown) /\ proc[p] \in ProcType
        BY <1>0, WorkIs DEF TypeInv
    <2>2. "SendTask" \in Pcs /\ "SendTask" \in Work
        BY DEF Pcs, Steps, Work, TaskSteps
    <2>3. /\ x \in ProcType /\ x.pc = "SendTask" /\ x.kind = proc[p].kind
          /\ x.todo = proc[p].todo /\ x.attempt = proc[p].attempt /\ x.msg = proc[p].msg
          /\ x.rows = proc[p].rows /\ x.task = proc[p].task
        BY <2>1, <2>2, GoRecord
    <2>4. AfterMark(p) = x
        BY <1>2
    <2>. HIDE DEF x
    <2>5. Works(x, Shown)
        BY <2>1, <2>3 DEF Works, Threaded, Tasked
    <2>. QED
        BY <2>1, <2>2, <2>3, <2>4, <2>5, WorkTo
<1>. QED
    BY <1>1, <1>2 DEF AfterMark

LEMMA MarkTypes ==
    ASSUME TypeInv, NEW p \in Procs, Mark(p)
    PROVE  TypeInv' /\ Alone(p)
<1>0. proc[p].pc = "Mark" /\ proc[p].pc \in Work \ RecordSteps
    BY WorkNames DEF Mark, At, TaskSteps
<1>1. /\ UNCHANGED <<sentThread, thread, files, taskVars, worldVars, workload, keyed>>
      /\ HistoryTypes'
    BY HistoryStays DEF Mark, fixedVars, TypeInv
<1>2. proc[p].msg \in Messages /\ message[proc[p].msg].status # "none" /\ proc[p] \in ProcType
    BY <1>0, WorkIs DEF TypeInv
<1>3. message[proc[p].msg] \in MsgType
    BY <1>2 DEF TypeInv, RowsInv, MailTypes
<1>. DEFINE v == [message[proc[p].msg] EXCEPT !.status = Marked(p)]
<1>4. Marked(p) \in MsgStatus /\ Marked(p) # "none"
    BY <1>2, <1>3 DEF Marked, MsgStatus, MsgType, ProcType
<1>5. v \in MsgType /\ v.status # "none"
    BY <1>3, <1>4 DEF MsgType
<1>6. message' = [message EXCEPT ![proc[p].msg] = v]
    BY <1>2 DEF Mark, TypeInv, RowsInv, MailTypes
<1>. HIDE DEF v
<1>7. RowsInv' /\ Hidden
    BY <1>1, <1>2, <1>5, <1>6, RowTypes DEF TypeInv
<1>8. Moves(p)
    BY <1>0, AfterMarkTypes DEF Mark, Moves
<1>. QED
    BY <1>7, <1>8, MoveTypes DEF TypeInv

LEMMA SendTaskTypes ==
    ASSUME TypeInv, NEW p \in Procs, SendTask(p)
    PROVE  TypeInv' /\ Alone(p)
<1>0. proc[p].pc = "SendTask" /\ proc[p].pc \in Work \ RecordSteps
    BY WorkNames DEF SendTask, At, TaskSteps
<1>1. RowsStay /\ HistoryTypes'
    BY HistoryStays DEF SendTask, RowsStay, mailVars, taskVars, worldVars, fixedVars, TypeInv
<1>2. /\ proc[p].task = <<"reply", proc[p].msg>>
      /\ proc[p].task \in Shown /\ proc[p].task \in Tasks
    BY <1>0, WorkIs DEF TypeInv, Works, Tasked
<1>3. Enqueue(ExecSlots, "exec", TaskJob(proc[p].task), p, EndIngest(p)) \/ Go(p, "PutTrace")
    BY DEF SendTask
<1>4. CASE Enqueue(ExecSlots, "exec", TaskJob(proc[p].task), p, EndIngest(p))
    <2>1. Fits(p, EndIngest(p)) /\ ~At(p, "free")
        BY <1>0, EndIngestTypes DEF TypeInv, At
    <2>. QED
        BY <1>1, <1>2, <1>4, <2>1, EnqueueTypes, QuietSend
<1>5. CASE Go(p, "PutTrace")
    <2>1. Moves(p)
        BY <1>0, <1>2, <1>5, WorkGo, WorkNames DEF TypeInv, Work, RecordSteps, Threaded
    <2>. QED
        BY <1>1, <2>1, QuietMove
<1>. QED
    BY <1>3, <1>4, <1>5

LEMMA IngestTypes ==
    ASSUME TypeInv, NEW p \in Procs, IngestStep(p)
    PROVE  TypeInv' /\ Alone(p)
BY ReadTypes, FindThreadTypes, GetThreadTypes, AssignTypes, PutTypes, NormalizeTypes,
   DropThreadTypes, ReadFilesTypes, ClearFilesTypes, InsertFileTypes, UndoFilesTypes, ResolveTypes,
   TaskAction, MarkTypes, SendTaskTypes
   DEF IngestStep, ThreadStep, FileStep

LEMMA ReceiveStepTypes ==
    ASSUME TypeInv, NEW p \in Procs, ReceiveStep(p)
    PROVE  TypeInv' /\ Alone(p)
BY DeliverTypes, LookupTypes, InsertTypes, FinalizeTypes, RelookTypes, DispatchTypes, FailRowTypes,
   BounceTypes
   DEF ReceiveStep

-----------------------------------------------------------------------------
(* The queues.                                                             *)

LEMMA ReceiveTypes ==
    ASSUME TypeInv, NEW p \in Procs, Receive(p)
    PROVE  TypeInv' /\ Alone(p)
<1>0. proc[p].pc = "queued" /\ proc[p] \in ProcType
    BY ProcIs DEF Receive, At, TypeInv
<1>1. RowsStay /\ HistoryTypes'
    BY HistoryStays DEF Receive, RowsStay, mailVars, taskVars, worldVars, fixedVars, TypeInv
<1>2. \/ p \in IngestSlots /\ InJob(proc[p], Shown) /\ proc[p].kind = "job"
      \/ p \in ExecSlots /\ InExec(proc[p], Shown) /\ proc[p].kind = "exec"
    BY <1>0, ProcIs, Ranks DEF TypeInv, Delivering, InJob, InExec, InReplay, Work, ReceiveSteps,
       ReplaySteps, ThreadSteps, StoreSteps, FileSteps, TaskSteps, RecordSteps
<1>. DEFINE s == IF proc[p].kind = "job" THEN "Read" ELSE "Claim"
            x == [proc[p] EXCEPT !.pc = s]
<1>3. s \in Pcs /\ Go(p, s) /\ s \in {"Read", "Claim"} /\ (s = "Read" <=> proc[p].kind = "job")
    BY DEF Receive, Pcs, Steps, StoreSteps, ExecSteps
<1>. HIDE DEF s
<1>4. /\ x \in ProcType /\ x.pc = s /\ x.kind = proc[p].kind /\ x.msg = proc[p].msg
      /\ x.rows = proc[p].rows /\ x.task = proc[p].task
    BY <1>0, <1>3, GoRecord
<1>5. Put(p, x)
    BY <1>3, GoIs DEF TypeInv
<1>. HIDE DEF x
<1>6. CASE p \in IngestSlots /\ InJob(proc[p], Shown) /\ proc[p].kind = "job"
    <2>1. Works(proc[p], Shown)
        BY <1>0, <1>6 DEF InJob
    <2>2. Works(x, Shown) /\ x.pc \in Work
        BY <1>3, <1>4, <1>6, <2>1 DEF Works, Threaded, Tasked, RecordSteps, Work, StoreSteps
    <2>3. Fits(p, x)
        BY <1>4, <1>6, <2>2, Ranks DEF Fits, ProcOK, InJob
    <2>. QED
        BY <1>1, <1>5, <2>3, QuietMove DEF Moves
<1>7. CASE p \in ExecSlots /\ InExec(proc[p], Shown) /\ proc[p].kind = "exec"
    <2>1. InExec(x, Shown)
        BY <1>0, <1>3, <1>4, <1>7 DEF InExec, ExecSteps
    <2>2. Fits(p, x)
        BY <1>4, <1>7, <2>1, Ranks DEF Fits, ProcOK
    <2>. QED
        BY <1>1, <1>5, <2>2, QuietMove DEF Moves
<1>. QED
    BY <1>2, <1>6, <1>7

LEMMA RetriedTypes ==
    ASSUME ProcsOK, NEW p \in IngestSlots \union ExecSlots, proc[p].pc # "free"
    PROVE  Fits(p, Retried(p))
<1>1. /\ p \in Procs /\ proc[p] \in ProcType
      /\ p \in IngestSlots => InJob(proc[p], Shown)
      /\ p \in ExecSlots => InExec(proc[p], Shown)
    BY ProcIs, Ranks
<1>2. CASE Retried(p) = IdleProc
    BY <1>2, IdleSlot
<1>3. CASE Retried(p) # IdleProc
    <2>. DEFINE msg == IF proc[p].kind = "job" THEN proc[p].msg ELSE None
                t == IF proc[p].kind = "exec" THEN proc[p].task ELSE None
                x == [IdleProc EXCEPT !.pc = "queued", !.kind = proc[p].kind, !.msg = msg,
                                      !.task = t, !.tries = proc[p].tries + 1]
    <2>1. Retried(p) = x
        BY <1>3 DEF Retried
    <2>2. msg \in Messages \union {None} /\ t \in Tasks \union {None} /\ proc[p].tries + 1 \in Nat
          /\ proc[p].kind \in Kinds /\ "queued" \in Pcs
        BY <1>1 DEF ProcType, Pcs
    <2>3. /\ p \in IngestSlots => proc[p].kind = "job" /\ msg = proc[p].msg
                                  /\ <<"reply", msg>> \in Shown
          /\ p \in ExecSlots => proc[p].kind = "exec" /\ t = proc[p].task /\ t \in Shown
        BY <1>1 DEF InJob, InExec, Works
    <2>. HIDE DEF msg, t
    <2>4. /\ x \in ProcType /\ x.pc = "queued" /\ x.kind = proc[p].kind /\ x.msg = msg
          /\ x.task = t /\ x.rows = {}
        BY <2>2, IdleTypes DEF IdleProc, ProcType
    <2>. HIDE DEF x
    <2>5. p \in IngestSlots => InJob(x, Shown)
        BY <2>3, <2>4 DEF InJob, Works, Threaded, Tasked, RecordSteps
    <2>6. p \in ExecSlots => InExec(x, Shown)
        BY <2>3, <2>4 DEF InExec
    <2>. QED
        BY <2>1, <2>4, <2>5, <2>6, Ranks DEF Fits, ProcOK
<1>. QED
    BY <1>2, <1>3

LEMMA DropTypes ==
    ASSUME TypeInv, NEW p \in IngestSlots \union ExecSlots, proc[p].pc # "free", Drop(p)
    PROVE  dropped' \subseteq Messages
<1>1. p \in Procs
    BY Ranks
<1>2. proc[p].kind = "job" => proc[p].msg \in Messages
    BY <1>1, ProcIs, ShownIs DEF TypeInv, InJob, InExec, Works
<1>. QED
    BY <1>2 DEF Drop, TypeInv, RowsInv, HistoryTypes

LEMMA LetterTypes ==
    ASSUME TypeInv, NEW p \in Procs, Letter(p) \/ FailLetter(p)
    PROVE  TypeInv' /\ Alone(p)
<1>0. proc[p].pc = "Letter" /\ Put(p, Retried(p)) /\ Drop(p)
    BY DEF Letter, FailLetter, At
<1>1. p \in IngestSlots
    BY <1>0, ProcIs, Ranks DEF TypeInv, Delivering, InExec, InReplay, Work, ReceiveSteps, ExecSteps,
       ReplaySteps, ThreadSteps, StoreSteps, FileSteps, TaskSteps, RecordSteps
<1>2. Moves(p)
    BY <1>0, <1>1, RetriedTypes DEF TypeInv, Moves
<1>3. dropped' \subseteq Messages
    BY <1>0, <1>1, DropTypes
<1>4. RowsStay /\ idleAt' = idleAt
    BY DEF Letter, FailLetter, RowsStay, mailVars, taskVars, worldVars, fixedVars
<1>5. faults' \in 0..MaxFaults
    BY FaultTypes DEF Letter, FailLetter, TypeInv, RowsInv, HistoryTypes
<1>6. HistoryTypes'
    BY <1>3, <1>4, <1>5 DEF TypeInv, RowsInv, HistoryTypes
<1>. QED
    BY <1>2, <1>4, <1>6, QuietMove

LEMMA CaughtIs ==
    ASSUME NEW s \in CaughtSteps
    PROVE  \/ s \in {"Assign", "Normalize"} /\ Caught(s) \in {"DropThread", "DropNormalized"}
           \/ s = "SendTask" /\ Caught(s) = "PutTrace"
           \/ Caught(s) \in {"UndoFiles", "DropFiles"}
<1>1. CASE s = "Assign"
    BY <1>1 DEF Caught
<1>2. CASE s = "Normalize"
    BY <1>2 DEF Caught
<1>3. CASE s = "InsertFile"
    BY <1>3 DEF Caught
<1>4. CASE s \in {"ReadFiles", "ClearFiles", "UndoFiles", "RestoreFiles"}
    BY <1>4 DEF Caught
<1>5. CASE s = "SendTask"
    BY <1>5 DEF Caught
<1>. QED
    BY <1>1, <1>2, <1>3, <1>4, <1>5 DEF CaughtSteps

LEMMA FailIngestCallTypes ==
    ASSUME TypeInv, NEW p \in Procs, FailIngestCall(p) \/ FailIngestUndo(p)
    PROVE  TypeInv' /\ Alone(p)
<1>1. RowsStay /\ HistoryTypes'
    BY RecordTypes DEF FailIngestCall, FailIngestUndo, RowsStay, mailVars, taskVars, worldVars,
       fixedVars, TypeInv
<1>2. proc[p].pc \in Work \ RecordSteps
    BY WorkNames DEF FailIngestCall, FailIngestUndo, At, Rethrown, CaughtSteps, ThreadSteps,
       StoreSteps, FileSteps, TaskSteps
<1>3. /\ proc[p].pc \in Threaded => proc[p].thread \in Threads
      /\ proc[p].pc = "SendTask" => proc[p].task = <<"reply", proc[p].msg>>
    BY <1>2, WorkIs DEF TypeInv, Works, Tasked
<1>4. \/ FailIngest(p)
      \/ proc[p].pc \in CaughtSteps /\ Go(p, Caught(proc[p].pc))
      \/ proc[p].pc = "DropNormalized" /\ Go(p, "DropThread")
    BY DEF FailIngestCall, FailIngestUndo, At
<1>5. CASE FailIngest(p)
    BY <1>1, <1>2, <1>5, FailIngestTypes, QuietMove DEF TypeInv
<1>6. CASE proc[p].pc \in CaughtSteps /\ Go(p, Caught(proc[p].pc))
    <2>. DEFINE s == Caught(proc[p].pc)
    <2>1. \/ s \in {"DropThread", "DropNormalized"} /\ proc[p].thread \in Threads
          \/ s = "PutTrace" /\ proc[p].task = <<"reply", proc[p].msg>>
          \/ s \in {"UndoFiles", "DropFiles"}
        BY <1>3, <1>6, CaughtIs DEF Threaded
    <2>2. Go(p, s)
        BY <1>6
    <2>. HIDE DEF s
    <2>3. Moves(p)
        BY <1>2, <2>1, <2>2, WorkGo
            DEF TypeInv, Work, StoreSteps, FileSteps, RecordSteps, Threaded, Tasked
    <2>. QED
        BY <1>1, <2>3, QuietMove
<1>7. CASE proc[p].pc = "DropNormalized" /\ Go(p, "DropThread")
    <2>1. Moves(p)
        BY <1>2, <1>3, <1>7, WorkGo DEF TypeInv, Work, StoreSteps, RecordSteps, Threaded, Tasked
    <2>. QED
        BY <1>1, <2>1, QuietMove
<1>. QED
    BY <1>4, <1>5, <1>6, <1>7

-----------------------------------------------------------------------------
(* recordTaskNeedsReview, by an ingest or by an execution.                 *)

(* A process at one of those steps has a task whose message is seen.       *)
LEMMA TaskAt ==
    ASSUME ProcsOK, NEW p \in Procs, proc[p].pc \in RecordSteps \union ExecSteps
    PROVE  /\ TaskOf(p) \in Shown /\ TaskOf(p) \in Tasks /\ proc[p] \in ProcType
           /\ proc[p].pc # "free"
           /\ \/ proc[p].kind = "exec" /\ p \in ExecSlots /\ InExec(proc[p], Shown)
              \/ /\ proc[p].kind # "exec" /\ proc[p].pc \in RecordSteps
                 /\ p \in Deliveries \union IngestSlots
                 /\ TaskOf(p) = <<"reply", proc[p].msg>>
<1>1. proc[p].pc \notin {"free", "queued", "again", "accepted", "rejected", "bounced", "Bounce",
                         "Letter", "refused", "crashed", "Dispatch", "FailRow"}
                         \union ReceiveSteps \union ReplaySteps
    BY DEF ReceiveSteps, ExecSteps, ReplaySteps, RecordSteps
<1>2. p \notin Replays
    <2>. SUFFICES ASSUME p \in Replays PROVE FALSE
        OBVIOUS
    <2>1. InReplay(proc[p], Shown)
        BY ProcIs
    <2>. QED
        BY <2>1, <1>1 DEF InReplay
<1>3. proc[p].pc \in Work => proc[p].pc \in RecordSteps
    BY DEF ExecSteps, Work, ThreadSteps, StoreSteps, FileSteps, TaskSteps, RecordSteps
<1>4. CASE p \in ExecSlots
    <2>1. InExec(proc[p], Shown)
        BY <1>4, ProcIs
    <2>. QED
        BY <1>1, <1>4, <2>1, ProcIs DEF InExec, TaskOf, Shown
<1>5. CASE p \in Deliveries \union IngestSlots
    <2>1. p \in Deliveries => Delivering(p, proc[p], Shown)
        BY ProcIs
    <2>2. p \in IngestSlots => InJob(proc[p], Shown)
        BY ProcIs
    <2>3. proc[p].pc \in Work /\ Works(proc[p], Shown)
        BY <1>1, <1>5, <2>1, <2>2 DEF Delivering, InJob
    <2>4. proc[p].kind # "exec"
        BY <1>1, <1>5, <2>1, <2>2, <2>3 DEF Delivering, InJob, Bringing
    <2>5. TaskOf(p) = <<"reply", proc[p].msg>> /\ TaskOf(p) \in Shown
        BY <1>3, <2>3 DEF Works, Tasked, TaskOf
    <2>. QED
        BY <1>1, <1>3, <1>5, <2>3, <2>4, <2>5, ProcIs DEF Shown
<1>. QED
    BY <1>2, <1>4, <1>5, Ranks

LEMMA RecordGo ==
    ASSUME ProcsOK, NEW p \in Procs, proc[p].pc \in RecordSteps \union ExecSteps,
           NEW s \in RecordSteps \union ExecSteps, Go(p, s),
           proc[p].kind # "exec" => s \in RecordSteps
    PROVE  Moves(p)
<1>1. CASE proc[p].kind # "exec"
    <2>1. TaskOf(p) = <<"reply", proc[p].msg>> /\ proc[p].pc \in RecordSteps
        BY <1>1, TaskAt
    <2>. QED
        BY <1>1, <2>1, WorkGo, WorkNames DEF TaskOf, Work, RecordSteps, Threaded
<1>2. CASE proc[p].kind = "exec"
    <2>. DEFINE x == [proc[p] EXCEPT !.pc = s]
    <2>1. p \in ExecSlots /\ InExec(proc[p], Shown) /\ proc[p] \in ProcType /\ proc[p].pc # "free"
        BY <1>2, TaskAt
    <2>2. s \in Pcs /\ s # "free"
        BY DEF Pcs, Steps, RecordSteps, ExecSteps
    <2>3. x \in ProcType /\ x.pc = s /\ x.kind = proc[p].kind /\ x.task = proc[p].task
        BY <2>1, <2>2, GoRecord
    <2>4. Put(p, x)
        BY GoIs
    <2>. HIDE DEF x
    <2>5. InExec(x, Shown)
        BY <2>1, <2>3 DEF InExec
    <2>6. Fits(p, x)
        BY <2>1, <2>3, <2>5, Ranks DEF Fits, ProcOK
    <2>. QED
        BY <2>4, <2>6 DEF Moves
<1>. QED
    BY <1>1, <1>2

LEMMA FailReviewTypes ==
    ASSUME ProcsOK, NEW p \in Procs, proc[p].pc \in RecordSteps, FailReview(p)
    PROVE  Moves(p)
<1>1. CASE proc[p].kind = "exec"
    BY <1>1, RecordGo DEF FailReview, ExecSteps
<1>2. CASE proc[p].kind # "exec"
    BY <1>2, FailIngestTypes DEF FailReview
<1>. QED
    BY <1>1, <1>2

LEMMA RecordTraceTypes ==
    ASSUME TypeInv, NEW p \in Procs,
           PutTrace(p) \/ InsertRun(p) \/ UndoRun(p) \/ UndoTrace(p)
    PROVE  TypeInv' /\ Alone(p)
<1>0. proc[p].pc \in RecordSteps
    BY DEF PutTrace, InsertRun, UndoRun, UndoTrace, At, RecordSteps
<1>1. UNCHANGED <<mailVars, task, claims, keyed, worldVars, workload>> /\ HistoryTypes'
    BY HistoryStays
        DEF PutTrace, InsertRun, UndoRun, UndoTrace, taskVars, fixedVars, TypeInv
<1>2. TaskOf(p) \in Tasks
    BY <1>0, TaskAt DEF TypeInv
<1>3. ran' = ran \/ ran' = ran \union {TaskOf(p)} \/ ran' = ran \ {TaskOf(p)}
    BY DEF PutTrace, InsertRun, UndoRun, UndoTrace, taskVars
<1>4. TaskTypes'
    BY <1>1, <1>2, <1>3 DEF TypeInv, RowsInv, TaskTypes
<1>5. (\E s \in RecordSteps : Go(p, s)) \/ FailReview(p)
    BY DEF PutTrace, InsertRun, UndoRun, UndoTrace, RecordSteps
<1>6. Moves(p)
    BY <1>0, <1>5, RecordGo, FailReviewTypes DEF TypeInv
<1>. QED
    BY <1>1, <1>4, <1>6, TaskMove

LEMMA SetReviewTypes ==
    ASSUME TypeInv, NEW p \in Procs, TaskOf(p) \in Tasks, NEW b \in BOOLEAN, SetReview(p, b)
    PROVE  task' \in [Tasks -> TaskType]
<1>. DEFINE v == [task[TaskOf(p)] EXCEPT !.status = "needs_review", !.result = b]
<1>1. task \in [Tasks -> TaskType]
    BY DEF TypeInv, RowsInv, TaskTypes
<1>2. v \in TaskType
    BY <1>1 DEF TaskType, TaskStatus
<1>3. task' = [task EXCEPT ![TaskOf(p)] = v]
    BY <1>1 DEF SetReview, TaskType
<1>. QED
    BY <1>1, <1>2, <1>3

LEMMA ReviewTypes ==
    ASSUME TypeInv, NEW p \in Procs, Review(p)
    PROVE  TypeInv' /\ Alone(p)
<1>0. proc[p].pc \in RecordSteps /\ proc[p].pc = "Review"
    BY DEF Review, At, RecordSteps
<1>1. UNCHANGED <<mailVars, ran, claims, keyed, worldVars, workload>> /\ HistoryTypes'
    BY HistoryStays DEF Review, fixedVars, TypeInv
<1>2. TaskOf(p) \in Tasks
    BY <1>0, TaskAt DEF TypeInv
<1>3. SetReview(p, TRUE) \/ task' = task
    BY DEF Review
<1>4. task' \in [Tasks -> TaskType]
    BY <1>2, <1>3, SetReviewTypes DEF TypeInv, RowsInv, TaskTypes
<1>5. TaskTypes'
    BY <1>1, <1>4 DEF TypeInv, RowsInv, TaskTypes
<1>6. \/ Go(p, "UndoRun")
      \/ proc[p].kind = "exec" /\ Put(p, IdleProc)
      \/ proc[p].kind # "exec" /\ Put(p, EndIngest(p))
    BY DEF Review, AfterReview
<1>7. CASE Go(p, "UndoRun")
    <2>1. Moves(p)
        BY <1>0, <1>7, RecordGo DEF TypeInv, RecordSteps
    <2>. QED
        BY <1>1, <1>5, <2>1, TaskMove
<1>8. CASE proc[p].kind = "exec" /\ Put(p, IdleProc)
    <2>1. p \in ExecSlots
        BY <1>0, <1>8, TaskAt DEF TypeInv
    <2>2. Moves(p)
        BY <1>8, <2>1, IdleSlot DEF Moves
    <2>. QED
        BY <1>1, <1>5, <2>2, TaskMove
<1>9. CASE proc[p].kind # "exec" /\ Put(p, EndIngest(p))
    <2>1. Moves(p)
        BY <1>0, <1>9, EndIngestTypes DEF TypeInv, Moves
    <2>. QED
        BY <1>1, <1>5, <2>1, TaskMove
<1>. QED
    BY <1>6, <1>7, <1>8, <1>9

-----------------------------------------------------------------------------
(* handleAgentExecute.                                                     *)

LEMMA AtExec ==
    ASSUME ProcsOK, NEW p \in Procs, proc[p].pc \in ExecSteps
    PROVE  /\ p \in ExecSlots /\ InExec(proc[p], Shown) /\ proc[p].kind = "exec"
           /\ TaskOf(p) \in Tasks /\ SourceOf(TaskOf(p)) \in Messages /\ proc[p] \in ProcType
           /\ BoxOf(SourceOf(TaskOf(p))) \in Boxes /\ proc[p].pc # "free"
<1>1. proc[p].pc \notin RecordSteps
    BY DEF ExecSteps, RecordSteps
<1>2. p \in ExecSlots /\ InExec(proc[p], Shown) /\ TaskOf(p) \in Shown /\ proc[p].kind = "exec"
    BY <1>1, TaskAt
<1>3. SourceOf(TaskOf(p)) \in Messages
    BY <1>2 DEF Shown
<1>. QED
    BY <1>2, <1>3, MessageIs, TaskAt

LEMMA ClaimTypes ==
    ASSUME TypeInv, NEW p \in Procs, Claim(p)
    PROVE  TypeInv' /\ Alone(p)
<1>0. proc[p].pc = "Claim" /\ proc[p].pc \in ExecSteps
    BY DEF Claim, At, ExecSteps
<1>1. UNCHANGED <<mailVars, ran, keyed, worldVars, workload>> /\ HistoryTypes'
    BY HistoryStays DEF Claim, fixedVars, TypeInv
<1>2. TaskOf(p) \in Tasks /\ p \in ExecSlots
    BY <1>0, AtExec DEF TypeInv
<1>. DEFINE t == TaskOf(p)
            v == [task[t] EXCEPT !.status = "running"]
<1>3. /\ task \in [Tasks -> TaskType] /\ claims \in [Tasks -> Nat] /\ v \in TaskType
      /\ claims[t] + 1 \in Nat
    BY <1>2 DEF TypeInv, RowsInv, TaskTypes, TaskType, TaskStatus
<1>4. \/ /\ task' = [task EXCEPT ![t] = v]
         /\ claims' = [claims EXCEPT ![t] = claims[t] + 1]
         /\ Go(p, "Prepare")
      \/ UNCHANGED <<task, claims>> /\ Put(p, IdleProc)
    BY <1>2, <1>3 DEF Claim, TaskType
<1>. HIDE DEF v, t
<1>5. task' \in [Tasks -> TaskType] /\ claims' \in [Tasks -> Nat]
    BY <1>3, <1>4
<1>6. TaskTypes'
    BY <1>1, <1>5 DEF TypeInv, RowsInv, TaskTypes
<1>7. Go(p, "Prepare") \/ Put(p, IdleProc)
    BY <1>4
<1>8. Moves(p)
    <2>1. CASE Go(p, "Prepare")
        <3>1. "Prepare" \in ExecSteps /\ proc[p].kind = "exec"
            BY <1>0, AtExec DEF ExecSteps, TypeInv
        <3>. QED
            BY <1>0, <2>1, <3>1, RecordGo DEF TypeInv
    <2>2. CASE Put(p, IdleProc)
        BY <1>2, <2>2, IdleSlot DEF Moves
    <2>. QED
        BY <1>7, <2>1, <2>2
<1>. QED
    BY <1>1, <1>6, <1>8, TaskMove

LEMMA PrepareTypes ==
    ASSUME TypeInv, NEW p \in Procs, Prepare(p)
    PROVE  TypeInv' /\ Alone(p)
<1>0. proc[p].pc = "Prepare" /\ proc[p].pc \in ExecSteps
    BY DEF Prepare, At, ExecSteps
<1>1. RowsStay /\ HistoryTypes'
    BY HistoryStays DEF Prepare, RowsStay, mailVars, taskVars, worldVars, fixedVars, TypeInv
<1>2. /\ p \in ExecSlots /\ InExec(proc[p], Shown) /\ proc[p] \in ProcType
      /\ BoxOf(SourceOf(TaskOf(p))) \in Boxes
    BY <1>0, AtExec DEF TypeInv
<1>. DEFINE to == target[BoxOf(SourceOf(TaskOf(p)))]
            s == IF to \notin {None, task[TaskOf(p)].assigned} THEN "Reassign" ELSE "PutTrace"
            x == [proc[p] EXCEPT !.pc = s, !.to = to]
<1>3. Put(p, x)
    BY DEF Prepare
<1>4. to \in Targets \union {None}
    BY <1>2 DEF TypeInv, RowsInv, WorldTypes
<1>5. s \in Pcs /\ s \in ExecSteps \union RecordSteps
    BY DEF Pcs, Steps, ExecSteps, RecordSteps
<1>. HIDE DEF s, to
<1>6. x \in ProcType /\ x.pc = s /\ x.kind = proc[p].kind /\ x.task = proc[p].task
    BY <1>2, <1>4, <1>5 DEF ProcType
<1>. HIDE DEF x
<1>7. InExec(x, Shown)
    BY <1>0, <1>2, <1>5, <1>6 DEF InExec
<1>8. Fits(p, x)
    BY <1>2, <1>6, <1>7, Ranks DEF Fits, ProcOK
<1>. QED
    BY <1>1, <1>3, <1>8, QuietMove DEF Moves

LEMMA RejectTypes ==
    ASSUME TypeInv, NEW p \in Procs, Reassign(p) \/ Reject(p) \/ RejectLetter(p)
    PROVE  TypeInv' /\ Alone(p)
<1>0. proc[p].pc \in ExecSteps
    BY DEF Reassign, Reject, RejectLetter, At, ExecSteps
<1>1. UNCHANGED <<mailVars, ran, claims, keyed, worldVars, workload>> /\ HistoryTypes'
    BY HistoryStays DEF Reassign, Reject, RejectLetter, taskVars, fixedVars, TypeInv
<1>2. /\ TaskOf(p) \in Tasks /\ p \in ExecSlots /\ proc[p].to \in Targets \union {None}
      /\ proc[p].kind = "exec"
    BY <1>0, AtExec DEF TypeInv, ProcType
<1>. DEFINE v == [task[TaskOf(p)] EXCEPT !.assigned = proc[p].to]
<1>3. task \in [Tasks -> TaskType] /\ v \in TaskType
    BY <1>2 DEF TypeInv, RowsInv, TaskTypes, TaskType
<1>4. SetReview(p, FALSE) \/ task' = task \/ task' = [task EXCEPT ![TaskOf(p)] = v]
    BY <1>2, <1>3 DEF Reassign, Reject, RejectLetter, taskVars, TaskType
<1>. HIDE DEF v
<1>5. task' \in [Tasks -> TaskType]
    BY <1>2, <1>3, <1>4, SetReviewTypes
<1>6. TaskTypes'
    BY <1>1, <1>5 DEF TypeInv, RowsInv, TaskTypes
<1>7. (\E s \in {"PutTrace", "RejectLetter"} : Go(p, s)) \/ Put(p, IdleProc)
    BY DEF Reassign, Reject, RejectLetter
<1>8. Moves(p)
    BY <1>0, <1>2, <1>7, RecordGo, IdleSlot DEF TypeInv, ExecSteps, RecordSteps, Moves
<1>. QED
    BY <1>1, <1>6, <1>8, TaskMove

-----------------------------------------------------------------------------
(* POST /v1/messages/:id/replay.                                           *)

LEMMA ReplayGo ==
    ASSUME NEW p \in Replays, NEW x \in ProcType, x.pc \in ReplaySteps,
           x.kind \in {"normalize", "rerun"}, <<"reply", x.msg>> \in Shown,
           proc[p].pc \in Unsent \/ x.pc \notin Unsent
    PROVE  Fits(p, x)
<1>1. "free" \notin ReplaySteps
    BY DEF ReplaySteps
<1>. QED
    BY <1>1, Ranks DEF Fits, ProcOK, InReplay, Onward

LEMMA AtReplay ==
    ASSUME ProcsOK, NEW p \in Procs, proc[p].pc \in ReplaySteps
    PROVE  /\ p \in Replays /\ proc[p] \in ProcType /\ proc[p].kind \in {"normalize", "rerun"}
           /\ <<"reply", proc[p].msg>> \in Shown /\ proc[p].msg \in Messages
           /\ BoxOf(proc[p].msg) \in Boxes
           /\ ReplayTask(p) \in Tasks
<1>1. p \in Replays
    BY ProcIs, Ranks DEF Delivering, InJob, InExec, Work, ReceiveSteps, ExecSteps, ReplaySteps,
       ThreadSteps, StoreSteps, FileSteps, TaskSteps, RecordSteps
<1>2. InReplay(proc[p], Shown) /\ proc[p] \in ProcType
    BY <1>1, ProcIs
<1>3. proc[p].kind \in {"normalize", "rerun"} /\ <<"reply", proc[p].msg>> \in Shown
    BY <1>2 DEF InReplay, ReplaySteps
<1>4. proc[p].msg \in Messages
    BY <1>1, <1>3, ShownIs
<1>. QED
    BY <1>1, <1>2, <1>3, <1>4, MessageIs, TaskIs DEF ReplayTask

LEMMA ReplayMoves ==
    ASSUME ProcsOK, NEW p \in Procs, proc[p].pc \in ReplaySteps,
           \/ \E s \in ReplaySteps : Go(p, s) /\ (proc[p].pc \in Unsent \/ s \notin Unsent)
           \/ \E s \in {"accepted", "refused", "crashed"} : Answer(p, s)
    PROVE  Moves(p)
<1>0. /\ p \in Replays /\ proc[p] \in ProcType /\ proc[p].kind \in {"normalize", "rerun"}
      /\ <<"reply", proc[p].msg>> \in Shown
    BY AtReplay
<1>1. ASSUME NEW s \in ReplaySteps, Go(p, s), proc[p].pc \in Unsent \/ s \notin Unsent
      PROVE  Moves(p)
    <2>. DEFINE x == [proc[p] EXCEPT !.pc = s]
    <2>1. s \in Pcs
        BY StepNames DEF Steps
    <2>2. x \in ProcType /\ x.pc = s /\ x.kind = proc[p].kind /\ x.msg = proc[p].msg
        BY <1>0, <2>1, GoRecord
    <2>3. Put(p, x)
        BY <1>1, GoIs
    <2>. HIDE DEF x
    <2>. QED
        BY <1>0, <1>1, <2>2, <2>3, ReplayGo DEF Moves
<1>2. ASSUME NEW s \in {"accepted", "refused", "crashed"}, Answer(p, s) PROVE Moves(p)
    <2>. DEFINE x == [IdleProc EXCEPT !.pc = s, !.msg = proc[p].msg]
    <2>1. s \in Pcs /\ proc[p].msg \in Messages \union {None}
        BY <1>0 DEF Pcs, ProcType
    <2>2. x \in ProcType /\ x.pc = s /\ x.msg = proc[p].msg
        BY <2>1, IdleTypes DEF IdleProc, ProcType
    <2>3. Put(p, x)
        BY <1>2 DEF Answer
    <2>. HIDE DEF x
    <2>4. InReplay(x, Shown)
        BY <1>0, <2>2 DEF InReplay, ReplaySteps
    <2>5. Fits(p, x)
        BY <1>0, <2>2, <2>4, Ranks DEF Fits, ProcOK, Onward, Unsent
    <2>. QED
        BY <2>3, <2>5 DEF Moves
<1>. QED
    BY <1>1, <1>2

LEMMA ReplayTypes ==
    ASSUME TypeInv, NEW p \in Procs, Replay(p)
    PROVE  TypeInv' /\ Alone(p)
<1>1. RowsStay /\ HistoryTypes'
    BY HistoryStays DEF Replay, RowsStay, mailVars, taskVars, worldVars, fixedVars, TypeInv
<1>2. PICK c \in workload :
        /\ c.who = p /\ c.call = "replay"
        /\ \E m \in Messages : Seen(m) /\ Asks(p, c.mode, m)
    BY DEF Replay
<1>3. c \in Calls
    BY DEF TypeInv, RowsInv, WorldTypes
<1>4. p \in Replays /\ c.mode \in {"normalize", "rerun"}
    BY <1>2, <1>3, CallsAre
<1>5. PICK m \in Messages : Seen(m) /\ Asks(p, c.mode, m)
    BY <1>2
<1>. DEFINE x == [IdleProc EXCEPT !.pc = "Reserve", !.kind = c.mode, !.msg = m]
<1>6. "Reserve" \in Pcs /\ "Reserve" \in ReplaySteps /\ c.mode \in Kinds
    BY <1>4 DEF Pcs, Steps, ReplaySteps, Kinds
<1>7. x \in ProcType /\ x.pc = "Reserve" /\ x.kind = c.mode /\ x.msg = m
    BY <1>6, IdleTypes DEF IdleProc, ProcType
<1>8. Put(p, x)
    BY <1>5 DEF Asks
<1>. HIDE DEF x
<1>9. proc[p].pc \in Unsent
    BY DEF Replay, At, Unsent
<1>10. Fits(p, x)
    BY <1>4, <1>5, <1>6, <1>7, <1>9, ReplayGo, ShownIs
<1>. QED
    BY <1>1, <1>8, <1>10, QuietMove DEF Moves

(* A step of a replay that writes the key or a task.                       *)
LEMMA KeyMove ==
    ASSUME TypeInv, NEW p \in Procs, Moves(p) \/ Sends(p), keyed' \in KeyedType,
           UNCHANGED <<mailVars, taskVars, worldVars, workload>>, HistoryTypes'
    PROVE  TypeInv' /\ Alone(p)
<1>1. RowsInv'
    BY DEF TypeInv, RowsInv, MailTypes, TaskTypes, WorldTypes, mailVars, taskVars, worldVars
<1>2. Hidden
    BY DEF Hidden, Seen, Exists, worldVars, mailVars
<1>. QED
    BY <1>1, <1>2, MoveTypes, SendTypes DEF TypeInv

LEMMA KeyTypes ==
    ASSUME TypeInv
    PROVE  /\ keyed \in KeyedType /\ NoKey \in KeyedType
           /\ [keyed EXCEPT !.times = @ + 1] \in KeyedType
           /\ [keyed EXCEPT !.noted = TRUE] \in KeyedType
           /\ [keyed EXCEPT !.status = "completed"] \in KeyedType
           /\ [NoKey EXCEPT !.times = keyed.times] \in KeyedType
<1>1. keyed \in KeyedType
    BY DEF TypeInv, RowsInv, TaskTypes
<1>2. keyed.times \in Nat /\ keyed.times + 1 \in Nat
    BY <1>1 DEF KeyedType
<1>3. [keyed EXCEPT !.times = keyed.times + 1] \in KeyedType
    BY <1>1, <1>2 DEF KeyedType
<1>4. [keyed EXCEPT !.noted = TRUE] \in KeyedType /\ [keyed EXCEPT !.status = "completed"] \in KeyedType
    BY <1>1 DEF KeyedType
<1>5. NoKey \in KeyedType /\ [NoKey EXCEPT !.times = keyed.times] \in KeyedType
    BY <1>2 DEF KeyedType, NoKey
<1>. QED
    BY <1>1, <1>3, <1>4, <1>5

LEMMA ReserveTypes ==
    ASSUME TypeInv, NEW p \in Procs, Reserve(p)
    PROVE  TypeInv' /\ Alone(p)
<1>0. proc[p].pc \in ReplaySteps /\ proc[p].pc \in Unsent
    BY DEF Reserve, At, ReplaySteps, Unsent
<1>1. UNCHANGED <<mailVars, taskVars, worldVars, workload>> /\ HistoryTypes'
    BY HistoryStays DEF Reserve, fixedVars, TypeInv
<1>. DEFINE k == [keyed EXCEPT !.status = "pending", !.msg = proc[p].msg, !.mode = proc[p].kind]
<1>2. k \in KeyedType
    BY <1>0, AtReplay, KeyTypes DEF KeyedType, TypeInv
<1>3. \/ keyed' = k /\ Go(p, "ReplayTarget")
      \/ keyed' = keyed /\ Answer(p, "refused")
      \/ keyed' = [keyed EXCEPT !.status = "completed"] /\ Answer(p, "accepted")
    BY DEF Reserve
<1>. HIDE DEF k
<1>4. keyed' \in KeyedType
    BY <1>2, <1>3, KeyTypes
<1>5. Moves(p)
    BY <1>0, <1>3, ReplayMoves DEF TypeInv, ReplaySteps
<1>. QED
    BY <1>1, <1>4, <1>5, KeyMove

LEMMA ReplayTargetTypes ==
    ASSUME TypeInv, NEW p \in Procs, ReplayTarget(p)
    PROVE  TypeInv' /\ Alone(p)
<1>0. proc[p].pc \in ReplaySteps /\ proc[p].pc \in Unsent
    BY DEF ReplayTarget, At, ReplaySteps, Unsent
<1>1. RowsStay /\ HistoryTypes'
    BY HistoryStays DEF ReplayTarget, RowsStay, mailVars, taskVars, worldVars, fixedVars, TypeInv
<1>2. /\ p \in Replays /\ proc[p] \in ProcType /\ proc[p].kind \in {"normalize", "rerun"}
      /\ <<"reply", proc[p].msg>> \in Shown /\ BoxOf(proc[p].msg) \in Boxes
    BY <1>0, AtReplay DEF TypeInv
<1>. DEFINE s == IF ~CanReplay(p) THEN "Release"
                 ELSE IF Normalizes(p) THEN "SendNormalize" ELSE "CreateReplay"
            to == target[BoxOf(proc[p].msg)]
            x == [proc[p] EXCEPT !.pc = s, !.to = to]
<1>3. s \in ReplaySteps /\ s \in Pcs
    BY DEF Pcs, Steps, ReplaySteps
<1>4. to \in Targets \union {None}
    BY <1>2 DEF TypeInv, RowsInv, WorldTypes
<1>5. Put(p, x)
    BY DEF ReplayTarget
<1>. HIDE DEF s, to
<1>6. x \in ProcType /\ x.pc = s /\ x.kind = proc[p].kind /\ x.msg = proc[p].msg
    BY <1>2, <1>3, <1>4 DEF ProcType
<1>. HIDE DEF x
<1>7. Fits(p, x)
    BY <1>0, <1>2, <1>3, <1>6, ReplayGo
<1>. QED
    BY <1>1, <1>5, <1>7, QuietMove DEF Moves

(* The step after a replay has queued its job.                             *)
LEMMA ToNote ==
    ASSUME ProcsOK, NEW p \in Procs, proc[p].pc \in ReplaySteps
    PROVE  Fits(p, [proc[p] EXCEPT !.pc = "Note"]) /\ ~At(p, "free")
<1>. DEFINE x == [proc[p] EXCEPT !.pc = "Note"]
<1>1. "Note" \in ReplaySteps /\ "Note" \in Pcs /\ "free" \notin ReplaySteps /\ "Note" \notin Unsent
    BY DEF Pcs, Steps, ReplaySteps, Unsent
<1>2. /\ p \in Replays /\ proc[p] \in ProcType /\ proc[p].kind \in {"normalize", "rerun"}
      /\ <<"reply", proc[p].msg>> \in Shown
    BY AtReplay
<1>3. x \in ProcType /\ x.pc = "Note" /\ x.kind = proc[p].kind /\ x.msg = proc[p].msg
    BY <1>1, <1>2, GoRecord
<1>. HIDE DEF x
<1>4. Fits(p, x)
    BY <1>1, <1>2, <1>3, ReplayGo
<1>. QED
    BY <1>1, <1>4 DEF x, At

LEMMA SendReplayTypes ==
    ASSUME TypeInv, NEW p \in Procs, SendNormalize(p) \/ SendReplay(p)
    PROVE  TypeInv' /\ Alone(p)
<1>0. proc[p].pc \in ReplaySteps /\ proc[p].pc \in Unsent
    BY DEF SendNormalize, SendReplay, At, ReplaySteps, Unsent
<1>1. UNCHANGED <<mailVars, taskVars, worldVars, workload>> /\ HistoryTypes'
    BY HistoryStays DEF SendNormalize, SendReplay, fixedVars, TypeInv
<1>. DEFINE x == [proc[p] EXCEPT !.pc = "Note"]
<1>2. /\ Fits(p, x) /\ ~At(p, "free")
      /\ <<"reply", proc[p].msg>> \in Shown
      /\ ReplayTask(p) \in Sending(p, x) /\ ReplayTask(p) \in Tasks
    <2>1. proc[p] \in ProcType /\ p \in Replays
        BY <1>0, AtReplay DEF TypeInv
    <2>2. x.pc = "Note"
        BY <2>1 DEF ProcType
    <2>3. ReplayTask(p) \in Sending(p, x)
        BY <2>1, <2>2 DEF Sending, Unsent
    <2>. QED
        BY <1>0, <2>3, ToNote, AtReplay DEF TypeInv
<1>3. \/ Enqueue(IngestSlots, "job", Job(proc[p].msg), p, x) /\ Counted
      \/ Enqueue(ExecSlots, "exec", TaskJob(ReplayTask(p)), p, x) /\ Counted
      \/ (Go(p, "Release") \/ Go(p, "DropReplay")) /\ keyed' = keyed
    BY DEF SendNormalize, SendReplay
<1>. HIDE DEF x
<1>4. keyed' \in KeyedType
    BY <1>3, KeyTypes DEF Counted
<1>5. CASE \/ Enqueue(IngestSlots, "job", Job(proc[p].msg), p, x)
           \/ Enqueue(ExecSlots, "exec", TaskJob(ReplayTask(p)), p, x)
    <2>1. Sends(p)
        BY <1>2, <1>5, EnqueueTypes
    <2>. QED
        BY <1>1, <1>4, <2>1, KeyMove
<1>6. CASE Go(p, "Release") \/ Go(p, "DropReplay")
    <2>1. Moves(p)
        BY <1>0, <1>6, ReplayMoves DEF TypeInv, ReplaySteps
    <2>. QED
        BY <1>1, <1>4, <2>1, KeyMove
<1>. QED
    BY <1>3, <1>5, <1>6

LEMMA CreateReplayTypes ==
    ASSUME TypeInv, NEW p \in Procs, CreateReplay(p) \/ DropReplay(p)
    PROVE  TypeInv' /\ Alone(p)
<1>0. proc[p].pc \in ReplaySteps /\ proc[p].pc \in Unsent
    BY DEF CreateReplay, DropReplay, At, ReplaySteps, Unsent
<1>1. UNCHANGED <<mailVars, ran, claims, keyed, worldVars, workload>> /\ HistoryTypes'
    BY HistoryStays DEF CreateReplay, DropReplay, fixedVars, TypeInv
<1>2. /\ p \in Replays /\ proc[p] \in ProcType /\ proc[p].kind \in {"normalize", "rerun"}
      /\ <<"reply", proc[p].msg>> \in Shown /\ ReplayTask(p) \in Tasks
      /\ proc[p].to \in Targets \union {None}
    BY <1>0, AtReplay DEF TypeInv, ProcType
<1>. DEFINE v == [NoTask EXCEPT !.status = "queued", !.assigned = proc[p].to]
            x == [proc[p] EXCEPT !.pc = "SendReplay", !.task = ReplayTask(p)]
<1>3. v \in TaskType /\ NoTask \in TaskType /\ task \in [Tasks -> TaskType]
    BY <1>2, IdleTypes DEF NoTask, TaskType, TaskStatus, TypeInv, RowsInv, TaskTypes
<1>4. task' = [task EXCEPT ![ReplayTask(p)] = v] \/ task' = [task EXCEPT ![ReplayTask(p)] = NoTask]
    BY DEF CreateReplay, DropReplay
<1>5. Put(p, x) \/ Go(p, "Release")
    BY DEF CreateReplay, DropReplay
<1>. HIDE DEF v
<1>6. task' \in [Tasks -> TaskType]
    BY <1>3, <1>4
<1>7. TaskTypes'
    BY <1>1, <1>6 DEF TypeInv, RowsInv, TaskTypes
<1>8. CASE Put(p, x)
    <2>1. "SendReplay" \in Pcs /\ "SendReplay" \in ReplaySteps
        BY DEF Pcs, Steps, ReplaySteps
    <2>2. x \in ProcType /\ x.pc = "SendReplay" /\ x.kind = proc[p].kind /\ x.msg = proc[p].msg
        BY <1>2, <2>1 DEF ProcType
    <2>. HIDE DEF x
    <2>3. Fits(p, x)
        BY <1>0, <1>2, <2>1, <2>2, ReplayGo
    <2>. QED
        BY <1>1, <1>7, <1>8, <2>3, TaskMove DEF Moves
<1>9. CASE Go(p, "Release")
    <2>1. Moves(p)
        BY <1>0, <1>9, ReplayMoves DEF TypeInv, ReplaySteps
    <2>. QED
        BY <1>1, <1>7, <2>1, TaskMove
<1>. QED
    BY <1>5, <1>8, <1>9

LEMMA NoteTypes ==
    ASSUME TypeInv, NEW p \in Procs, Note(p) \/ Complete(p) \/ Release(p)
    PROVE  TypeInv' /\ Alone(p)
<1>0. proc[p].pc \in ReplaySteps
    BY DEF Note, Complete, Release, At, ReplaySteps
<1>1. UNCHANGED <<mailVars, taskVars, worldVars, workload>> /\ HistoryTypes'
    BY HistoryStays DEF Note, Complete, Release, fixedVars, TypeInv
<1>2. keyed' \in KeyedType
    BY KeyTypes DEF Note, Complete, Release
<1>3. Go(p, "Complete") \/ (\E s \in {"accepted", "refused"} : Answer(p, s))
    BY DEF Note, Complete, Release
<1>4. Moves(p)
    BY <1>0, <1>3, ReplayMoves DEF TypeInv, ReplaySteps, Unsent
<1>. QED
    BY <1>1, <1>2, <1>4, KeyMove

LEMMA TaskStepTypes ==
    ASSUME TypeInv, NEW p \in Procs, TaskStep(p)
    PROVE  TypeInv' /\ Alone(p)
BY RecordTraceTypes, ReviewTypes, ClaimTypes, PrepareTypes, RejectTypes, ReplayTypes, ReserveTypes,
   ReplayTargetTypes, SendReplayTypes, CreateReplayTypes, NoteTypes
   DEF TaskStep, RecordStep, ExecStep, ReplayStep

LEMMA FailTaskTypes ==
    ASSUME TypeInv, NEW p \in Procs, TaskFailure(p)
    PROVE  TypeInv' /\ Alone(p)
<1>1. RowsStay /\ HistoryTypes'
    BY RecordTypes DEF TaskFailure, FailRecord, FailExec, FailReplay, Failed, RowsStay, mailVars,
       taskVars, worldVars, fixedVars, TypeInv
<1>2. CASE FailRecord(p)
    <2>1. /\ proc[p].pc \in RecordSteps
          /\ FailReview(p) \/ Go(p, "UndoRun") \/ Go(p, "UndoTrace")
        BY <1>2 DEF FailRecord, At, RecordSteps
    <2>2. Moves(p)
        BY <2>1, FailReviewTypes, RecordGo DEF TypeInv, RecordSteps
    <2>. QED
        BY <1>1, <2>2, QuietMove
<1>3. CASE FailExec(p)
    <2>1. proc[p].pc \in ExecSteps
        BY <1>3 DEF FailExec, At, ExecSteps
    <2>2. p \in ExecSlots /\ proc[p].kind = "exec" /\ proc[p].pc # "free"
        BY <2>1, AtExec DEF TypeInv
    <2>3. Go(p, "Reject") \/ Go(p, "RejectLetter") \/ Put(p, Retried(p))
        BY <1>3 DEF FailExec
    <2>4. CASE Put(p, Retried(p))
        BY <1>1, <2>2, <2>4, RetriedTypes, QuietMove DEF TypeInv, Moves
    <2>5. CASE Go(p, "Reject") \/ Go(p, "RejectLetter")
        <3>1. "Reject" \in ExecSteps /\ "RejectLetter" \in ExecSteps
            BY DEF ExecSteps
        <3>2. Moves(p)
            BY <2>1, <2>2, <2>5, <3>1, RecordGo DEF TypeInv
        <3>. QED
            BY <1>1, <3>2, QuietMove
    <2>. QED
        BY <2>3, <2>4, <2>5
<1>4. CASE FailReplay(p)
    <2>. DEFINE s == AfterReplayThrow(proc[p].pc)
    <2>1. /\ s \in {"Release", "DropReplay", "refused"}
          /\ s = "DropReplay" => proc[p].pc = "SendReplay"
        BY DEF AfterReplayThrow
    <2>2. Answer(p, "refused") \/ (s # "refused" /\ Go(p, s))
        BY <1>4 DEF FailReplay
    <2>. HIDE DEF s
    <2>3. p \in Replays /\ proc[p].pc \in Steps
        BY <1>4 DEF FailReplay, Failed
    <2>4. proc[p].pc \in ReplaySteps
        <3>1. InReplay(proc[p], Shown) /\ proc[p].pc # "free"
            BY <2>3, ProcIs DEF TypeInv, Steps, ReceiveSteps, ThreadSteps, StoreSteps, FileSteps,
               TaskSteps, RecordSteps, ExecSteps, ReplaySteps
        <3>. QED
            BY <2>3, <3>1 DEF InReplay, Steps, ReceiveSteps, ThreadSteps, StoreSteps, FileSteps,
               TaskSteps, RecordSteps, ExecSteps, ReplaySteps
    <2>5. Moves(p)
        BY <2>1, <2>2, <2>4, ReplayMoves DEF TypeInv, ReplaySteps, Unsent
    <2>. QED
        BY <1>1, <2>5, QuietMove
<1>. QED
    BY <1>2, <1>3, <1>4 DEF TaskFailure

-----------------------------------------------------------------------------
(* Crashes, others, and the whole.                                         *)

LEMMA CrashTypes ==
    ASSUME TypeInv, NEW p \in Procs, Crash(p)
    PROVE  TypeInv' /\ Alone(p)
<1>0. proc[p].pc \in Steps
    BY DEF Crash, Running
<1>1. RowsStay /\ idleAt' = idleAt /\ faults' \in 0..MaxFaults
    BY FaultTypes DEF Crash, RowsStay, mailVars, taskVars, worldVars, fixedVars, TypeInv
<1>2. \/ p \in Deliveries /\ Bounced(p)
      \/ p \in IngestSlots \union ExecSlots /\ Put(p, Retried(p)) /\ Drop(p)
      \/ p \in Replays /\ Answer(p, "crashed") /\ dropped' = dropped
    BY DEF Crash
<1>3. proc[p].pc \notin {"free", "queued", "again", "accepted", "rejected", "bounced", "refused",
                         "crashed"}
    BY <1>0 DEF Steps, ReceiveSteps, ThreadSteps, StoreSteps, FileSteps,
       TaskSteps, RecordSteps, ExecSteps, ReplaySteps
<1>4. CASE p \in Deliveries /\ Bounced(p)
    <2>1. Bringing(p, proc[p]) /\ proc[p] \in ProcType
        BY <1>3, <1>4, ProcIs DEF TypeInv, Delivering
    <2>2. Moves(p) /\ dropped' \subseteq Messages
        BY <1>4, <2>1, BouncedTypes DEF TypeInv
    <2>3. HistoryTypes'
        BY <1>1, <2>2 DEF TypeInv, RowsInv, HistoryTypes
    <2>. QED
        BY <1>1, <2>2, <2>3, QuietMove
<1>5. CASE p \in IngestSlots \union ExecSlots /\ Put(p, Retried(p)) /\ Drop(p)
    <2>1. Moves(p) /\ dropped' \subseteq Messages
        BY <1>3, <1>5, RetriedTypes, DropTypes DEF TypeInv, Moves
    <2>2. HistoryTypes'
        BY <1>1, <2>1 DEF TypeInv, RowsInv, HistoryTypes
    <2>. QED
        BY <1>1, <2>1, <2>2, QuietMove
<1>6. CASE p \in Replays /\ Answer(p, "crashed") /\ dropped' = dropped
    <2>1. proc[p].pc \in ReplaySteps
        BY <1>3, <1>6, ProcIs DEF TypeInv, InReplay
    <2>2. Moves(p)
        BY <1>6, <2>1, ReplayMoves DEF TypeInv
    <2>3. HistoryTypes'
        BY <1>1, <1>6 DEF TypeInv, RowsInv, HistoryTypes
    <2>. QED
        BY <1>1, <2>2, <2>3, QuietMove
<1>. QED
    BY <1>2, <1>4, <1>5, <1>6

LEMMA OtherTypes ==
    ASSUME TypeInv, NEW b \in Boxes, Close(b) \/ Retarget(b)
    PROVE  TypeInv' /\ Hidden
<1>1. /\ UNCHANGED <<mailVars, taskVars, keyed, proc, workload>> /\ HistoryTypes'
      /\ moves' \in 0..MaxMoves
    <2>1. moves < MaxMoves /\ moves' = moves + 1
        BY DEF Close, Retarget, Move
    <2>2. moves' \in 0..MaxMoves
        BY <2>1, InboundAssumption DEF TypeInv, RowsInv, WorldTypes
    <2>. QED
        BY <2>2, HistoryStays DEF Close, Retarget, fixedVars, TypeInv
<1>2. /\ box' \in [Boxes -> {"active", "inactive", "gone"}]
      /\ target' \in [Boxes -> Targets \union {None}]
    BY DEF Close, Retarget, TypeInv, RowsInv, WorldTypes
<1>3. RowsInv'
    BY <1>1, <1>2 DEF TypeInv, RowsInv, MailTypes, TaskTypes, WorldTypes, mailVars, taskVars
<1>4. message' = message
    BY <1>1 DEF mailVars
<1>5. ASSUME NEW m \in Messages, Seen(m)
      PROVE  box'[BoxOf(m)] # "gone"
    <2>1. BoxOf(m) \in Boxes /\ Exists(m) /\ box[BoxOf(m)] # "gone"
        BY <1>5, MessageIs DEF Seen
    <2>2. box \in [Boxes -> {"active", "inactive", "gone"}]
        BY DEF TypeInv, RowsInv, WorldTypes
    <2>. QED
        BY <1>5, <2>1, <2>2 DEF Close, Retarget
<1>6. Hidden
    BY <1>4, <1>5 DEF Hidden, Seen, Exists, BoxOf
<1>7. Shown \subseteq Shown' /\ proc' = proc
    BY <1>1, <1>6, StaysShown
<1>8. ProcsOK'
    BY <1>7, Grows DEF TypeInv, ProcsOK
<1>. QED
    BY <1>3, <1>6, <1>8 DEF TypeInv

LEMMA InitTypes == Init => TypeInv
<1>. SUFFICES ASSUME Init PROVE TypeInv
    OBVIOUS
<1>1. MailTypes
    BY IdleTypes DEF Init, MailTypes
<1>2. TaskTypes
    BY IdleTypes DEF Init, TaskTypes, NoKey, KeyedType
<1>3. PICK w \in Workloads : workload = w.calls /\ faults = w.spared
    BY DEF Init
<1>4. w.calls \subseteq Calls /\ w.spared \in 0..MaxFaults
    BY InboundAssumption
<1>5. WorldTypes
    BY <1>3, <1>4, InboundAssumption DEF Init, WorldTypes
<1>6. HistoryTypes
    BY <1>3, <1>4 DEF Init, HistoryTypes
<1>7. \A p \in Procs : proc[p] = IdleProc
    BY DEF Init
<1>8. \A p \in Procs : ProcOK(p, IdleProc, Shown)
    BY IdleTypes DEF ProcOK, Delivering, InJob, InExec, InReplay, ReceiveSteps, ThreadSteps,
       StoreSteps, FileSteps, TaskSteps, RecordSteps, ReplaySteps, Work, Looking
<1>9. proc \in [Procs -> ProcType]
    BY IdleTypes DEF Init
<1>. QED
    BY <1>1, <1>2, <1>5, <1>6, <1>7, <1>8, <1>9 DEF TypeInv, RowsInv, ProcsOK

LEMMA NextTypes == TypeInv /\ [Next]_vars => TypeInv'
<1>. SUFFICES ASSUME TypeInv, [Next]_vars PROVE TypeInv'
    OBVIOUS
<1>1. ASSUME NEW p \in Procs, Process(p) PROVE TypeInv'
    BY <1>1, ReceiveStepTypes, ReceiveTypes, IngestTypes, LetterTypes, TaskStepTypes DEF Process
<1>2. ASSUME NEW p \in Procs, Failure(p) PROVE TypeInv'
    BY <1>2, FailReceiveTypes, FailRowTypes, FailIngestCallTypes, LetterTypes, FailTaskTypes,
       CrashTypes
       DEF Failure, ReceiveFailure, IngestFailure
<1>3. ASSUME NEW b \in Boxes, Close(b) \/ Retarget(b) PROVE TypeInv'
    BY <1>3, OtherTypes
<1>4. CASE UNCHANGED vars
    <2>1. RowsInv'
        BY <1>4 DEF vars, TypeInv, RowsInv, MailTypes, TaskTypes, WorldTypes, HistoryTypes, mailVars,
           taskVars, worldVars, historyVars, fixedVars
    <2>2. Hidden /\ proc' = proc
        BY <1>4 DEF vars, Hidden, Seen, Exists, mailVars, worldVars
    <2>3. Shown \subseteq Shown'
        BY <2>2, StaysShown
    <2>4. ProcsOK'
        BY <2>2, <2>3, Grows DEF TypeInv, ProcsOK
    <2>. QED
        BY <2>1, <2>4 DEF TypeInv
<1>. QED
    BY <1>1, <1>2, <1>3, <1>4 DEF Next

-----------------------------------------------------------------------------
(* Which steps write messages, tasks, the key and raw objects.             *)

RawStay == \A m : Raw(m) \in blobs' <=> Raw(m) \in blobs

Frames(p) ==
    /\ box' = box /\ failed \subseteq failed'
    /\ \/ UNCHANGED <<task, claims>>
       \/ Task(p) \/ Review(p) \/ Claim(p) \/ Reassign(p) \/ Reject(p)
       \/ CreateReplay(p) \/ DropReplay(p)
    /\ \/ message' = message
       \/ Insert(p) \/ Finalize(p) \/ FailRow(p) \/ FailFailRow(p) \/ Normalize(p) \/ Mark(p)
    /\ sentThread' = sentThread \/ Assign(p)
    /\ thread' = thread \/ GetThread(p) \/ DropThread(p)
    /\ \/ keyed' = keyed
       \/ Reserve(p) \/ SendNormalize(p) \/ SendReplay(p)
       \/ Note(p) \/ Complete(p) \/ Release(p)
    /\ RawStay \/ Insert(p) \/ Finalize(p) \/ FailReceive(p)

LEMMA ReceiveFrames ==
    ASSUME NEW p \in Procs, ReceiveStep(p) \/ ReceiveFailure(p)
    PROVE  Frames(p)
<1>1. CASE Deliver(p)
    BY <1>1 DEF Frames, Deliver, RawStay, mailVars, taskVars, worldVars, historyVars
<1>2. CASE Again(p)
    BY <1>2 DEF Frames, Again, RawStay, mailVars, taskVars, worldVars, historyVars
<1>3. CASE Lookup(p)
    BY <1>3 DEF Frames, Lookup, RawStay, mailVars, taskVars, worldVars
<1>4. CASE Insert(p)
    BY <1>4 DEF Frames, Insert, mailVars, taskVars, worldVars, historyVars
<1>5. CASE Finalize(p)
    BY <1>5 DEF Frames, Finalize, mailVars, taskVars, worldVars, historyVars
<1>6. CASE Relook(p)
    BY <1>6 DEF Frames, Relook, RawStay, mailVars, taskVars, worldVars, historyVars
<1>7. CASE Dispatch(p)
    BY <1>7 DEF Frames, Dispatch, RawStay, mailVars, taskVars, worldVars, historyVars
<1>8. CASE FailRow(p)
    BY <1>8 DEF Frames, FailRow, RawStay, mailVars, taskVars, worldVars, historyVars
<1>9. CASE Bounce(p)
    BY <1>9 DEF Frames, Bounce, RawStay, mailVars, taskVars, worldVars
<1>10. CASE FailReceive(p)
    BY <1>10 DEF Frames, FailReceive, mailVars, taskVars, worldVars, Record
<1>11. CASE FailDispatch(p)
    BY <1>11 DEF Frames, FailDispatch, RawStay, mailVars, taskVars, worldVars, Record
<1>12. CASE FailFailRow(p)
    BY <1>12 DEF Frames, FailFailRow, RawStay, mailVars, taskVars, worldVars, Record
<1>. QED
    BY <1>1, <1>2, <1>3, <1>4, <1>5, <1>6, <1>7, <1>8, <1>9, <1>10, <1>11, <1>12
       DEF ReceiveStep, ReceiveFailure

LEMMA IngestFrames ==
    ASSUME NEW p \in Procs, IngestStep(p)
    PROVE  Frames(p)
<1>1. CASE Read(p)
    BY <1>1 DEF Frames, Read, RawStay, mailVars, taskVars, worldVars, historyVars
<1>2. CASE FindThread(p)
    BY <1>2 DEF Frames, FindThread, RawStay, mailVars, taskVars, worldVars, historyVars
<1>3. CASE GetThread(p)
    BY <1>3 DEF Frames, GetThread, RawStay, mailVars, taskVars, worldVars, historyVars
<1>4. CASE Assign(p)
    BY <1>4 DEF Frames, Assign, RawStay, mailVars, taskVars, worldVars, historyVars
<1>5. CASE PutNormalized(p)
    BY <1>5 DEF Frames, PutNormalized, RawStay, mailVars, taskVars, worldVars, historyVars, Raw,
       Normal
<1>6. CASE Normalize(p)
    BY <1>6 DEF Frames, Normalize, RawStay, mailVars, taskVars, worldVars, historyVars
<1>7. CASE DropNormalized(p)
    BY <1>7 DEF Frames, DropNormalized, RawStay, mailVars, taskVars, worldVars, historyVars,
       Raw, Normal
<1>8. CASE DropThread(p)
    BY <1>8 DEF Frames, DropThread, RawStay, mailVars, taskVars, worldVars, historyVars
<1>9. CASE PutFiles(p)
    BY <1>9 DEF Frames, PutFiles, RawStay, mailVars, taskVars, worldVars, historyVars, Raw,
       File, FileBlobs
<1>10. CASE ReadFiles(p)
    BY <1>10 DEF Frames, ReadFiles, RawStay, mailVars, taskVars, worldVars, historyVars
<1>11. CASE ClearFiles(p)
    BY <1>11 DEF Frames, ClearFiles, RawStay, mailVars, taskVars, worldVars, historyVars
<1>12. CASE InsertFile(p)
    BY <1>12 DEF Frames, InsertFile, RawStay, mailVars, taskVars, worldVars, historyVars
<1>13. CASE UndoFiles(p)
    BY <1>13 DEF Frames, UndoFiles, RawStay, mailVars, taskVars, worldVars, historyVars
<1>14. CASE RestoreFiles(p)
    BY <1>14 DEF Frames, RestoreFiles, RawStay, mailVars, taskVars, worldVars, historyVars
<1>15. CASE DropFiles(p)
    BY <1>15 DEF Frames, DropFiles, RawStay, mailVars, taskVars, worldVars, historyVars, Raw,
       File, FileBlobs
<1>16. CASE Resolve(p)
    BY <1>16 DEF Frames, Resolve, RawStay, mailVars, taskVars, worldVars
<1>17. CASE Task(p)
    BY <1>17 DEF Frames, Task, RawStay, mailVars, taskVars, worldVars, historyVars
<1>18. CASE FindTask(p)
    BY <1>18 DEF Frames, FindTask, RawStay, mailVars, taskVars, worldVars, historyVars
<1>19. CASE Mark(p)
    BY <1>19 DEF Frames, Mark, RawStay, mailVars, taskVars, worldVars, historyVars
<1>20. CASE SendTask(p)
    BY <1>20 DEF Frames, SendTask, RawStay, mailVars, taskVars, worldVars, historyVars
<1>. QED
    BY <1>1, <1>2, <1>3, <1>4, <1>5, <1>6, <1>7, <1>8, <1>9, <1>10, <1>11, <1>12, <1>13, <1>14,
       <1>15, <1>16, <1>17, <1>18, <1>19, <1>20
       DEF IngestStep, ThreadStep, FileStep

LEMMA QueueFrames ==
    ASSUME NEW p \in Procs, Receive(p) \/ Letter(p) \/ IngestFailure(p) \/ Crash(p)
    PROVE  Frames(p)
<1>1. CASE Receive(p)
    BY <1>1 DEF Frames, Receive, RawStay, mailVars, taskVars, worldVars, historyVars
<1>2. CASE Letter(p)
    BY <1>2 DEF Frames, Letter, RawStay, mailVars, taskVars, worldVars
<1>3. CASE FailIngestCall(p)
    BY <1>3 DEF Frames, FailIngestCall, RawStay, mailVars, taskVars, worldVars, Record
<1>4. CASE FailIngestUndo(p)
    BY <1>4 DEF Frames, FailIngestUndo, RawStay, mailVars, taskVars, worldVars, Record
<1>5. CASE FailLetter(p)
    BY <1>5 DEF Frames, FailLetter, RawStay, mailVars, taskVars, worldVars
<1>6. CASE Crash(p)
    BY <1>6 DEF Frames, Crash, RawStay, mailVars, taskVars, worldVars
<1>. QED
    BY <1>1, <1>2, <1>3, <1>4, <1>5, <1>6
       DEF IngestFailure

LEMMA TaskFrames ==
    ASSUME NEW p \in Procs, TaskStep(p) \/ TaskFailure(p)
    PROVE  Frames(p)
<1>1. CASE PutTrace(p)
    BY <1>1 DEF Frames, PutTrace, RawStay, mailVars, taskVars, worldVars, historyVars, Raw, Trace
<1>2. CASE InsertRun(p)
    BY <1>2 DEF Frames, InsertRun, RawStay, mailVars, taskVars, worldVars, historyVars
<1>3. CASE Review(p)
    BY <1>3 DEF Frames, Review, RawStay, mailVars, taskVars, worldVars, historyVars
<1>4. CASE UndoRun(p)
    BY <1>4 DEF Frames, UndoRun, RawStay, mailVars, taskVars, worldVars, historyVars
<1>5. CASE UndoTrace(p)
    BY <1>5 DEF Frames, UndoTrace, RawStay, mailVars, taskVars, worldVars, historyVars, Raw, Trace
<1>6. CASE Claim(p)
    BY <1>6 DEF Frames, Claim, RawStay, mailVars, taskVars, worldVars, historyVars
<1>7. CASE Prepare(p)
    BY <1>7 DEF Frames, Prepare, RawStay, mailVars, taskVars, worldVars, historyVars
<1>8. CASE Reassign(p)
    BY <1>8 DEF Frames, Reassign, RawStay, mailVars, taskVars, worldVars, historyVars
<1>9. CASE Reject(p)
    BY <1>9 DEF Frames, Reject, RawStay, mailVars, taskVars, worldVars, historyVars
<1>10. CASE RejectLetter(p)
    BY <1>10 DEF Frames, RejectLetter, RawStay, mailVars, taskVars, worldVars, historyVars
<1>11. CASE Replay(p)
    BY <1>11 DEF Frames, Replay, RawStay, mailVars, taskVars, worldVars, historyVars
<1>12. CASE Reserve(p)
    BY <1>12 DEF Frames, Reserve, RawStay, mailVars, taskVars, worldVars, historyVars
<1>13. CASE ReplayTarget(p)
    BY <1>13 DEF Frames, ReplayTarget, RawStay, mailVars, taskVars, worldVars, historyVars
<1>14. CASE SendNormalize(p)
    BY <1>14 DEF Frames, SendNormalize, RawStay, mailVars, taskVars, worldVars, historyVars
<1>15. CASE CreateReplay(p)
    BY <1>15 DEF Frames, CreateReplay, RawStay, mailVars, taskVars, worldVars, historyVars
<1>16. CASE SendReplay(p)
    BY <1>16 DEF Frames, SendReplay, RawStay, mailVars, taskVars, worldVars, historyVars
<1>17. CASE DropReplay(p)
    BY <1>17 DEF Frames, DropReplay, RawStay, mailVars, taskVars, worldVars, historyVars
<1>18. CASE Note(p)
    BY <1>18 DEF Frames, Note, RawStay, mailVars, taskVars, worldVars, historyVars
<1>19. CASE Complete(p)
    BY <1>19 DEF Frames, Complete, RawStay, mailVars, taskVars, worldVars, historyVars
<1>20. CASE Release(p)
    BY <1>20 DEF Frames, Release, RawStay, mailVars, taskVars, worldVars, historyVars
<1>21. CASE FailRecord(p)
    BY <1>21 DEF Frames, FailRecord, RawStay, mailVars, taskVars, worldVars, Record, Failed
<1>22. CASE FailExec(p)
    BY <1>22 DEF Frames, FailExec, RawStay, mailVars, taskVars, worldVars, Record, Failed
<1>23. CASE FailReplay(p)
    BY <1>23 DEF Frames, FailReplay, RawStay, mailVars, taskVars, worldVars, Record, Failed
<1>. QED
    BY <1>1, <1>2, <1>3, <1>4, <1>5, <1>6, <1>7, <1>8, <1>9, <1>10, <1>11, <1>12, <1>13, <1>14,
       <1>15, <1>16, <1>17, <1>18, <1>19, <1>20, <1>21, <1>22, <1>23
       DEF TaskStep, TaskFailure, RecordStep, ExecStep, ReplayStep

LEMMA StepTypes ==
    ASSUME TypeInv, NEW p \in Procs, Process(p) \/ Failure(p)
    PROVE  TypeInv' /\ Alone(p) /\ Frames(p)
<1>1. TypeInv' /\ Alone(p)
    <2>1. CASE Process(p)
        BY <2>1, ReceiveStepTypes, ReceiveTypes, IngestTypes, LetterTypes, TaskStepTypes DEF Process
    <2>2. CASE Failure(p)
        BY <2>2, FailReceiveTypes, FailRowTypes, FailIngestCallTypes, LetterTypes, FailTaskTypes,
           CrashTypes
           DEF Failure, ReceiveFailure, IngestFailure
    <2>. QED
        BY <2>1, <2>2
<1>2. Frames(p)
    BY ReceiveFrames, IngestFrames, QueueFrames, TaskFrames DEF Process, Failure
<1>. QED
    BY <1>1, <1>2

-----------------------------------------------------------------------------
(* A task is executed once.                                                *)

ClaimInv ==
    /\ \A t \in Tasks : claims[t] <= 1 /\ (task[t].status \in {"none", "queued"} => claims[t] = 0)
    /\ \A q \in Replays :
         proc[q].pc \in Unsent => task[<<"replay", q>>].status \in {"none", "queued"}

(* The task that p writes is not that of a replay which has sent nothing.  *)
LEMMA NotUnsent ==
    ASSUME TypeInv, NEW p \in Procs, proc[p].pc \in RecordSteps \union ExecSteps,
           NEW q \in Replays, TaskOf(p) = <<"replay", q>>
    PROVE  proc[q].pc \notin Unsent
BY TaskAt, ShownIs DEF TypeInv

(* A step that writes the row of one task.                                 *)
LEMMA OneTaskClaims ==
    ASSUME TypeInv, ClaimInv, NEW p \in Procs, Alone(p), NEW t \in Tasks,
           NEW v, task' = [task EXCEPT ![t] = v], UNCHANGED claims,
           v.status \in {"none", "queued"} => task[t].status \in {"none", "queued"},
           \/ v.status \in {"none", "queued"}
           \/ \A q \in Replays : t = <<"replay", q>> => proc[q].pc \notin Unsent /\ q # p
    PROVE  ClaimInv'
<1>1. task \in [Tasks -> TaskType]
    BY DEF TypeInv, RowsInv, TaskTypes
<1>2. task'[t] = v /\ \A u \in Tasks : u # t => task'[u] = task[u]
    BY <1>1
<1>3. \A u \in Tasks : claims'[u] <= 1 /\ (task'[u].status \in {"none", "queued"} => claims'[u] = 0)
    BY <1>2 DEF ClaimInv
<1>4. ASSUME NEW q \in Replays, proc'[q].pc \in Unsent
      PROVE  task'[<<"replay", q>>].status \in {"none", "queued"}
    <2>1. proc[q].pc \in Unsent
        BY <1>4, Ranks DEF Alone
    <2>2. task[<<"replay", q>>].status \in {"none", "queued"} /\ <<"replay", q>> \in Tasks
        BY <2>1, TaskIs DEF ClaimInv
    <2>3. CASE t = <<"replay", q>>
        BY <1>2, <2>1, <2>2, <2>3
    <2>4. CASE t # <<"replay", q>>
        BY <1>2, <2>2, <2>4
    <2>. QED
        BY <2>3, <2>4
<1>. QED
    BY <1>3, <1>4 DEF ClaimInv

LEMMA StepClaims ==
    ASSUME TypeInv, ClaimInv, NEW p \in Procs, Process(p) \/ Failure(p)
    PROVE  ClaimInv'
<1>0. Alone(p) /\ Frames(p)
    BY StepTypes
<1>1. task \in [Tasks -> TaskType] /\ claims \in [Tasks -> Nat]
    BY DEF TypeInv, RowsInv, TaskTypes
<1>2. \A q \in Replays : proc'[q].pc \in Unsent => proc[q].pc \in Unsent
    BY <1>0, Ranks DEF Alone
<1>3. CASE UNCHANGED <<task, claims>>
    BY <1>2, <1>3 DEF ClaimInv
<1>4. CASE Task(p)
    <2>1. proc[p].pc \in Work \ RecordSteps
        BY <1>4, WorkNames DEF Task, At, TaskSteps
    <2>2. Reply(p) \in Tasks
        BY <2>1, WorkIs DEF TypeInv, Reply
    <2>. DEFINE v == [NoTask EXCEPT !.status = "queued", !.assigned = proc[p].to]
    <2>3. \/ task' = task
          \/ task[Reply(p)].status = "none" /\ task' = [task EXCEPT ![Reply(p)] = v]
        BY <1>4 DEF Task
    <2>4. claims' = claims /\ v.status = "queued"
        BY <1>4 DEF Task, NoTask
    <2>. HIDE DEF v
    <2>5. CASE task' = task
        BY <1>2, <2>4, <2>5 DEF ClaimInv
    <2>6. CASE task[Reply(p)].status = "none" /\ task' = [task EXCEPT ![Reply(p)] = v]
        BY <1>0, <2>2, <2>4, <2>6, OneTaskClaims
    <2>. QED
        BY <2>3, <2>5, <2>6
<1>5. ASSUME proc[p].pc \in RecordSteps \union ExecSteps
      PROVE  /\ TaskOf(p) \in Tasks /\ p \notin Replays
             /\ \A q \in Replays : TaskOf(p) = <<"replay", q>> => proc[q].pc \notin Unsent /\ q # p
    BY <1>5, TaskAt, NotUnsent, Ranks DEF TypeInv
<1>6. CASE Review(p) \/ Reject(p)
    <2>1. proc[p].pc \in RecordSteps \union ExecSteps
        BY <1>6 DEF Review, Reject, At, RecordSteps, ExecSteps
    <2>2. task' = task \/ SetReview(p, TRUE) \/ SetReview(p, FALSE)
        BY <1>6 DEF Review, Reject
    <2>3. claims' = claims
        BY <1>6 DEF Review, Reject
    <2>4. CASE task' = task
        BY <1>2, <2>3, <2>4 DEF ClaimInv
    <2>5. ASSUME NEW b, SetReview(p, b)
          PROVE  ClaimInv'
        <3>. DEFINE v == [task[TaskOf(p)] EXCEPT !.status = "needs_review", !.result = b]
        <3>1. task' = [task EXCEPT ![TaskOf(p)] = v] /\ v.status = "needs_review"
            BY <1>1, <1>5, <2>1, <2>5 DEF SetReview, TaskType
        <3>. HIDE DEF v
        <3>. QED
            BY <1>0, <1>5, <2>1, <2>3, <3>1, OneTaskClaims
    <2>. QED
        BY <2>2, <2>4, <2>5
<1>7. CASE Reassign(p)
    <2>1. proc[p].pc \in RecordSteps \union ExecSteps /\ claims' = claims
        BY <1>7 DEF Reassign, At, RecordSteps, ExecSteps
    <2>. DEFINE v == [task[TaskOf(p)] EXCEPT !.assigned = proc[p].to]
    <2>2. task' = [task EXCEPT ![TaskOf(p)] = v] /\ v.status = task[TaskOf(p)].status
        BY <1>1, <1>5, <1>7, <2>1 DEF Reassign, TaskType
    <2>. HIDE DEF v
    <2>. QED
        BY <1>0, <1>5, <2>1, <2>2, OneTaskClaims
<1>8. CASE Claim(p)
    <2>. DEFINE t == TaskOf(p)
    <2>1. proc[p].pc \in RecordSteps \union ExecSteps
        BY <1>8 DEF Claim, At, RecordSteps, ExecSteps
    <2>2. CASE UNCHANGED <<task, claims>>
        BY <1>2, <2>2 DEF ClaimInv
    <2>3. CASE ~UNCHANGED <<task, claims>>
        <3>1. /\ task[t].status = "queued" /\ task' = [task EXCEPT ![t].status = "running"]
              /\ claims' = [claims EXCEPT ![t] = @ + 1]
            BY <1>8, <2>3 DEF Claim, CanClaim
        <3>2. t \in Tasks /\ claims[t] = 0
            BY <1>5, <2>1, <3>1 DEF ClaimInv
        <3>3. /\ task'[t].status = "running" /\ claims'[t] = 1
              /\ \A u \in Tasks : u # t => task'[u] = task[u] /\ claims'[u] = claims[u]
            BY <1>1, <3>1, <3>2 DEF TaskType
        <3>4. \A u \in Tasks : claims'[u] <= 1
                               /\ (task'[u].status \in {"none", "queued"} => claims'[u] = 0)
            BY <3>3 DEF ClaimInv
        <3>5. ASSUME NEW q \in Replays, proc'[q].pc \in Unsent
              PROVE  task'[<<"replay", q>>].status \in {"none", "queued"}
            <4>1. proc[q].pc \in Unsent /\ t # <<"replay", q>>
                BY <1>2, <1>5, <2>1, <3>5
            <4>. QED
                BY <3>3, <4>1, TaskIs DEF ClaimInv
        <3>. QED
            BY <3>4, <3>5 DEF ClaimInv
    <2>. QED
        BY <2>2, <2>3
<1>9. CASE CreateReplay(p) \/ DropReplay(p)
    <2>1. proc[p].pc \in ReplaySteps /\ proc[p].pc \in Unsent /\ claims' = claims
        BY <1>9 DEF CreateReplay, DropReplay, At, ReplaySteps, Unsent
    <2>2. p \in Replays /\ ReplayTask(p) \in Tasks
        BY <2>1, AtReplay DEF TypeInv
    <2>3. task[ReplayTask(p)].status \in {"none", "queued"}
        BY <2>1, <2>2 DEF ClaimInv, ReplayTask
    <2>. DEFINE v == [NoTask EXCEPT !.status = "queued", !.assigned = proc[p].to]
    <2>4. v.status = "queued" /\ NoTask.status = "none"
        BY DEF NoTask
    <2>5. \/ task' = [task EXCEPT ![ReplayTask(p)] = v]
          \/ task' = [task EXCEPT ![ReplayTask(p)] = NoTask]
        BY <1>9 DEF CreateReplay, DropReplay
    <2>. HIDE DEF v
    <2>. QED
        BY <1>0, <2>1, <2>2, <2>3, <2>4, <2>5, OneTaskClaims
<1>. QED
    BY <1>0, <1>3, <1>4, <1>6, <1>7, <1>8, <1>9 DEF Frames

LEMMA OtherClaims ==
    ASSUME TypeInv, ClaimInv, (\E b \in Boxes : Close(b) \/ Retarget(b)) \/ UNCHANGED vars
    PROVE  ClaimInv'
<1>1. UNCHANGED <<task, claims, proc>>
    BY DEF Close, Retarget, vars, taskVars
<1>. QED
    BY <1>1 DEF ClaimInv

LEMMA InitClaims == Init => ClaimInv
<1>. SUFFICES ASSUME Init PROVE ClaimInv
    OBVIOUS
<1>1. \A t \in Tasks : claims[t] = 0 /\ task[t].status = "none"
    BY DEF Init, NoTask
<1>. QED
    BY <1>1, TaskIs DEF ClaimInv

-----------------------------------------------------------------------------
(* How a step writes messages.                                             *)

(* A row keeps the id it was stored with.                                  *)
Keeps(m, v) ==
    /\ v.status # "none" /\ v.id = message[m].id
    /\ v.spelled = message[m].spelled \/ v.spelled = (IdOf(m) \in Cased)
Stores(p) ==
    /\ InsertRow(p) /\ Mine(p) \in Messages
    /\ Same(BoxOf(Mine(p)), IdOf(Mine(p))) = {}
Unstores(p) ==
    /\ proc[p].msg \in Messages /\ ~Seen(proc[p].msg)
    /\ message' = [message EXCEPT ![proc[p].msg] = NoMessage]
Rewrites(p) ==
    \E v : /\ proc[p].msg \in Messages /\ Seen(proc[p].msg) /\ Keeps(proc[p].msg, v)
           /\ message' = [message EXCEPT ![proc[p].msg] = v]

LEMMA MessageSteps ==
    ASSUME TypeInv, NEW p \in Procs, Process(p) \/ Failure(p)
    PROVE  message' = message \/ Stores(p) \/ Unstores(p) \/ Rewrites(p)
<1>. DEFINE m == proc[p].msg
<1>0. message \in [Messages -> MsgType]
    BY DEF TypeInv, RowsInv, MailTypes
<1>1. CASE Insert(p)
    <2>1. Mine(p) \in Messages
        BY <1>1, AtDelivery DEF TypeInv, Insert, At, ReceiveSteps
    <2>2. BoxOf(Mine(p)) = About[Email(p)].box /\ IdOf(Mine(p)) = About[Email(p)].id
        BY DEF BoxOf, IdOf, Mine
    <2>. QED
        BY <1>1, <2>1, <2>2 DEF Insert, Stores
<1>2. CASE Finalize(p)
    <2>1. m \in Messages
        BY <1>2, AtDelivery DEF TypeInv, Finalize, At, ReceiveSteps, Delivering
    <2>. QED
        BY <1>2, <2>1 DEF Finalize, Unstores
<1>3. CASE FailRow(p) \/ FailFailRow(p)
    <2>1. m \in Messages /\ Seen(m)
        BY <1>3, AtDelivery, ShownIs DEF TypeInv, FailRow, FailFailRow, At, ReceiveSteps,
           Delivering, Works
    <2>. DEFINE v == [message[m] EXCEPT !.status = "failed"]
    <2>2. message[m] \in MsgType
        BY <1>0, <2>1
    <2>3. v.status = "failed" /\ v.id = message[m].id /\ v.spelled = message[m].spelled
        BY <2>2 DEF MsgType
    <2>4. message' = message \/ message' = [message EXCEPT ![m] = v]
        BY <1>0, <1>3, <2>1 DEF FailRow, FailFailRow, SetFailed
    <2>. HIDE DEF v
    <2>5. Keeps(m, v)
        BY <2>3 DEF Keeps
    <2>. QED
        BY <2>1, <2>4, <2>5 DEF Rewrites
<1>4. CASE Normalize(p)
    <2>1. m \in Messages /\ Seen(m)
        BY <1>4, WorkNames, WorkIs DEF TypeInv, Normalize, At, StoreSteps
    <2>2. message[m] \in MsgType
        BY <1>0, <2>1
    <2>3. /\ Normalized(p).status = "normalized" /\ Normalized(p).id = message[m].id
          /\ Normalized(p).spelled = (IdOf(m) \in Cased)
        BY <2>2 DEF MsgType, Normalized, It, IdOf
    <2>4. Keeps(m, Normalized(p))
        BY <2>3 DEF Keeps
    <2>5. message' = message \/ message' = [message EXCEPT ![m] = Normalized(p)]
        BY <1>4 DEF Normalize
    <2>. QED
        BY <2>1, <2>4, <2>5 DEF Rewrites
<1>5. CASE Mark(p)
    <2>1. m \in Messages /\ Seen(m) /\ message[m].status # "none" /\ proc[p] \in ProcType
        BY <1>5, WorkNames, WorkIs DEF TypeInv, Mark, At, TaskSteps
    <2>. DEFINE v == [message[m] EXCEPT !.status = Marked(p)]
    <2>2. message[m] \in MsgType
        BY <1>0, <2>1
    <2>3. Marked(p) # "none"
        BY <2>1 DEF Marked
    <2>4. v.status = Marked(p) /\ v.id = message[m].id /\ v.spelled = message[m].spelled
        BY <2>2 DEF MsgType
    <2>5. message' = [message EXCEPT ![m] = v]
        BY <1>0, <1>5, <2>1 DEF Mark
    <2>. HIDE DEF v
    <2>6. Keeps(m, v)
        BY <2>3, <2>4 DEF Keeps
    <2>. QED
        BY <2>1, <2>5, <2>6 DEF Rewrites
<1>. QED
    BY <1>1, <1>2, <1>3, <1>4, <1>5, StepTypes DEF Frames

-----------------------------------------------------------------------------
(* An email is stored once, with its raw object.                           *)

IdInv ==
    \A m \in Messages : Exists(m) => /\ message[m].id = IdOf(m)
                                     /\ message[m].spelled => IdOf(m) \in Cased
RawInv == "Finalize" \notin failed => \A m \in Messages : Exists(m) => Raw(m) \in blobs
OneInv == \A m \in Messages : \A k \in Messages \ {m} : Seen(m) /\ Seen(k) => ~SameEmail(m, k)
MailInv == IdInv /\ RawInv /\ OneInv

(* Where a row that is seen after a step comes from.                       *)
LEMMA SeenSteps ==
    ASSUME TypeInv, NEW p \in Procs, Process(p) \/ Failure(p)
    PROVE  /\ ~Stores(p) => \A m \in Messages : /\ Seen(m)' <=> Seen(m)
                                                /\ Exists(m)' => Exists(m)
           /\ Stores(p) => \A m \in Messages \ {Mine(p)} : message'[m] = message[m]
<1>0. message \in [Messages -> MsgType] /\ box' = box
    BY StepTypes DEF TypeInv, RowsInv, MailTypes, Frames
<1>1. CASE Stores(p)
    BY <1>0, <1>1 DEF Stores, InsertRow
<1>2. CASE message' = message
    BY <1>0, <1>2 DEF Seen, Exists, Stores, InsertRow
<1>3. CASE Unstores(p)
    BY <1>0, <1>3 DEF Seen, Exists, Unstores, NoMessage, Stores, InsertRow
<1>4. CASE Rewrites(p)
    BY <1>0, <1>4 DEF Seen, Exists, Rewrites, Keeps, Stores, InsertRow
<1>. QED
    BY <1>1, <1>2, <1>3, <1>4, MessageSteps

LEMMA StepId ==
    ASSUME TypeInv, IdInv, NEW p \in Procs, Process(p) \/ Failure(p)
    PROVE  IdInv'
<1>0. message \in [Messages -> MsgType]
    BY DEF TypeInv, RowsInv, MailTypes
<1>. SUFFICES ASSUME NEW m \in Messages, Exists(m)'
              PROVE  message'[m].id = IdOf(m) /\ (message'[m].spelled => IdOf(m) \in Cased)
    BY DEF IdInv, IdOf
<1>1. message[m].status # "none" => /\ message[m].id = IdOf(m)
                                    /\ message[m].spelled => IdOf(m) \in Cased
    BY DEF IdInv, Exists
<1>2. message'[m].status # "none"
    BY DEF Exists
<1>3. CASE Stores(p)
    <2>1. message' = [message EXCEPT ![Mine(p)] = Received(About[Email(p)])] /\ Mine(p) \in Messages
        BY <1>3 DEF Stores, InsertRow
    <2>2. IdOf(Mine(p)) = About[Email(p)].id
        BY DEF IdOf, Mine
    <2>3. /\ Received(About[Email(p)]).id = IdOf(Mine(p))
          /\ Received(About[Email(p)]).spelled = FALSE
        BY <2>2 DEF Received, NoMessage
    <2>. QED
        BY <1>0, <1>1, <1>2, <2>1, <2>3
<1>4. CASE Unstores(p)
    BY <1>0, <1>1, <1>2, <1>4 DEF Unstores, NoMessage
<1>5. CASE Rewrites(p)
    <2>1. PICK v : /\ Seen(proc[p].msg) /\ Keeps(proc[p].msg, v)
                   /\ message' = [message EXCEPT ![proc[p].msg] = v]
        BY <1>5 DEF Rewrites
    <2>. QED
        BY <1>0, <1>1, <1>2, <2>1 DEF Keeps, Seen, Exists
<1>6. CASE message' = message
    BY <1>1, <1>2, <1>6
<1>. QED
    BY <1>3, <1>4, <1>5, <1>6, MessageSteps

LEMMA StepRaw ==
    ASSUME TypeInv, RawInv, NEW p \in Procs, Process(p) \/ Failure(p)
    PROVE  RawInv'
<1>0. /\ message \in [Messages -> MsgType] /\ failed \subseteq failed'
      /\ RawStay \/ Insert(p) \/ Finalize(p) \/ FailReceive(p)
    BY StepTypes DEF TypeInv, RowsInv, MailTypes, Frames
<1>. SUFFICES ASSUME "Finalize" \notin failed', NEW m \in Messages, Exists(m)'
              PROVE  Raw(m) \in blobs'
    BY DEF RawInv, Raw
<1>1. Exists(m) => Raw(m) \in blobs
    BY <1>0 DEF RawInv
<1>2. CASE Insert(p)
    <2>1. CASE InsertRow(p)
        BY <1>0, <1>1, <2>1 DEF InsertRow, Exists
    <2>2. CASE UNCHANGED <<message, blobs>>
        BY <1>1, <2>2 DEF Exists
    <2>. QED
        BY <1>2, <2>1, <2>2 DEF Insert
<1>3. CASE Finalize(p)
    <2>1. CASE UNCHANGED <<message, blobs>>
        BY <1>1, <2>1 DEF Exists
    <2>2. CASE /\ message' = [message EXCEPT ![proc[p].msg] = NoMessage]
               /\ blobs' = blobs \ {Raw(proc[p].msg)}
        <3>1. m # proc[p].msg /\ Exists(m)
            BY <1>0, <2>2 DEF Exists, NoMessage
        <3>. QED
            BY <1>1, <2>2, <3>1 DEF Raw
    <2>. QED
        BY <1>3, <2>1, <2>2 DEF Finalize
<1>4. CASE FailReceive(p)
    <2>1. ~At(p, "Finalize")
        BY <1>4 DEF FailReceive, Record, At
    <2>2. blobs' = blobs /\ message' = message
        BY <1>4, <2>1 DEF FailReceive, mailVars
    <2>. QED
        BY <1>1, <2>2 DEF Exists
<1>5. CASE RawStay
    <2>1. CASE Stores(p)
        BY <1>0, <1>1, <2>1 DEF Stores, InsertRow, Exists
    <2>2. CASE ~Stores(p)
        BY <1>1, <1>5, <2>2, SeenSteps DEF RawStay
    <2>. QED
        BY <2>1, <2>2
<1>. QED
    BY <1>0, <1>2, <1>3, <1>4, <1>5

LEMMA StepOne ==
    ASSUME TypeInv, IdInv, OneInv, NEW p \in Procs, Process(p) \/ Failure(p)
    PROVE  OneInv'
<1>. SUFFICES ASSUME NEW m \in Messages, NEW k \in Messages \ {m}, Seen(m)', Seen(k)'
              PROVE  ~SameEmail(m, k)
    BY DEF OneInv, SameEmail, BoxOf, IdOf
<1>1. CASE ~Stores(p)
    BY <1>1, SeenSteps DEF OneInv
<1>2. CASE Stores(p)
    <2>1. \A n \in Messages \ {Mine(p)} : Seen(n)' => Seen(n)
        BY <1>2, SeenSteps, StepTypes DEF Seen, Exists, Frames
    <2>2. ASSUME NEW n \in Messages, Seen(n) PROVE ~SameEmail(n, Mine(p))
        <3>. SUFFICES ASSUME SameEmail(n, Mine(p)) PROVE FALSE
            OBVIOUS
        <3>1. message[n].id = IdOf(n) /\ (message[n].spelled => IdOf(n) \in Cased)
            BY <2>2 DEF IdInv, Seen
        <3>2. n \in Same(BoxOf(Mine(p)), IdOf(Mine(p)))
            BY <2>2, <3>1 DEF Same, SameEmail
        <3>. QED
            BY <1>2, <3>2 DEF Stores
    <2>3. CASE m = Mine(p)
        BY <2>1, <2>2, <2>3 DEF SameEmail
    <2>4. CASE k = Mine(p)
        BY <2>1, <2>2, <2>4
    <2>5. CASE m # Mine(p) /\ k # Mine(p)
        BY <2>1, <2>5 DEF OneInv
    <2>. QED
        BY <2>3, <2>4, <2>5
<1>. QED
    BY <1>1, <1>2

(* Who closes a mailbox or changes its agents leaves what is seen alone.   *)
LEMMA OtherSeen ==
    ASSUME TypeInv, (\E b \in Boxes : Close(b) \/ Retarget(b)) \/ UNCHANGED vars
    PROVE  /\ UNCHANGED <<message, blobs, failed, task, keyed, proc>>
           /\ \A m \in Messages : Seen(m)' <=> Seen(m)
<1>1. UNCHANGED <<message, blobs, failed, task, keyed, proc>>
    BY DEF Close, Retarget, vars, mailVars, taskVars, historyVars
<1>2. box \in [Boxes -> {"active", "inactive", "gone"}]
    BY DEF TypeInv, RowsInv, WorldTypes
<1>3. ASSUME NEW b \in Boxes, Close(b), NEW m \in Messages
      PROVE  Seen(m)' <=> Seen(m)
    <2>1. BoxOf(m) \in Boxes
        BY MessageIs
    <2>2. CASE box[b] # "gone" /\ box' = [box EXCEPT ![b] = "inactive"]
        <3>1. box'[BoxOf(m)] # "gone" <=> box[BoxOf(m)] # "gone"
            BY <1>2, <2>1, <2>2
        <3>. QED
            BY <1>1, <3>1 DEF Seen, Exists, BoxOf
    <2>3. CASE ~(Exists(m) /\ BoxOf(m) = b) /\ box' = [box EXCEPT ![b] = "gone"]
        <3>1. Exists(m) => box'[BoxOf(m)] = box[BoxOf(m)]
            BY <1>2, <2>1, <2>3
        <3>. QED
            BY <1>1, <3>1 DEF Seen, Exists, BoxOf
    <2>. QED
        BY <1>3, <2>2, <2>3 DEF Close
<1>4. CASE (\E b \in Boxes : Retarget(b)) \/ UNCHANGED vars
    BY <1>1, <1>4 DEF Retarget, vars, worldVars, Seen, Exists
<1>. QED
    BY <1>1, <1>3, <1>4

LEMMA OtherMail ==
    ASSUME TypeInv, MailInv, (\E b \in Boxes : Close(b) \/ Retarget(b)) \/ UNCHANGED vars
    PROVE  MailInv'
<1>1. UNCHANGED <<message, blobs, failed>>
    BY OtherSeen
<1>2. IdInv'
    BY <1>1 DEF MailInv, IdInv, Exists, IdOf
<1>3. RawInv'
    BY <1>1 DEF MailInv, RawInv, Exists
<1>4. OneInv'
    BY OtherSeen DEF MailInv, OneInv, SameEmail, IdOf, BoxOf
<1>. QED
    BY <1>2, <1>3, <1>4 DEF MailInv

LEMMA InitMail == Init => MailInv
<1>. SUFFICES ASSUME Init PROVE MailInv
    OBVIOUS
<1>1. \A m \in Messages : ~Exists(m)
    BY DEF Init, NoMessage, Exists
<1>. QED
    BY <1>1 DEF MailInv, IdInv, RawInv, OneInv, Seen

-----------------------------------------------------------------------------
(* One idempotency key queues one replay.                                  *)

(* A replay from the reservation of its key to what it settles; it has     *)
(* queued its job once it has something to note.                           *)
Sure == {"Note", "Complete"}
Trying == {"ReplayTarget", "SendNormalize", "CreateReplay", "SendReplay", "DropReplay", "Release"}
Holding == Trying \union Sure

KeyInv ==
    /\ \A p, q \in Replays : proc[p].pc \in Holding /\ proc[q].pc \in Holding => p = q
    /\ \A p \in Replays :
         /\ proc[p].pc \in Holding => keyed.status # "free"
         /\ proc[p].pc \in Trying => keyed.times = 0
         /\ proc[p].pc \in Sure \union {"accepted"} => keyed.times = 1
    /\ keyed.times <= 1 /\ (keyed.status = "free" => keyed.times = 0)
    /\ keyed.noted \/ keyed.status = "completed" => keyed.times = 1

KeyWritten(status, noted, times) ==
    keyed'.status = status /\ keyed'.noted = noted /\ keyed'.times = times

(* What a replay that moves from one step to s does to the key.            *)
KeyStep(p) ==
    LET s == proc'[p].pc IN
    \/ keyed' = keyed /\ s \notin Holding \union {"accepted"}
    \/ keyed' = keyed /\ proc[p].pc \in Trying /\ s \in Trying
    \/ /\ s = "ReplayTarget" /\ keyed.status = "free"
       /\ KeyWritten("pending", keyed.noted, keyed.times)
    \/ /\ s = "accepted"
       /\ keyed.noted \/ keyed.status = "completed"
       /\ KeyWritten("completed", keyed.noted, keyed.times)
    \/ /\ proc[p].pc \in Trying /\ s = "Note"
       /\ KeyWritten(keyed.status, keyed.noted, keyed.times + 1)
    \/ proc[p].pc = "Note" /\ s = "Complete" /\ KeyWritten(keyed.status, TRUE, keyed.times)
    \/ /\ proc[p].pc = "Complete" /\ s = "accepted"
       /\ KeyWritten("completed", keyed.noted, keyed.times)
    \/ proc[p].pc = "Release" /\ s = "refused" /\ KeyWritten("free", FALSE, keyed.times)

(* A replay takes no step but its own.                                     *)
LEMMA ReplayOnly ==
    ASSUME TypeInv, NEW p \in Replays, Process(p) \/ Failure(p)
    PROVE  ReplayStep(p) \/ FailReplay(p) \/ (Crash(p) /\ Answer(p, "crashed"))
<1>1. p \in Procs /\ p \notin Deliveries \union IngestSlots \union ExecSlots
    BY Ranks
<1>2. proc[p].pc \in {"free", "accepted", "refused", "crashed"} \union ReplaySteps
    BY <1>1, ProcIs DEF TypeInv, InReplay
<1>3. proc[p].pc \notin ReceiveSteps \union ThreadSteps \union StoreSteps \union FileSteps
        \union TaskSteps \union RecordSteps \union ExecSteps
        \union {"again", "queued", "Letter", "Bounce"}
    BY <1>2 DEF ReceiveSteps, ThreadSteps, StoreSteps, FileSteps, TaskSteps, RecordSteps,
       ExecSteps, ReplaySteps
<1>4. ~Deliver(p)
    BY <1>1, CallsAre DEF Deliver, TypeInv, RowsInv, WorldTypes
<1>5. ~(ReceiveStep(p) \/ ReceiveFailure(p))
    BY <1>3, <1>4 DEF ReceiveStep, ReceiveFailure, Again, Lookup, Insert, Finalize, Relook, Dispatch,
       FailRow, Bounce, FailReceive, FailDispatch, FailFailRow, At, ReceiveSteps
<1>6. ~(Receive(p) \/ Letter(p))
    BY <1>3 DEF Receive, Letter, At
<1>7. ~IngestStep(p)
    <2>1. ~(Read(p) \/ ThreadStep(p) \/ PutNormalized(p) \/ Normalize(p) \/ DropNormalized(p)
            \/ DropThread(p))
        BY <1>3 DEF Read, ThreadStep, FindThread, GetThread, Assign, PutNormalized, Normalize,
           DropNormalized, DropThread, At, ThreadSteps, StoreSteps
    <2>2. ~FileStep(p)
        BY <1>3 DEF FileStep, PutFiles, ReadFiles, ClearFiles, InsertFile, UndoFiles, RestoreFiles,
           DropFiles, At, StoreSteps, FileSteps
    <2>3. ~(Resolve(p) \/ Task(p) \/ FindTask(p) \/ Mark(p) \/ SendTask(p))
        BY <1>3 DEF Resolve, Task, FindTask, Mark, SendTask, At, TaskSteps
    <2>. QED
        BY <2>1, <2>2, <2>3 DEF IngestStep
<1>8. ~(RecordStep(p) \/ FailRecord(p))
    BY <1>3 DEF RecordStep, PutTrace, InsertRun, Review, UndoRun, UndoTrace, FailRecord, At,
       RecordSteps
<1>9. ~(ExecStep(p) \/ FailExec(p))
    BY <1>3 DEF ExecStep, Claim, Prepare, Reassign, Reject, RejectLetter, FailExec, At, ExecSteps
<1>10. ~IngestFailure(p)
    <2>1. ~(FailIngestUndo(p) \/ FailLetter(p))
        BY <1>3 DEF FailIngestUndo, FailLetter, At, StoreSteps, FileSteps
    <2>2. Rethrown \union CaughtSteps \subseteq ThreadSteps \union StoreSteps \union FileSteps
            \union TaskSteps
        BY DEF Rethrown, CaughtSteps, ThreadSteps, StoreSteps, FileSteps, TaskSteps
    <2>3. ~FailIngestCall(p)
        BY <1>3, <2>2 DEF FailIngestCall
    <2>. QED
        BY <2>1, <2>3 DEF IngestFailure
<1>11. Crash(p) => Answer(p, "crashed")
    BY <1>1 DEF Crash
<1>. QED
    BY <1>5, <1>6, <1>7, <1>8, <1>9, <1>10, <1>11 DEF Process, Failure, TaskStep, TaskFailure

LEMMA ReplayKeys ==
    ASSUME TypeInv, NEW p \in Replays, Process(p) \/ Failure(p)
    PROVE  KeyStep(p)
<1>1. /\ p \in Procs /\ proc \in [Procs -> ProcType] /\ proc[p] \in ProcType
      /\ p \notin IngestSlots \union ExecSlots
    BY Ranks DEF TypeInv, ProcsOK
<1>2. ASSUME NEW s, Go(p, s) PROVE proc'[p].pc = s
    BY <1>1, <1>2 DEF Go, ProcType
<1>3. ASSUME NEW s, Answer(p, s) PROVE proc'[p].pc = s
    <2>1. [IdleProc EXCEPT !.pc = s, !.msg = proc[p].msg].pc = s
        BY DEF IdleProc
    <2>. QED
        BY <1>1, <1>3, <2>1 DEF Answer, Put
<1>4. keyed \in KeyedType
    BY KeyTypes
<1>5. CASE Replay(p)
    <2>1. keyed' = keyed /\ \E mode, m : Asks(p, mode, m)
        BY <1>5 DEF Replay
    <2>2. PICK mode, m : Asks(p, mode, m)
        BY <2>1
    <2>3. [IdleProc EXCEPT !.pc = "Reserve", !.kind = mode, !.msg = m].pc = "Reserve"
        BY DEF IdleProc
    <2>4. proc'[p].pc = "Reserve"
        BY <1>1, <2>2, <2>3 DEF Asks, Put
    <2>. QED
        BY <2>1, <2>4 DEF KeyStep, Holding, Trying, Sure
<1>6. CASE Reserve(p)
    <2>. DEFINE k == [keyed EXCEPT !.status = "pending", !.msg = proc[p].msg, !.mode = proc[p].kind]
    <2>1. k.status = "pending" /\ k.noted = keyed.noted /\ k.times = keyed.times
        BY <1>4 DEF KeyedType
    <2>2. \/ keyed.status = "free" /\ keyed' = k /\ Go(p, "ReplayTarget")
          \/ keyed' = keyed /\ Answer(p, "refused")
          \/ /\ keyed.noted \/ keyed.status = "completed"
             /\ keyed' = [keyed EXCEPT !.status = "completed"] /\ Answer(p, "accepted")
        BY <1>6 DEF Reserve
    <2>. HIDE DEF k
    <2>3. CASE keyed.status = "free" /\ keyed' = k /\ Go(p, "ReplayTarget")
        BY <1>2, <2>1, <2>3 DEF KeyStep, KeyWritten
    <2>4. CASE keyed' = keyed /\ Answer(p, "refused")
        BY <1>3, <2>4 DEF KeyStep, Holding, Trying, Sure
    <2>5. CASE /\ keyed.noted \/ keyed.status = "completed"
               /\ keyed' = [keyed EXCEPT !.status = "completed"] /\ Answer(p, "accepted")
        BY <1>3, <1>4, <2>5 DEF KeyStep, KeyWritten, KeyedType
    <2>. QED
        BY <2>2, <2>3, <2>4, <2>5
<1>7. CASE ReplayTarget(p)
    <2>. DEFINE s == IF ~CanReplay(p) THEN "Release"
                     ELSE IF Normalizes(p) THEN "SendNormalize" ELSE "CreateReplay"
    <2>1. /\ keyed' = keyed /\ proc[p].pc = "ReplayTarget"
          /\ Put(p, [proc[p] EXCEPT !.pc = s, !.to = target[BoxOf(proc[p].msg)]])
        BY <1>7 DEF ReplayTarget, At
    <2>2. s \in Trying
        BY DEF Trying
    <2>. HIDE DEF s
    <2>3. proc'[p].pc = s
        BY <1>1, <2>1 DEF Put, ProcType
    <2>. QED
        BY <2>1, <2>2, <2>3 DEF KeyStep, Trying
<1>8. CASE SendNormalize(p) \/ SendReplay(p)
    <2>. DEFINE x == [proc[p] EXCEPT !.pc = "Note"]
    <2>1. proc[p].pc \in Trying
        BY <1>8 DEF SendNormalize, SendReplay, At, Trying
    <2>2. \/ (\E slots \in {IngestSlots, ExecSlots} : \E kind, r : Enqueue(slots, kind, r, p, x)) /\ Counted
          \/ (Go(p, "Release") \/ Go(p, "DropReplay")) /\ keyed' = keyed
        BY <1>8 DEF SendNormalize, SendReplay
    <2>3. x.pc = "Note"
        BY <1>1 DEF ProcType
    <2>. HIDE DEF x
    <2>4. ASSUME NEW slots \in {IngestSlots, ExecSlots}, NEW kind, NEW r, Enqueue(slots, kind, r, p, x)
          PROVE  proc'[p] = x
        BY <1>1, <2>4 DEF Enqueue
    <2>5. CASE Counted /\ proc'[p] = x
        <3>1. KeyWritten(keyed.status, keyed.noted, keyed.times + 1)
            BY <1>4, <2>5 DEF Counted, KeyWritten, KeyedType
        <3>. QED
            BY <2>1, <2>3, <2>5, <3>1 DEF KeyStep
    <2>6. CASE (Go(p, "Release") \/ Go(p, "DropReplay")) /\ keyed' = keyed
        <3>1. proc'[p].pc \in Trying
            BY <1>2, <2>6 DEF Trying
        <3>. QED
            BY <2>1, <2>6, <3>1 DEF KeyStep
    <2>. QED
        BY <2>2, <2>4, <2>5, <2>6
<1>9. CASE CreateReplay(p)
    <2>1. /\ keyed' = keyed /\ proc[p].pc = "CreateReplay"
          /\ Put(p, [proc[p] EXCEPT !.pc = "SendReplay", !.task = ReplayTask(p)])
        BY <1>9 DEF CreateReplay, At
    <2>2. proc'[p].pc = "SendReplay"
        BY <1>1, <2>1 DEF Put, ProcType
    <2>. QED
        BY <2>1, <2>2 DEF KeyStep, Trying
<1>10. CASE DropReplay(p)
    BY <1>2, <1>10 DEF DropReplay, At, KeyStep, Trying
<1>11. CASE Note(p)
    BY <1>2, <1>4, <1>11 DEF Note, At, KeyStep, KeyWritten, KeyedType
<1>12. CASE Complete(p)
    BY <1>3, <1>4, <1>12 DEF Complete, At, KeyStep, KeyWritten, KeyedType
<1>13. CASE Release(p)
    BY <1>3, <1>4, <1>13 DEF Release, At, KeyStep, KeyWritten, NoKey, KeyedType
<1>14. CASE FailReplay(p)
    <2>. DEFINE s == AfterReplayThrow(proc[p].pc)
    <2>1. /\ s = "refused" \/ s \in Trying
          /\ s \in Trying => proc[p].pc \in Trying
        BY DEF AfterReplayThrow, Trying
    <2>2. keyed' = keyed /\ (Answer(p, "refused") \/ Go(p, s))
        BY <1>14 DEF FailReplay
    <2>. HIDE DEF s
    <2>3. proc'[p].pc = "refused" \/ proc'[p].pc = s
        BY <1>2, <1>3, <2>2
    <2>. QED
        BY <2>1, <2>2, <2>3 DEF KeyStep, Holding, Trying, Sure
<1>15. CASE Crash(p) /\ Answer(p, "crashed")
    BY <1>3, <1>15 DEF Crash, KeyStep, Holding, Trying, Sure
<1>. QED
    BY <1>5, <1>6, <1>7, <1>8, <1>9, <1>10, <1>11, <1>12, <1>13, <1>14, <1>15, ReplayOnly
       DEF ReplayStep

LEMMA StepKey ==
    ASSUME TypeInv, KeyInv, NEW p \in Procs, Process(p) \/ Failure(p)
    PROVE  KeyInv'
<1>1. \A q \in Replays \ {p} : proc'[q] = proc[q]
    BY StepTypes, Ranks DEF Alone
<1>2. CASE p \notin Replays
    <2>1. keyed' = keyed
        <3>1. proc[p].pc \notin ReplaySteps
            BY <1>2, AtReplay DEF TypeInv
        <3>2. ~(\/ Reserve(p) \/ SendNormalize(p) \/ SendReplay(p)
                \/ Note(p) \/ Complete(p) \/ Release(p))
            BY <3>1 DEF Reserve, SendNormalize, SendReplay, Note, Complete, Release, At, ReplaySteps
        <3>. QED
            BY <3>2, StepTypes DEF Frames
    <2>2. \A q \in Replays : proc'[q] = proc[q]
        BY <1>1, <1>2
    <2>. QED
        BY <2>1, <2>2 DEF KeyInv
<1>3. CASE p \in Replays
    <2>1. KeyStep(p) /\ keyed.times \in Nat
        BY <1>3, ReplayKeys, KeyTypes DEF KeyedType
    <2>. DEFINE s == proc'[p].pc
    <2>2. CASE keyed' = keyed /\ s \notin Holding \union {"accepted"}
        BY <1>1, <2>2 DEF KeyInv, Holding
    <2>3. CASE keyed' = keyed /\ proc[p].pc \in Trying /\ s \in Trying
        BY <1>1, <1>3, <2>3 DEF KeyInv, Holding, Trying, Sure
    <2>4. CASE /\ s = "ReplayTarget" /\ keyed.status = "free"
               /\ KeyWritten("pending", keyed.noted, keyed.times)
        BY <1>1, <1>3, <2>4 DEF KeyInv, Holding, Trying, Sure, KeyWritten
    <2>5. CASE /\ s = "accepted"
               /\ keyed.noted \/ keyed.status = "completed"
               /\ KeyWritten("completed", keyed.noted, keyed.times)
        BY <1>1, <1>3, <2>5 DEF KeyInv, Holding, Trying, Sure, KeyWritten
    <2>6. CASE /\ proc[p].pc \in Trying /\ s = "Note"
               /\ KeyWritten(keyed.status, keyed.noted, keyed.times + 1)
        BY <1>1, <1>3, <2>1, <2>6 DEF KeyInv, Holding, Trying, Sure, KeyWritten
    <2>7. CASE proc[p].pc = "Note" /\ s = "Complete" /\ KeyWritten(keyed.status, TRUE, keyed.times)
        BY <1>1, <1>3, <2>7 DEF KeyInv, Holding, Trying, Sure, KeyWritten
    <2>8. CASE /\ proc[p].pc = "Complete" /\ s = "accepted"
               /\ KeyWritten("completed", keyed.noted, keyed.times)
        BY <1>1, <1>3, <2>8 DEF KeyInv, Holding, Trying, Sure, KeyWritten
    <2>9. CASE proc[p].pc = "Release" /\ s = "refused" /\ KeyWritten("free", FALSE, keyed.times)
        BY <1>1, <1>3, <2>9 DEF KeyInv, Holding, Trying, Sure, KeyWritten
    <2>. QED
        BY <2>1, <2>2, <2>3, <2>4, <2>5, <2>6, <2>7, <2>8, <2>9 DEF KeyStep
<1>. QED
    BY <1>2, <1>3

LEMMA OtherKey ==
    ASSUME TypeInv, KeyInv, (\E b \in Boxes : Close(b) \/ Retarget(b)) \/ UNCHANGED vars
    PROVE  KeyInv'
<1>1. keyed' = keyed /\ proc' = proc
    BY OtherSeen
<1>. QED
    BY <1>1 DEF KeyInv

LEMMA InitKey == Init => KeyInv
<1>. SUFFICES ASSUME Init PROVE KeyInv
    OBVIOUS
<1>1. \A p \in Replays : proc[p].pc = "free"
    BY DEF Init, Procs, IdleProc
<1>. QED
    BY <1>1 DEF Init, KeyInv, Holding, Trying, Sure, NoKey

-----------------------------------------------------------------------------
(* The contract.                                                           *)

Stored == {m \in Messages : Seen(m)}
WorkOn == [m \in Messages |-> task[<<"reply", m>>].status]

(* A step of the system is a step of the contract, or none.                *)
Kept == Contract!Next \/ UNCHANGED <<Stored, WorkOn>>

LEMMA StoreKept ==
    ASSUME NEW m \in Messages, m \notin Stored, \A k \in Stored : ~SameEmail(m, k),
           Stored' = Stored \union {m}, WorkOn' = WorkOn
    PROVE  Contract!Next
<1>1. Contract!Store(m)
    BY DEF Contract!Store, Stored, WorkOn
<1>. QED
    BY <1>1 DEF Contract!Next

LEMMA AdvanceKept ==
    ASSUME NEW m \in Messages, m \in Stored, NEW s \in Contract!Ahead[WorkOn[m]],
           Stored' = Stored, WorkOn' = [WorkOn EXCEPT ![m] = s]
    PROVE  Contract!Next
<1>1. Contract!Advance(m)
    BY DEF Contract!Advance, Stored, WorkOn
<1>. QED
    BY <1>1 DEF Contract!Next

(* A status and what it may come to; a task whose message is seen.         *)
Forward(s, r) == r = s \/ r \in Contract!Ahead[s]
Shows(t) == \A m \in Messages : t = <<"reply", m>> => Seen(m)

LEMMA ForwardIs ==
    /\ \A s \in TaskStatus : Forward(s, "needs_review") /\ Forward(s, s)
    /\ Forward("none", "queued") /\ Forward("queued", "running")
BY DEF Forward, TaskStatus, Contract!Ahead

(* The row of one task goes forward.                                       *)
LEMMA TaskKept ==
    ASSUME TypeInv, NEW t \in Tasks, NEW v, task' = [task EXCEPT ![t] = v], Stored' = Stored,
           Shows(t), t[1] = "reply" => Forward(task[t].status, v.status)
    PROVE  Kept
<1>1. task \in [Tasks -> TaskType] /\ \A m \in Messages : <<"reply", m>> \in Tasks
    BY TaskIs DEF TypeInv, RowsInv, TaskTypes
<1>2. task'[t] = v /\ \A u \in Tasks : u # t => task'[u] = task[u]
    BY <1>1
<1>3. \A m \in Messages : t # <<"reply", m>> => task'[<<"reply", m>>] = task[<<"reply", m>>]
    BY <1>1, <1>2
<1>4. CASE \A m \in Messages : t # <<"reply", m>>
    <2>1. WorkOn' = WorkOn
        BY <1>3, <1>4 DEF WorkOn
    <2>. QED
        BY <2>1 DEF Kept
<1>5. ASSUME NEW m \in Messages, t = <<"reply", m>> PROVE Kept
    <2>1. m \in Stored
        BY <1>5 DEF Stored, Shows
    <2>2. WorkOn[m] = task[t].status /\ WorkOn \in [Messages -> {task[u].status : u \in Tasks}]
        BY <1>1, <1>5 DEF WorkOn
    <2>3. t[1] = "reply" /\ \A k \in Messages \ {m} : t # <<"reply", k>>
        BY <1>5
    <2>4. ASSUME NEW k \in Messages PROVE WorkOn'[k] = IF k = m THEN v.status ELSE WorkOn[k]
        <3>1. WorkOn'[k] = task'[<<"reply", k>>].status /\ WorkOn[k] = task[<<"reply", k>>].status
            BY DEF WorkOn
        <3>2. CASE k = m
            BY <1>2, <1>5, <3>1, <3>2
        <3>3. CASE k # m
            BY <1>3, <2>3, <3>1, <3>3
        <3>. QED
            BY <3>2, <3>3
    <2>5. WorkOn' = [k \in Messages |-> IF k = m THEN v.status ELSE WorkOn[k]]
        BY <2>4 DEF WorkOn
    <2>6. WorkOn' = [WorkOn EXCEPT ![m] = v.status]
        BY <2>2, <2>5
    <2>7. Forward(WorkOn[m], v.status)
        BY <2>2, <2>3
    <2>8. CASE v.status \in Contract!Ahead[WorkOn[m]]
        BY <2>1, <2>6, <2>8, AdvanceKept DEF Kept
    <2>9. CASE v.status = WorkOn[m]
        <3>1. WorkOn' = WorkOn
            BY <2>2, <2>6, <2>9
        <3>. QED
            BY <3>1 DEF Kept
    <2>. QED
        BY <2>7, <2>8, <2>9 DEF Forward
<1>. QED
    BY <1>4, <1>5

LEMMA StoredKept ==
    ASSUME TypeInv, MailInv, NEW p \in Procs, Process(p) \/ Failure(p), task' = task
    PROVE  Kept
<1>1. WorkOn' = WorkOn
    BY DEF WorkOn
<1>2. CASE ~Stores(p)
    <2>1. Stored' = Stored
        BY <1>2, SeenSteps DEF Stored
    <2>. QED
        BY <1>1, <2>1 DEF Kept
<1>3. CASE Stores(p)
    <2>1. Mine(p) \in Messages /\ \A n \in Messages \ {Mine(p)} : Seen(n)' <=> Seen(n)
        BY <1>3, SeenSteps, StepTypes DEF Seen, Exists, Frames, Stores
    <2>2. Stored' = Stored \union {Mine(p)} \/ Stored' = Stored \ {Mine(p)}
        BY <2>1 DEF Stored
    <2>3. Mine(p) \in Stored => Mine(p) \in Stored'
        BY <1>3, StepTypes DEF Stored, Stores, InsertRow, Seen, Exists, Frames, TypeInv, RowsInv,
           MailTypes, Received, NoMessage
    <2>4. CASE Stored' = Stored
        BY <1>1, <2>4 DEF Kept
    <2>5. CASE Mine(p) \notin Stored /\ Stored' = Stored \union {Mine(p)}
        <3>1. ASSUME NEW k \in Stored, SameEmail(Mine(p), k) PROVE FALSE
            <4>1. k \in Messages /\ Seen(k)
                BY DEF Stored
            <4>2. message[k].id = IdOf(k) /\ (message[k].spelled => IdOf(k) \in Cased)
                BY <4>1 DEF MailInv, IdInv, Seen
            <4>3. k \in Same(BoxOf(Mine(p)), IdOf(Mine(p)))
                BY <3>1, <4>1, <4>2 DEF Same, SameEmail
            <4>. QED
                BY <1>3, <4>3 DEF Stores
        <3>. QED
            BY <1>1, <2>1, <2>5, <3>1, StoreKept DEF Kept
    <2>. QED
        BY <2>2, <2>3, <2>4, <2>5
<1>. QED
    BY <1>2, <1>3

(* The task that p writes is that of a message which is seen.              *)
LEMMA TaskSeen ==
    ASSUME TypeInv, NEW p \in Procs, proc[p].pc \in RecordSteps \union ExecSteps
    PROVE  TaskOf(p) \in Tasks /\ Shows(TaskOf(p)) /\ task[TaskOf(p)].status \in TaskStatus
BY TaskAt, ShownIs DEF TypeInv, RowsInv, TaskTypes, TaskType, Shows

LEMMA WorkKept ==
    ASSUME TypeInv, NEW p \in Procs,
           \/ Task(p) \/ Review(p) \/ Claim(p) \/ Reassign(p) \/ Reject(p)
           \/ CreateReplay(p) \/ DropReplay(p)
    PROVE  Kept
<1>0. task \in [Tasks -> TaskType]
    BY DEF TypeInv, RowsInv, TaskTypes
<1>1. UNCHANGED <<message, box>>
    BY DEF Task, Review, Claim, Reassign, Reject, CreateReplay, DropReplay, mailVars, worldVars
<1>2. Stored' = Stored
    BY <1>1 DEF Stored, Seen, Exists
<1>3. CASE task' = task
    BY <1>2, <1>3 DEF Kept, WorkOn
<1>5. CASE Task(p)
    <2>1. Reply(p) \in Tasks /\ Shows(Reply(p))
        BY <1>5, WorkNames, WorkIs DEF TypeInv, Reply, Task, At, TaskSteps, Shows
    <2>. DEFINE v == [NoTask EXCEPT !.status = "queued", !.assigned = proc[p].to]
    <2>2. \/ task' = task
          \/ task[Reply(p)].status = "none" /\ task' = [task EXCEPT ![Reply(p)] = v]
        BY <1>5 DEF Task
    <2>3. v.status = "queued"
        BY DEF NoTask
    <2>. HIDE DEF v
    <2>4. CASE task[Reply(p)].status = "none" /\ task' = [task EXCEPT ![Reply(p)] = v]
        BY <1>2, <2>1, <2>3, <2>4, TaskKept, ForwardIs
    <2>. QED
        BY <1>3, <2>2, <2>4
<1>6. CASE Review(p) \/ Reject(p)
    <2>1. TaskOf(p) \in Tasks /\ Shows(TaskOf(p)) /\ task[TaskOf(p)].status \in TaskStatus
        BY <1>6, TaskSeen DEF Review, Reject, At, RecordSteps, ExecSteps
    <2>2. task' = task \/ SetReview(p, TRUE) \/ SetReview(p, FALSE)
        BY <1>6 DEF Review, Reject
    <2>3. ASSUME NEW b, SetReview(p, b) PROVE Kept
        <3>. DEFINE v == [task[TaskOf(p)] EXCEPT !.status = "needs_review", !.result = b]
        <3>1. task' = [task EXCEPT ![TaskOf(p)] = v] /\ v.status = "needs_review"
            BY <1>0, <2>1, <2>3 DEF SetReview, TaskType
        <3>. HIDE DEF v
        <3>. QED
            BY <1>2, <2>1, <3>1, TaskKept, ForwardIs
    <2>. QED
        BY <1>3, <2>2, <2>3
<1>7. CASE Reassign(p)
    <2>1. TaskOf(p) \in Tasks /\ Shows(TaskOf(p)) /\ task[TaskOf(p)].status \in TaskStatus
        BY <1>7, TaskSeen DEF Reassign, At, ExecSteps
    <2>. DEFINE v == [task[TaskOf(p)] EXCEPT !.assigned = proc[p].to]
    <2>2. task' = [task EXCEPT ![TaskOf(p)] = v] /\ v.status = task[TaskOf(p)].status
        BY <1>0, <1>7, <2>1 DEF Reassign, TaskType
    <2>. HIDE DEF v
    <2>. QED
        BY <1>2, <2>1, <2>2, TaskKept, ForwardIs
<1>8. CASE Claim(p)
    <2>1. TaskOf(p) \in Tasks /\ Shows(TaskOf(p)) /\ task[TaskOf(p)].status \in TaskStatus
        BY <1>8, TaskSeen DEF Claim, At, ExecSteps
    <2>. DEFINE v == [task[TaskOf(p)] EXCEPT !.status = "running"]
    <2>2. \/ task' = task
          \/ task[TaskOf(p)].status = "queued" /\ task' = [task EXCEPT ![TaskOf(p)].status = "running"]
        BY <1>8 DEF Claim, CanClaim
    <2>3. CASE task[TaskOf(p)].status = "queued"
               /\ task' = [task EXCEPT ![TaskOf(p)].status = "running"]
        <3>1. task' = [task EXCEPT ![TaskOf(p)] = v] /\ v.status = "running"
            BY <1>0, <2>1, <2>3 DEF TaskType
        <3>. HIDE DEF v
        <3>. QED
            BY <1>2, <2>1, <2>3, <3>1, TaskKept, ForwardIs
    <2>. QED
        BY <1>3, <2>2, <2>3
<1>9. CASE CreateReplay(p) \/ DropReplay(p)
    <2>1. ReplayTask(p) \in Tasks /\ Shows(ReplayTask(p)) /\ ReplayTask(p)[1] # "reply"
        BY <1>9, AtReplay DEF TypeInv, CreateReplay, DropReplay, At, ReplaySteps, ReplayTask, Shows
    <2>2. \E v : task' = [task EXCEPT ![ReplayTask(p)] = v]
        BY <1>9 DEF CreateReplay, DropReplay
    <2>. QED
        BY <1>2, <2>1, <2>2, TaskKept
<1>. QED
    BY <1>5, <1>6, <1>7, <1>8, <1>9

LEMMA OtherKept ==
    ASSUME TypeInv, (\E b \in Boxes : Close(b) \/ Retarget(b)) \/ UNCHANGED vars
    PROVE  Kept
<1>1. Stored' = Stored /\ WorkOn' = WorkOn
    BY OtherSeen DEF Stored, WorkOn
<1>. QED
    BY <1>1 DEF Kept

-----------------------------------------------------------------------------
(* The theorems.                                                           *)

Inv == TypeInv /\ ClaimInv /\ MailInv /\ KeyInv

LEMMA InitInv == Init => Inv
BY InitTypes, InitClaims, InitMail, InitKey DEF Inv

LEMMA NextInv == Inv /\ [Next]_vars => Inv'
<1>. SUFFICES ASSUME Inv, [Next]_vars PROVE Inv'
    OBVIOUS
<1>1. TypeInv'
    BY NextTypes DEF Inv
<1>2. CASE \E p \in Procs : Process(p) \/ Failure(p)
    <2>1. PICK p \in Procs : Process(p) \/ Failure(p)
        BY <1>2
    <2>. QED
        BY <1>1, <2>1, StepClaims, StepId, StepRaw, StepOne, StepKey DEF Inv, MailInv
<1>3. CASE (\E b \in Boxes : Close(b) \/ Retarget(b)) \/ UNCHANGED vars
    BY <1>1, <1>3, OtherClaims, OtherMail, OtherKey DEF Inv
<1>. QED
    BY <1>2, <1>3 DEF Next

LEMMA Invariance == Spec => []Inv
BY InitInv, NextInv, PTL DEF Spec

(* Every row of the inbound path has its type, and every delivery, queue   *)
(* message and replay request is at one of its steps: handleEmail, the     *)
(* consumers of email-ingest and agent-execute and the replay route never  *)
(* leave a task that was claimed more often than its message is delivered. *)
THEOREM InboundTypes == Spec => []TypeOK
<1>1. Inv => TypeOK
    <2>. SUFFICES ASSUME Inv PROVE TypeOK
        OBVIOUS
    <2>1. /\ \A m \in Messages : /\ message[m].status \in MsgStatus
                                 /\ message[m].thread \in Threads \union {None}
          /\ sentThread \in [Sent -> Threads \union {None}]
          /\ \A m \in Messages : files[m] \subseteq FilesOf(m)
        BY DEF Inv, TypeInv, RowsInv, MailTypes, MsgType
    <2>2. /\ \A t \in Tasks : task[t].status \in TaskStatus
          /\ ran \subseteq Tasks /\ keyed.status \in {"free", "pending", "completed"}
          /\ claims \in [Tasks -> Nat] /\ \A t \in Tasks : claims[t] <= 1
        BY DEF Inv, TypeInv, RowsInv, TaskTypes, TaskType, KeyedType, ClaimInv
    <2>3. claims \in [Tasks -> 0..MaxTries]
        BY <2>2, InboundAssumption
    <2>4. \A p \in Procs : proc[p].pc \in Pcs
        BY DEF Inv, TypeInv, ProcsOK, ProcType
    <2>. QED
        BY <2>1, <2>2, <2>3, <2>4
           DEF TypeOK, Inv, TypeInv, RowsInv, WorldTypes, HistoryTypes, MsgStatus, TaskStatus, Pcs
<1>. QED
    BY <1>1, Invariance, PTL

(* POST /v1/messages/:id/replay: however many requests carry one key, and  *)
(* wherever they throw or die, one replay is queued, and an answer that    *)
(* the replay was accepted is never given before it was queued.            *)
THEOREM OneReplay == Spec => []ReplayedOnce
<1>1. Inv => ReplayedOnce
    BY Ranks DEF Inv, KeyInv, ReplayedOnce, At
<1>. QED
    BY <1>1, Invariance, PTL

(* createInboundMessage: no two rows a mailbox shows are of one email,     *)
(* whoever brings it at once or again, as long as its Message-ID has no    *)
(* capitals; and the raw email of a row is in R2, unless a new row could   *)
(* not be read back.                                                       *)
THEOREM EmailsStoredOnce == Spec => [](OneInv /\ RawInv)
<1>1. Inv => OneInv /\ RawInv
    BY DEF Inv, MailInv
<1>. QED
    BY <1>1, Invariance, PTL

(* The same of the ids in the rows, where no Message-ID has capitals: the  *)
(* unique index on them is never asked to take a second row.               *)
THEOREM StoredOnceInLowerCase ==
    ASSUME Cased = {}
    PROVE  Spec => []StoredOnce
<1>1. Inv => StoredOnce
    <2>. SUFFICES ASSUME Inv PROVE StoredOnce
        OBVIOUS
    <2>1. ASSUME NEW m \in Messages, NEW k \in Messages \ {m}, Seen(m), Seen(k),
                 message[m].id # None, BoxOf(m) = BoxOf(k), message[m].id = message[k].id
          PROVE  FALSE
        <3>1. message[m].id = IdOf(m) /\ message[k].id = IdOf(k)
            BY <2>1 DEF Inv, MailInv, IdInv, Seen
        <3>2. SameEmail(m, k)
            BY <2>1, <3>1 DEF SameEmail
        <3>. QED
            BY <2>1, <3>2 DEF Inv, MailInv, OneInv
    <2>2. "Finalize" \notin failed => \A m \in Messages : Exists(m) => Raw(m) \in blobs
        BY DEF Inv, MailInv, RawInv
    <2>. QED
        BY <2>1, <2>2 DEF StoredOnce
<1>. QED
    BY <1>1, Invariance, PTL

(* The inbound path implements its contract: a step stores a copy that the *)
(* mailbox does not have, or takes the work on a stored copy forward, or   *)
(* is none that an agent sees.  No delivery, failure or crash takes a      *)
(* stored email back or puts a task back to a status it had.               *)
THEOREM ContractKept == Spec => KeepsContract
<1>1. Init => Contract!Init
    <2>. SUFFICES ASSUME Init PROVE Contract!Init
        OBVIOUS
    <2>1. message = [m \in Messages |-> NoMessage] /\ task = [u \in Tasks |-> NoTask]
        BY DEF Init
    <2>2. \A m \in Messages : ~Seen(m)
        BY <2>1 DEF NoMessage, Seen, Exists
    <2>3. ASSUME NEW m \in Messages PROVE task[<<"reply", m>>].status = "none"
        <3>1. <<"reply", m>> \in Tasks
            BY TaskIs
        <3>. QED
            BY <2>1, <3>1 DEF NoTask
    <2>. QED
        BY <2>2, <2>3 DEF Contract!Init
<1>2. Inv /\ [Next]_vars => Kept
    <2>. SUFFICES ASSUME Inv, [Next]_vars PROVE Kept
        OBVIOUS
    <2>1. ASSUME NEW p \in Procs, Process(p) \/ Failure(p) PROVE Kept
        BY <2>1, StepTypes, StoredKept, WorkKept DEF Inv, Frames
    <2>2. CASE (\E b \in Boxes : Close(b) \/ Retarget(b)) \/ UNCHANGED vars
        BY <2>2, OtherKept DEF Inv
    <2>. QED
        BY <2>1, <2>2 DEF Next
<1>3. Kept => [Contract!Next]_<<{m \in Messages : Seen(m)}, [m \in Messages |-> task[<<"reply", m>>].status]>>
    BY DEF Kept, Stored, WorkOn
<1>. QED
    BY <1>1, <1>2, <1>3, Invariance, PTL DEF Spec, KeepsContract, Contract!Spec

-----------------------------------------------------------------------------
(* What is recorded of a task.                                             *)

(* One kind of call fails at most.                                         *)
Single == \A s, u \in failed : s = u
Broken(S) == S \intersect failed # {}
RunFails == {"InsertRun", "Review"}
ExecFails == {"Claim", "Prepare", "Reassign", "PutTrace"} \union RunFails

Executing == {"Prepare", "Reassign"} \union RecordSteps
Undoing == {"UndoRun", "UndoTrace"}
Traced(t) == Trace(t) \in blobs
Has(t) == task[t].status # "none"
Holds(p, t) == proc[p].task = t /\ proc[p].pc \in Executing \union {"Reject"}

(* A consumer that executes a task has claimed it.  Who else reviews it in *)
(* the meantime could not reach the queue, or failed to claim it.          *)
ExecOK(p) ==
    LET s == proc[p].pc
        t == proc[p].task
    IN s # "free" =>
         /\ "execute" \notin down /\ Has(t)
         /\ s \in Executing => \/ task[t].status = "running"
                               \/ Reviewed(t) /\ (t \in dead \/ Broken({"Claim"}))
         /\ s \in Undoing => Broken(RunFails)
         /\ s \in {"Reject", "RejectLetter"} => Broken(ExecFails)
         /\ s = "Reject" => task[t].status # "queued" \/ Broken({"Claim"})
         /\ Single => /\ s \in RunFails => Traced(t)
                      /\ s = "Review" => t \in ran

(* An ingest records a review where it could not send the task.            *)
IngestOK(p) ==
    LET s == proc[p].pc
        t == proc[p].task
    IN /\ s \in Tasked \ {"Mark"} \/ (s = "Mark" /\ proc[p].state # "none") => Has(t)
       /\ s \in RecordSteps => "execute" \in down \/ Broken({"SendTask"})
       /\ s \in Undoing => Broken(RunFails)

ReplayOK(p) == proc[p].pc = "SendReplay" => Has(ReplayTask(p))

OneHolder ==
    \A p, q \in ExecSlots : \A t \in Tasks :
      Holds(p, t) /\ Holds(q, t) => p = q \/ Broken({"Claim"})

Rejecting(t) == \E p \in ExecSlots : proc[p].pc = "RejectLetter" /\ proc[p].task = t
Accounted(t) == task[t].result /\ t \in ran /\ Traced(t)
TaskOK(t) ==
    /\ Reviewed(t) /\ Single => t \in dead \/ Accounted(t) \/ Rejecting(t)
    /\ Reviewed(t) /\ "execute" \in down => t \in dead
    /\ task[t].status = "running" => Broken({"Crash", "Reject"}) \/ \E p \in ExecSlots : Holds(p, t)

ReviewInv ==
    /\ IsFiniteSet(failed)
    /\ \A p \in ExecSlots : ExecOK(p)
    /\ \A p \in Deliveries \union IngestSlots : IngestOK(p)
    /\ \A p \in Replays : ReplayOK(p)
    /\ OneHolder
    /\ \A t \in Tasks : TaskOK(t)

(* What every step does: dead letters and failures stay.                   *)
Growing ==
    /\ down' = down /\ dead \subseteq dead'
    /\ failed' = failed \/ \E s : failed' = failed \union {s}

LEMMA Grown ==
    ASSUME Growing
    PROVE  /\ failed \subseteq failed' /\ (Single' => Single)
           /\ \A S : Broken(S) => Broken(S)'
           /\ IsFiniteSet(failed) => IsFiniteSet(failed')
<1>1. failed \subseteq failed'
    BY DEF Growing
<1>2. IsFiniteSet(failed) => IsFiniteSet(failed')
    BY FS_AddElement DEF Growing
<1>. QED
    BY <1>1, <1>2 DEF Single, Broken

(* The tasks that processes know.                                          *)
LEMMA ExecTask ==
    ASSUME ProcsOK, NEW p \in ExecSlots, proc[p].pc # "free"
    PROVE  /\ proc[p].task \in Shown /\ proc[p].task \in Tasks
           /\ \A q \in Replays : proc[q].pc \in Unsent => proc[p].task # <<"replay", q>>
<1>1. p \in Procs
    BY Ranks
<1>2. InExec(proc[p], Shown)
    BY <1>1, ProcIs
<1>. QED
    BY <1>2, ShownIs DEF InExec, Shown

LEMMA IngestTask ==
    ASSUME ProcsOK, NEW p \in Deliveries \union IngestSlots, proc[p].pc \in Tasked
    PROVE  /\ proc[p].task = <<"reply", proc[p].msg>> /\ proc[p].task \in Tasks
           /\ \A q \in Replays : proc[p].task # <<"replay", q>>
<1>1. p \in Procs /\ p \notin ExecSlots
    BY Ranks
<1>2. CASE proc[p].pc \in {"Mark", "SendTask"}
    <2>1. proc[p].pc \in Work \ RecordSteps
        BY <1>2 DEF Work, TaskSteps, RecordSteps
    <2>2. Works(proc[p], Shown) /\ <<"reply", proc[p].msg>> \in Tasks
        BY <1>1, <2>1, WorkIs
    <2>3. proc[p].task = <<"reply", proc[p].msg>>
        BY <1>2, <2>2 DEF Works, Tasked
    <2>. QED
        BY <2>2, <2>3
<1>3. CASE proc[p].pc \in RecordSteps
    <2>1. TaskOf(p) = <<"reply", proc[p].msg>> /\ TaskOf(p) \in Tasks
        BY <1>1, <1>3, TaskAt
    <2>. QED
        BY <2>1 DEF TaskOf
<1>. QED
    BY <1>2, <1>3 DEF Tasked

(* Who takes a record back works on a task nobody else executes, or that   *)
(* has a dead letter, as long as one kind of call fails.                   *)
LEMMA UndoAlone ==
    ASSUME TypeInv, ReviewInv, Single, NEW p \in Procs, proc[p].pc \in Undoing,
           NEW t \in Tasks, proc[p].task = t
    PROVE  /\ Reviewed(t) => t \in dead
           /\ \A q \in ExecSlots : Holds(q, t) => q = p
<1>1. CASE p \in ExecSlots
    <2>1. ExecOK(p) /\ Broken(RunFails) /\ proc[p].pc \in RecordSteps
        BY <1>1 DEF ReviewInv, ExecOK, Undoing, RecordSteps
    <2>2. ~Broken({"Claim"})
        BY <2>1 DEF Broken, Single, RunFails
    <2>3. Reviewed(t) => t \in dead
        BY <2>1, <2>2 DEF ExecOK, Executing, RecordSteps, Reviewed
    <2>4. Holds(p, t)
        BY <2>1 DEF Holds, Executing
    <2>. QED
        BY <1>1, <2>2, <2>3, <2>4 DEF ReviewInv, OneHolder
<1>2. CASE p \notin ExecSlots
    <2>1. proc[p].pc \in RecordSteps
        BY DEF Undoing, RecordSteps
    <2>2. p \in Deliveries \union IngestSlots
        BY <1>2, <2>1, TaskAt DEF TypeInv
    <2>3. Broken(RunFails) /\ ("execute" \in down \/ Broken({"SendTask"}))
        BY <2>1, <2>2 DEF ReviewInv, IngestOK
    <2>4. "execute" \in down
        BY <2>3 DEF Broken, Single, RunFails
    <2>5. Reviewed(t) => t \in dead
        BY <2>4 DEF ReviewInv, TaskOK
    <2>6. ASSUME NEW q \in ExecSlots PROVE proc[q].pc = "free"
        BY <2>4, <2>6 DEF ReviewInv, ExecOK
    <2>. QED
        BY <2>5, <2>6 DEF Holds, Executing, RecordSteps
<1>. QED
    BY <1>1, <1>2

-----------------------------------------------------------------------------
(* A step of p on the task t.                                              *)

OnlyTask(t) ==
    \A u \in Tasks \ {t} : /\ task'[u] = task[u] /\ (u \in ran' <=> u \in ran)
                           /\ Trace(u) \in blobs' <=> Trace(u) \in blobs

(* Besides p, a free slot of agent-execute may get a task.                 *)
OnlyProc(p) ==
    \A q \in Procs \ {p} :
      \/ proc'[q] = proc[q]
      \/ q \in IngestSlots /\ proc'[q].pc = "queued"
      \/ /\ q \in ExecSlots /\ At(q, "free") /\ proc'[q].pc = "queued"
         /\ "execute" \notin down /\ task'[proc'[q].task].status # "none"

Written(p, t) ==
    \/ task'[t].status = task[t].status
    \/ p \in Replays /\ t = ReplayTask(p) /\ proc[p].pc \in Unsent
    \/ task[t].status = "none" /\ task'[t].status = "queued"
    \/ task[t].status = "queued" /\ task'[t].status = "running"
    \/ task'[t].status = "needs_review" /\ (t \in dead' \/ (p \in ExecSlots /\ Holds(p, t)))
Lost(p, t) ==
    \/ (t \in ran => t \in ran') /\ (Trace(t) \in blobs => Trace(t) \in blobs')
    \/ proc[p].pc \in Undoing /\ proc[p].task = t

LEMMA ExecKept ==
    ASSUME TypeInv, ReviewInv, NEW p \in Procs, NEW t \in Tasks, Growing, OnlyTask(t),
           Written(p, t), Lost(p, t), NEW q \in ExecSlots, q # p, proc'[q] = proc[q]
    PROVE  ExecOK(q)'
<1>. SUFFICES ASSUME proc[q].pc # "free" PROVE ExecOK(q)'
    BY DEF ExecOK
<1>1. ExecOK(q) /\ proc[q].task \in Tasks
    BY ExecTask DEF ReviewInv, TypeInv
<1>2. CASE proc[q].task # t
    <2>1. \A u \in Tasks : u # t => task'[u] = task[u] /\ (u \in ran => u \in ran')
                                   /\ (Trace(u) \in blobs => Trace(u) \in blobs')
        BY DEF OnlyTask
    <2>. QED
        BY <1>1, <1>2, <2>1, Grown DEF ExecOK, Has, Reviewed, Traced, Growing
<1>3. CASE proc[q].task = t
    <2>1. t \in Tasks /\ ~(p \in Replays /\ t = ReplayTask(p) /\ proc[p].pc \in Unsent)
        BY <1>3, ExecTask DEF TypeInv, ReplayTask
    <2>2. Has(t) /\ "execute" \notin down
        BY <1>1, <1>3 DEF ExecOK
    <2>3. task'[t].status # "none"
        BY <2>1, <2>2 DEF Written, Has
    <2>4. proc[q].pc \in Executing \union {"Reject"} => Holds(q, t)
        BY <1>3 DEF Holds
    <2>5. Holds(p, t) /\ Holds(q, t) /\ p \in ExecSlots => Broken({"Claim"})
        BY DEF ReviewInv, OneHolder
    <2>6. proc[q].pc \in Executing =>
            \/ task'[t].status = "running"
            \/ task'[t].status = "needs_review" /\ (t \in dead' \/ Broken({"Claim"})')
        <3>. SUFFICES ASSUME proc[q].pc \in Executing
                      PROVE  \/ task'[t].status = "running"
                             \/ task'[t].status = "needs_review" /\ (t \in dead' \/ Broken({"Claim"})')
            OBVIOUS
        <3>1. \/ task[t].status = "running"
              \/ task[t].status = "needs_review" /\ (t \in dead \/ Broken({"Claim"}))
            BY <1>1, <1>3 DEF ExecOK, Reviewed
        <3>. QED
            BY <2>1, <2>4, <2>5, <3>1, Grown DEF Written, Growing
    <2>7. proc[q].pc = "Reject" => task'[t].status # "queued" \/ Broken({"Claim"})'
        BY <1>1, <1>3, <2>1, <2>2, Grown DEF ExecOK, Written, Has
    <2>8. ASSUME Single', proc[q].pc \in RunFails
          PROVE  /\ Traced(t) => Trace(t) \in blobs'
                 /\ t \in ran => t \in ran'
        <3>1. Holds(q, t) /\ Single
            BY <2>4, <2>8, Grown DEF RunFails, Executing, RecordSteps
        <3>. QED
            BY <3>1, UndoAlone DEF Lost, Traced
    <2>9. proc[q].pc = "Review" => proc[q].pc \in RunFails
        BY DEF RunFails
    <2>. QED
        BY <1>1, <1>3, <2>2, <2>3, <2>6, <2>7, <2>8, <2>9, Grown
           DEF ExecOK, Has, Reviewed, Traced, Growing
<1>. QED
    BY <1>2, <1>3

LEMMA IngestKept ==
    ASSUME TypeInv, ReviewInv, NEW p \in Procs, NEW t \in Tasks, Growing, OnlyTask(t),
           Written(p, t), NEW q \in Deliveries \union IngestSlots, q # p, proc'[q] = proc[q]
    PROVE  IngestOK(q)'
<1>1. IngestOK(q)
    BY DEF ReviewInv
<1>2. ASSUME proc[q].pc \in Tasked, Has(proc[q].task)
      PROVE  task'[proc[q].task].status # "none"
    <2>1. proc[q].task \in Tasks /\ \A o \in Replays : proc[q].task # <<"replay", o>>
        BY <1>2, IngestTask DEF TypeInv
    <2>2. CASE proc[q].task = t
        BY <1>2, <2>1, <2>2 DEF Written, Has, ReplayTask
    <2>3. CASE proc[q].task # t
        BY <1>2, <2>1, <2>3 DEF OnlyTask, Has
    <2>. QED
        BY <2>2, <2>3
<1>. QED
    BY <1>1, <1>2, Grown DEF IngestOK, Has, Growing, Tasked

LEMMA ReplayKept ==
    ASSUME TypeInv, ReviewInv, NEW p \in Procs, NEW t \in Tasks, Growing, OnlyTask(t),
           Written(p, t), NEW q \in Replays, q # p, proc'[q] = proc[q]
    PROVE  ReplayOK(q)'
<1>1. ReplayOK(q) /\ ReplayTask(q) \in Tasks
    BY TaskIs DEF ReviewInv, ReplayTask
<1>2. p \in Replays => ReplayTask(q) # ReplayTask(p)
    BY DEF ReplayTask
<1>3. CASE ReplayTask(q) = t
    BY <1>1, <1>2, <1>3 DEF ReplayOK, Written, Has, ReplayTask
<1>4. CASE ReplayTask(q) # t
    BY <1>1, <1>4 DEF ReplayOK, OnlyTask, Has, ReplayTask
<1>. QED
    BY <1>3, <1>4

LEMMA TaskKeptOK ==
    ASSUME TypeInv, ReviewInv, NEW p \in Procs, NEW t \in Tasks, Growing, OnlyTask(t), OnlyProc(p),
           p \in ExecSlots => proc[p].task = t,
           NEW u \in Tasks, u # t
    PROVE  TaskOK(u)'
<1>1. TaskOK(u)
    BY DEF ReviewInv
<1>2. \A q \in ExecSlots : (Holds(q, u) \/ (proc[q].pc = "RejectLetter" /\ proc[q].task = u))
                           => proc'[q] = proc[q]
    <2>. SUFFICES ASSUME NEW q \in ExecSlots, proc[q].pc # "free", proc[q].task = u
                  PROVE  proc'[q] = proc[q]
        BY DEF Holds, Executing, RecordSteps
    <2>. QED
        BY Ranks DEF OnlyProc, At
<1>3. Rejecting(u) => Rejecting(u)'
    BY <1>2 DEF Rejecting
<1>4. (\E q \in ExecSlots : Holds(q, u)) => (\E q \in ExecSlots : Holds(q, u)')
    BY <1>2 DEF Holds
<1>5. task'[u] = task[u] /\ (u \in ran => u \in ran') /\ (Traced(u) => Traced(u)')
    BY DEF OnlyTask, Traced
<1>. QED
    BY <1>1, <1>3, <1>4, <1>5, Grown DEF TaskOK, Reviewed, Accounted, Growing

LEMMA StepKeeps ==
    ASSUME TypeInv, ReviewInv, NEW p \in Procs, NEW t \in Tasks, Growing, OnlyTask(t), OnlyProc(p),
           Written(p, t), Lost(p, t),
           p \in ExecSlots =>
             /\ proc[p].task = t /\ proc[p].pc # "free" /\ ExecOK(p)'
             /\ \A u \in Tasks : Holds(p, u)' =>
                  u = t /\ (Holds(p, t) \/ Broken({"Claim"})' \/ task[t].status = "queued"),
           p \in Deliveries \union IngestSlots => IngestOK(p)',
           p \in Replays => ReplayOK(p)',
           TaskOK(t)'
    PROVE  ReviewInv'
<1>1. IsFiniteSet(failed')
    BY Grown DEF ReviewInv
<1>2. ASSUME NEW q \in ExecSlots PROVE ExecOK(q)'
    <2>1. CASE q = p
        BY <2>1
    <2>2. CASE q # p /\ proc'[q] = proc[q]
        BY <2>2, ExecKept
    <2>3. CASE q # p /\ proc'[q] # proc[q]
        <3>1. /\ proc'[q].pc = "queued" /\ "execute" \notin down'
              /\ task'[proc'[q].task].status # "none"
            BY <2>3, Ranks DEF OnlyProc, Growing
        <3>. QED
            BY <3>1 DEF ExecOK, Has, Executing, RecordSteps, Undoing, RunFails
    <2>. QED
        BY <2>1, <2>2, <2>3
<1>3. ASSUME NEW q \in Deliveries \union IngestSlots PROVE IngestOK(q)'
    <2>1. CASE q = p
        BY <1>3, <2>1
    <2>2. CASE q # p /\ proc'[q] = proc[q]
        BY <2>2, IngestKept
    <2>3. CASE q # p /\ proc'[q] # proc[q]
        <3>1. proc'[q].pc = "queued"
            BY <2>3, Ranks DEF OnlyProc
        <3>. QED
            BY <3>1 DEF IngestOK, Tasked, RecordSteps, Undoing
    <2>. QED
        BY <2>1, <2>2, <2>3
<1>4. ASSUME NEW q \in Replays PROVE ReplayOK(q)'
    <2>1. q # p => proc'[q] = proc[q]
        BY Ranks DEF OnlyProc
    <2>. QED
        BY <2>1, ReplayKept
<1>5. ASSUME NEW q \in ExecSlots, NEW o \in ExecSlots, NEW u \in Tasks, Holds(q, u)', Holds(o, u)'
      PROVE  q = o \/ Broken({"Claim"})'
    <2>1. ASSUME NEW i \in ExecSlots, Holds(i, u)', i # p
          PROVE  Holds(i, u)
        <3>1. proc'[i] = proc[i]
            BY <2>1, Ranks DEF OnlyProc, Holds, Executing, RecordSteps
        <3>. QED
            BY <2>1, <3>1 DEF Holds
    <2>2. CASE q # p /\ o # p
        BY <1>5, <2>1, <2>2, Grown DEF ReviewInv, OneHolder
    <2>3. ASSUME NEW i \in ExecSlots, Holds(i, u)', i # p, p \in ExecSlots, Holds(p, u)'
          PROVE  Broken({"Claim"})'
        <3>1. Holds(i, u) /\ u = t
            BY <2>1, <2>3
        <3>2. CASE Holds(p, t)
            BY <2>3, <3>1, <3>2, Grown DEF ReviewInv, OneHolder
        <3>3. CASE task[t].status = "queued"
            <4>1. ExecOK(i)
                BY DEF ReviewInv
            <4>2. proc[i].pc # "free"
                BY <3>1 DEF Holds, Executing, RecordSteps
            <4>3. Broken({"Claim"})
                BY <3>1, <3>3, <4>1, <4>2 DEF ExecOK, Holds, Reviewed
            <4>. QED
                BY <4>3, Grown
        <3>. QED
            BY <2>3, <3>1, <3>2, <3>3
    <2>. QED
        BY <1>5, <2>2, <2>3
<1>6. OneHolder'
    BY <1>5 DEF OneHolder
<1>7. \A u \in Tasks : TaskOK(u)'
    BY TaskKeptOK
<1>. QED
    BY <1>1, <1>2, <1>3, <1>4, <1>6, <1>7 DEF ReviewInv

-----------------------------------------------------------------------------
(* A consumer of agent-execute.                                            *)

LEMMA PutOnly ==
    ASSUME TypeInv, NEW p \in Procs, NEW r, Put(p, r)
    PROVE  OnlyProc(p) /\ proc'[p] = r
BY DEF TypeInv, ProcsOK, Put, OnlyProc

LEMMA GoOnly ==
    ASSUME TypeInv, NEW p \in Procs, NEW s \in Pcs, Go(p, s)
    PROVE  /\ OnlyProc(p) /\ proc'[p].pc = s /\ proc'[p].task = proc[p].task
           /\ proc'[p].state = proc[p].state /\ proc'[p].kind = proc[p].kind
<1>1. proc[p] \in ProcType /\ Put(p, [proc[p] EXCEPT !.pc = s])
    BY GoIs, ProcIs DEF TypeInv
<1>2. OnlyProc(p) /\ proc'[p] = [proc[p] EXCEPT !.pc = s]
    BY <1>1, PutOnly
<1>. QED
    BY <1>1, <1>2, GoRecord

LEMMA ExecKnows ==
    ASSUME TypeInv, ReviewInv, NEW p \in ExecSlots, proc[p].pc # "free"
    PROVE  /\ p \in Procs /\ p \notin Deliveries \union IngestSlots \union Replays
           /\ TaskOf(p) \in Tasks /\ TaskOf(p) = proc[p].task /\ proc[p].kind = "exec"
           /\ ExecOK(p) /\ TaskOK(TaskOf(p)) /\ task[TaskOf(p)] \in TaskType
           /\ "execute" \notin down /\ task[TaskOf(p)].status # "none"
<1>1. p \in Procs /\ p \notin Deliveries \union IngestSlots \union Replays
    BY Ranks
<1>2. TaskOf(p) \in Tasks /\ TaskOf(p) = proc[p].task
    BY ExecTask DEF TypeInv, TaskOf
<1>3. InExec(proc[p], Shown)
    BY <1>1, ProcIs DEF TypeInv
<1>4. ExecOK(p) /\ TaskOK(TaskOf(p))
    BY <1>2 DEF ReviewInv
<1>. QED
    BY <1>1, <1>2, <1>3, <1>4 DEF InExec, TypeInv, RowsInv, TaskTypes, ExecOK, Has

SameStatus(t) == task'[t].status = task[t].status /\ task'[t].result = task[t].result

(* It may leave the row of its task alone.                                 *)
LEMMA SameTaskOK ==
    ASSUME TypeInv, ReviewInv, NEW p \in ExecSlots, proc[p].pc # "free", NEW t, t = TaskOf(p),
           Growing, OnlyProc(p), SameStatus(t), Lost(p, t),
           proc[p].pc = "RejectLetter" => t \in dead' \/ ~Single',
           Holds(p, t) => Holds(p, t)' \/ Broken({"Crash", "Reject"})'
    PROVE  TaskOK(t)'
<1>1. /\ p \in Procs /\ t \in Tasks /\ t = proc[p].task /\ TaskOK(t)
      /\ failed \subseteq failed' /\ (Single' => Single)
    BY ExecKnows, Grown
<1>2. \A q \in ExecSlots \ {p} : proc[q].pc # "free" => proc'[q] = proc[q]
    BY Ranks DEF OnlyProc, At
<1>3. ASSUME Reviewed(t), Single' PROVE t \in dead' \/ Accounted(t)' \/ Rejecting(t)'
    <2>1. t \in dead \/ Accounted(t) \/ Rejecting(t)
        BY <1>1, <1>3 DEF TaskOK
    <2>2. CASE Accounted(t)
        <3>1. proc[p].pc \in Undoing => t \in dead
            BY <1>1, <1>3, UndoAlone
        <3>. QED
            BY <2>2, <3>1 DEF Accounted, Lost, Traced, Growing, SameStatus
    <2>3. CASE Rejecting(t)
        <3>1. PICK q \in ExecSlots : proc[q].pc = "RejectLetter" /\ proc[q].task = t
            BY <2>3 DEF Rejecting
        <3>2. CASE q = p
            BY <1>3, <3>1, <3>2
        <3>3. CASE q # p
            BY <1>2, <3>1, <3>3 DEF Rejecting
        <3>. QED
            BY <3>2, <3>3
    <2>. QED
        BY <2>1, <2>2, <2>3 DEF Growing
<1>4. ASSUME task[t].status = "running"
      PROVE  Broken({"Crash", "Reject"})' \/ \E q \in ExecSlots : Holds(q, t)'
    <2>1. CASE Broken({"Crash", "Reject"})
        BY <2>1, Grown
    <2>2. CASE \E q \in ExecSlots : Holds(q, t)
        <3>1. PICK q \in ExecSlots : Holds(q, t)
            BY <2>2
        <3>2. proc[q].pc # "free"
            BY <3>1 DEF Holds, Executing, RecordSteps
        <3>3. CASE q # p
            <4>1. proc'[q] = proc[q]
                BY <1>2, <3>2, <3>3
            <4>. QED
                BY <3>1, <4>1 DEF Holds
        <3>. QED
            BY <3>1, <3>3
    <2>. QED
        BY <1>1, <1>4, <2>1, <2>2 DEF TaskOK
<1>5. "execute" \notin down'
    BY ExecKnows DEF Growing
<1>. QED
    BY <1>3, <1>4, <1>5 DEF TaskOK, Reviewed, SameStatus

(* A step of a consumer that leaves the row of its task alone.             *)
LEMMA ExecMoves ==
    ASSUME TypeInv, ReviewInv, NEW p \in ExecSlots, proc[p].pc # "free", NEW t, t = TaskOf(p),
           Growing, OnlyProc(p), OnlyTask(t), SameStatus(t), Lost(p, t), ExecOK(p)',
           proc[p].pc = "RejectLetter" => t \in dead' \/ ~Single',
           Holds(p, t) => Holds(p, t)' \/ Broken({"Crash", "Reject"})',
           proc'[p].pc \in Executing \union {"Reject"} =>
             proc'[p].task = t /\ (Holds(p, t) \/ Broken({"Claim"})')
    PROVE  ReviewInv'
<1>1. /\ p \in Procs /\ p \notin Deliveries \union IngestSlots \union Replays
      /\ t \in Tasks /\ t = proc[p].task
    BY ExecKnows
<1>2. TaskOK(t)'
    BY SameTaskOK
<1>3. Written(p, t)
    BY DEF Written, SameStatus
<1>4. \A u \in Tasks : Holds(p, u)' => u = t /\ (Holds(p, t) \/ Broken({"Claim"})')
    BY DEF Holds
<1>. QED
    BY <1>1, <1>2, <1>3, <1>4, StepKeeps

RowsSame == UNCHANGED <<task, ran>> /\ \A u : Trace(u) \in blobs' <=> Trace(u) \in blobs
LEMMA SameRows ==
    ASSUME RowsSame, NEW p, NEW t
    PROVE  /\ OnlyTask(t) /\ task' = task /\ SameStatus(t)
           /\ Lost(p, t) /\ Written(p, t)
BY DEF RowsSame, OnlyTask, Lost, Written, SameStatus

LEMMA ExecReceives ==
    ASSUME TypeInv, ReviewInv, NEW p \in ExecSlots, Receive(p)
    PROVE  ReviewInv'
<1>. DEFINE t == TaskOf(p)
<1>1. proc[p].pc = "queued" /\ "Claim" \in Pcs
    BY DEF Receive, At, Pcs, Steps, ExecSteps
<1>2. /\ p \in Procs /\ t = proc[p].task /\ proc[p].kind = "exec" /\ ExecOK(p)
      /\ "execute" \notin down /\ task[t].status # "none"
    BY <1>1, ExecKnows
<1>3. Go(p, "Claim") /\ RowsSame /\ Growing /\ dead' = dead
    BY <1>2 DEF Receive, RowsSame, Growing, taskVars, historyVars, fixedVars
<1>4. OnlyProc(p) /\ proc'[p].pc = "Claim" /\ proc'[p].task = proc[p].task
    BY <1>1, <1>2, <1>3, GoOnly
<1>5. OnlyTask(t) /\ task' = task /\ Lost(p, t) /\ SameStatus(t)
    BY <1>3, SameRows
<1>. HIDE DEF t
<1>6. ExecOK(p)'
    BY <1>2, <1>3, <1>4, <1>5
       DEF ExecOK, Has, Growing, Executing, Undoing, RecordSteps, RunFails
<1>7. ~Holds(p, t)
    BY <1>1 DEF Holds, Executing, RecordSteps
<1>. QED
    BY <1>1, <1>3, <1>4, <1>5, <1>6, <1>7, ExecMoves DEF t, Executing, RecordSteps

(* It records what it did.                                                 *)
LEMMA ExecRecords ==
    ASSUME TypeInv, ReviewInv, NEW p \in ExecSlots,
           PutTrace(p) \/ InsertRun(p) \/ UndoRun(p) \/ UndoTrace(p)
    PROVE  ReviewInv'
<1>. SUFFICES ASSUME NEW t, t = TaskOf(p) PROVE ReviewInv'
    OBVIOUS
<1>1. proc[p].pc \in {"PutTrace", "InsertRun", "UndoRun", "UndoTrace"} /\ proc[p].pc # "free"
    BY DEF PutTrace, InsertRun, UndoRun, UndoTrace, At
<1>2. /\ p \in Procs /\ t = proc[p].task /\ proc[p].kind = "exec" /\ ExecOK(p)
      /\ "execute" \notin down /\ task[t].status # "none" /\ t \in Tasks
    BY <1>1, ExecKnows
<1>3. Growing /\ task' = task /\ failed' = failed /\ dead' = dead /\ SameStatus(t)
    BY DEF PutTrace, InsertRun, UndoRun, UndoTrace, Growing, taskVars, historyVars, fixedVars,
           SameStatus
<1>4. {"InsertRun", "Review", "UndoTrace", "Reject"} \subseteq Pcs
    BY DEF Pcs, Steps, RecordSteps, ExecSteps
<1>5. Holds(p, t)
    BY <1>1, <1>2 DEF Holds, Executing, RecordSteps
<1>6. CASE PutTrace(p)
    <2>1. /\ proc[p].pc = "PutTrace" /\ Go(p, "InsertRun") /\ ran' = ran
          /\ blobs' = blobs \union {Trace(t)}
        BY <1>6 DEF PutTrace, At, taskVars
    <2>2. OnlyProc(p) /\ proc'[p].pc = "InsertRun" /\ proc'[p].task = t
        BY <1>2, <1>4, <2>1, GoOnly
    <2>3. OnlyTask(t) /\ Lost(p, t) /\ Traced(t)'
        BY <1>3, <2>1 DEF OnlyTask, Lost, Traced, Trace
    <2>4. ExecOK(p)'
        <3>1. Traced(proc[p].task)' /\ proc'[p].task = proc[p].task
            BY <1>2, <2>2, <2>3
        <3>. QED
            BY <1>2, <1>3, <2>1, <2>2, <2>3
               DEF ExecOK, Has, Growing, Executing, Undoing, RecordSteps, RunFails, Reviewed, Broken
    <2>5. Holds(p, t)'
        BY <2>2 DEF Holds, Executing, RecordSteps
    <2>. QED
        BY <1>1, <1>3, <1>5, <2>2, <2>3, <2>4, <2>5, ExecMoves
<1>7. CASE InsertRun(p)
    <2>1. /\ proc[p].pc = "InsertRun" /\ Go(p, "Review") /\ ran' = ran \union {t}
          /\ blobs' = blobs
        BY <1>7 DEF InsertRun, At
    <2>2. OnlyProc(p) /\ proc'[p].pc = "Review" /\ proc'[p].task = t
        BY <1>2, <1>4, <2>1, GoOnly
    <2>3. OnlyTask(t) /\ Lost(p, t) /\ t \in ran'
        BY <1>3, <2>1 DEF OnlyTask, Lost
    <2>4. ExecOK(p)'
        BY <1>2, <1>3, <2>1, <2>2, <2>3
           DEF ExecOK, Has, Growing, Executing, Undoing, RecordSteps, RunFails, Reviewed, Broken,
               Traced, Single
    <2>5. Holds(p, t)'
        BY <2>2 DEF Holds, Executing, RecordSteps
    <2>. QED
        BY <1>1, <1>3, <1>5, <2>2, <2>3, <2>4, <2>5, ExecMoves
<1>8. CASE UndoRun(p)
    <2>1. /\ proc[p].pc = "UndoRun" /\ Go(p, "UndoTrace") /\ ran' = ran \ {t}
          /\ blobs' = blobs
        BY <1>8 DEF UndoRun, At
    <2>2. OnlyProc(p) /\ proc'[p].pc = "UndoTrace" /\ proc'[p].task = t
        BY <1>2, <1>4, <2>1, GoOnly
    <2>3. OnlyTask(t) /\ Lost(p, t)
        BY <1>2, <1>3, <2>1 DEF OnlyTask, Lost, Undoing
    <2>4. ExecOK(p)'
        BY <1>2, <1>3, <2>1, <2>2
           DEF ExecOK, Has, Growing, Executing, Undoing, RecordSteps, RunFails, Reviewed, Broken
    <2>5. Holds(p, t)'
        BY <2>2 DEF Holds, Executing, RecordSteps
    <2>. QED
        BY <1>1, <1>3, <1>5, <2>2, <2>3, <2>4, <2>5, ExecMoves
<1>9. CASE UndoTrace(p)
    <2>1. /\ proc[p].pc = "UndoTrace" /\ Go(p, "Reject") /\ ran' = ran
          /\ blobs' = blobs \ {Trace(t)}
        BY <1>2, <1>9 DEF UndoTrace, At, FailReview, taskVars
    <2>2. OnlyProc(p) /\ proc'[p].pc = "Reject" /\ proc'[p].task = t
        BY <1>2, <1>4, <2>1, GoOnly
    <2>3. OnlyTask(t) /\ Lost(p, t)
        BY <1>2, <1>3, <2>1 DEF OnlyTask, Lost, Undoing, Trace
    <2>4. ExecOK(p)'
        BY <1>2, <1>3, <2>1, <2>2
           DEF ExecOK, Has, Growing, Executing, Undoing, RecordSteps, RunFails, ExecFails, Reviewed,
               Broken
    <2>5. Holds(p, t)'
        BY <2>2 DEF Holds
    <2>. QED
        BY <1>1, <1>3, <1>5, <2>2, <2>3, <2>4, <2>5, ExecMoves
<1>. QED
    BY <1>6, <1>7, <1>8, <1>9

(* It writes the status of its task.                                       *)
LEMMA SetReviewIs ==
    ASSUME TypeInv, NEW p, TaskOf(p) \in Tasks, NEW b, SetReview(p, b)
    PROVE  /\ task'[TaskOf(p)].status = "needs_review" /\ task'[TaskOf(p)].result = b
           /\ \A u \in Tasks : u # TaskOf(p) => task'[u] = task[u]
BY DEF TypeInv, RowsInv, TaskTypes, TaskType, SetReview

LEMMA ExecReviews ==
    ASSUME TypeInv, ReviewInv, NEW p \in ExecSlots, Review(p)
    PROVE  ReviewInv'
<1>. SUFFICES ASSUME NEW t, t = TaskOf(p) PROVE ReviewInv'
    OBVIOUS
<1>1. proc[p].pc = "Review"
    BY DEF Review, At
<1>2. /\ p \in Procs /\ t = proc[p].task /\ proc[p].kind = "exec" /\ ExecOK(p)
      /\ "execute" \notin down /\ task[t].status # "none" /\ t \in Tasks
      /\ p \notin Deliveries \union IngestSlots \union Replays
    BY <1>1, ExecKnows
<1>3. SetReview(p, TRUE) /\ Put(p, IdleProc) /\ dead' = dead
    BY <1>2 DEF Review, AfterReview
<1>4. Growing /\ failed' = failed /\ ran' = ran /\ blobs' = blobs
    BY <1>3 DEF Review, Growing, historyVars, fixedVars
<1>5. /\ task'[t].status = "needs_review" /\ task'[t].result = TRUE
      /\ \A u \in Tasks : u # t => task'[u] = task[u]
    BY <1>2, <1>3, SetReviewIs
<1>6. OnlyTask(t) /\ Lost(p, t)
    BY <1>4, <1>5 DEF OnlyTask, Lost
<1>7. OnlyProc(p) /\ proc'[p].pc = "free"
    <2>1. IdleProc.pc = "free"
        BY DEF IdleProc
    <2>. QED
        BY <1>2, <1>3, <2>1, PutOnly
<1>8. Written(p, t)
    BY <1>1, <1>2, <1>5 DEF Written, Holds, Executing, RecordSteps
<1>9. TaskOK(t)'
    <2>1. Single' => t \in ran' /\ Trace(t) \in blobs'
        BY <1>1, <1>2, <1>4 DEF ExecOK, Single, Traced, RunFails
    <2>2. "execute" \notin down'
        BY <1>2, <1>4 DEF Growing
    <2>. QED
        BY <1>5, <2>1, <2>2 DEF TaskOK, Accounted, Traced, Reviewed
<1>10. ExecOK(p)'
    BY <1>7 DEF ExecOK
<1>11. \A u \in Tasks : ~Holds(p, u)'
    BY <1>7 DEF Holds, Executing, RecordSteps
<1>. QED
    BY <1>1, <1>2, <1>4, <1>6, <1>7, <1>8, <1>9, <1>10, <1>11, StepKeeps

LEMMA ExecClaims ==
    ASSUME TypeInv, ReviewInv, NEW p \in ExecSlots, Claim(p)
    PROVE  ReviewInv'
<1>. SUFFICES ASSUME NEW t, t = TaskOf(p) PROVE ReviewInv'
    OBVIOUS
<1>1. proc[p].pc = "Claim" /\ "Prepare" \in Pcs
    BY DEF Claim, At, Pcs, Steps, ExecSteps
<1>2. /\ p \in Procs /\ t = proc[p].task /\ proc[p].kind = "exec" /\ ExecOK(p)
      /\ "execute" \notin down /\ task[t].status # "none" /\ t \in Tasks
      /\ p \notin Deliveries \union IngestSlots \union Replays
    BY <1>1, ExecKnows
<1>3. Growing /\ failed' = failed /\ ran' = ran /\ blobs' = blobs /\ dead' = dead
    BY DEF Claim, Growing, historyVars, fixedVars
<1>4. CASE CanClaim(t) /\ task' = [task EXCEPT ![t].status = "running"] /\ Go(p, "Prepare")
    <2>1. /\ task[t].status = "queued" /\ task'[t].status = "running"
          /\ \A u \in Tasks : u # t => task'[u] = task[u]
        BY <1>2, <1>4 DEF CanClaim, TypeInv, RowsInv, TaskTypes, TaskType
    <2>2. OnlyProc(p) /\ proc'[p].pc = "Prepare" /\ proc'[p].task = t
        BY <1>1, <1>2, <1>4, GoOnly
    <2>3. OnlyTask(t) /\ Lost(p, t) /\ Written(p, t)
        BY <1>3, <2>1 DEF OnlyTask, Lost, Written
    <2>4. Holds(p, t)' /\ \A u \in Tasks : Holds(p, u)' => u = t
        BY <2>2 DEF Holds, Executing
    <2>5. TaskOK(t)'
        BY <2>1, <2>4 DEF TaskOK, Reviewed
    <2>6. ExecOK(p)'
        BY <1>2, <1>3, <2>1, <2>2 DEF ExecOK, Has, Undoing, RunFails, Growing
    <2>. QED
        BY <1>1, <1>2, <1>3, <2>1, <2>2, <2>3, <2>4, <2>5, <2>6, StepKeeps
<1>5. CASE ~CanClaim(t) /\ task' = task /\ Put(p, IdleProc)
    <2>1. IdleProc.pc = "free"
        BY DEF IdleProc
    <2>2. OnlyProc(p) /\ proc'[p].pc = "free"
        BY <1>2, <1>5, <2>1, PutOnly
    <2>3. OnlyTask(t) /\ Lost(p, t) /\ SameStatus(t)
        BY <1>3, <1>5, SameRows DEF RowsSame
    <2>4. ExecOK(p)' /\ ~Holds(p, t)
        BY <1>1, <2>2 DEF ExecOK, Holds, Executing, RecordSteps
    <2>. QED
        BY <1>1, <1>3, <2>2, <2>3, <2>4, ExecMoves DEF Executing, RecordSteps
<1>. QED
    BY <1>4, <1>5 DEF Claim

LEMMA ExecPrepares ==
    ASSUME TypeInv, ReviewInv, NEW p \in ExecSlots, Prepare(p) \/ Reassign(p)
    PROVE  ReviewInv'
<1>. SUFFICES ASSUME NEW t, t = TaskOf(p) PROVE ReviewInv'
    OBVIOUS
<1>1. proc[p].pc \in {"Prepare", "Reassign"} /\ proc[p].pc # "free" /\ "PutTrace" \in Pcs
    BY DEF Prepare, Reassign, At, Pcs, Steps, RecordSteps
<1>2. /\ p \in Procs /\ t = proc[p].task /\ ExecOK(p) /\ proc[p] \in ProcType
      /\ "execute" \notin down /\ task[t].status # "none" /\ t \in Tasks
    BY <1>1, ExecKnows, ProcIs DEF TypeInv
<1>3. Growing /\ failed' = failed /\ ran' = ran /\ blobs' = blobs /\ dead' = dead
    BY DEF Prepare, Reassign, Growing, taskVars, historyVars, fixedVars
<1>4. SameStatus(t) /\ \A u \in Tasks : u # t => task'[u] = task[u]
    <2>1. CASE Prepare(p)
        BY <2>1 DEF Prepare, SameStatus, taskVars
    <2>2. CASE Reassign(p)
        BY <1>2, <2>2 DEF Reassign, SameStatus, TypeInv, RowsInv, TaskTypes, TaskType
    <2>. QED
        BY <2>1, <2>2
<1>5. OnlyProc(p) /\ proc'[p].task = t /\ proc'[p].pc \in {"Reassign", "PutTrace"}
    <2>1. CASE Prepare(p)
        <3>. DEFINE to == target[BoxOf(SourceOf(TaskOf(p)))]
                    s == IF to \notin {None, task[TaskOf(p)].assigned} THEN "Reassign" ELSE "PutTrace"
        <3>1. Put(p, [proc[p] EXCEPT !.pc = s, !.to = to]) /\ s \in {"Reassign", "PutTrace"}
            BY <2>1 DEF Prepare
        <3>. HIDE DEF s, to
        <3>2. OnlyProc(p) /\ proc'[p] = [proc[p] EXCEPT !.pc = s, !.to = to]
            BY <1>2, <3>1, PutOnly
        <3>. QED
            BY <1>2, <3>1, <3>2 DEF ProcType
    <2>2. CASE Reassign(p)
        BY <1>1, <1>2, <2>2, GoOnly DEF Reassign
    <2>. QED
        BY <2>1, <2>2
<1>6. OnlyTask(t) /\ Lost(p, t)
    BY <1>3, <1>4 DEF OnlyTask, Lost
<1>7. Holds(p, t) /\ Holds(p, t)'
    BY <1>1, <1>2, <1>5 DEF Holds, Executing, RecordSteps
<1>8. ExecOK(p)'
    BY <1>1, <1>2, <1>3, <1>4, <1>5
       DEF ExecOK, Has, Undoing, RunFails, Growing, SameStatus, Executing, RecordSteps, Reviewed,
           Broken
<1>. QED
    BY <1>1, <1>3, <1>4, <1>5, <1>6, <1>7, <1>8, ExecMoves

(* The catch block.                                                        *)
LEMMA ExecRejects ==
    ASSUME TypeInv, ReviewInv, NEW p \in ExecSlots, Reject(p)
    PROVE  ReviewInv'
<1>. SUFFICES ASSUME NEW t, t = TaskOf(p) PROVE ReviewInv'
    OBVIOUS
<1>1. proc[p].pc = "Reject" /\ "RejectLetter" \in Pcs
    BY DEF Reject, At, Pcs, Steps, ExecSteps
<1>2. /\ p \in Procs /\ t = proc[p].task /\ ExecOK(p)
      /\ "execute" \notin down /\ task[t].status # "none" /\ t \in Tasks
      /\ p \notin Deliveries \union IngestSlots \union Replays
    BY <1>1, ExecKnows
<1>3. SetReview(p, FALSE) /\ Go(p, "RejectLetter") /\ dead' = dead
    BY DEF Reject
<1>4. Growing /\ failed' = failed /\ ran' = ran /\ blobs' = blobs
    BY <1>3 DEF Reject, Growing, historyVars, fixedVars
<1>5. /\ task'[t].status = "needs_review"
      /\ \A u \in Tasks : u # t => task'[u] = task[u]
    BY <1>2, <1>3, SetReviewIs
<1>6. OnlyTask(t) /\ Lost(p, t)
    BY <1>4, <1>5 DEF OnlyTask, Lost
<1>7. OnlyProc(p) /\ proc'[p].pc = "RejectLetter" /\ proc'[p].task = t
    BY <1>1, <1>2, <1>3, GoOnly
<1>8. Written(p, t)
    BY <1>1, <1>2, <1>5 DEF Written, Holds
<1>9. TaskOK(t)'
    <2>1. Rejecting(t)' /\ "execute" \notin down'
        BY <1>2, <1>4, <1>7 DEF Rejecting, Growing
    <2>. QED
        BY <1>5, <2>1 DEF TaskOK
<1>10. ExecOK(p)'
    BY <1>1, <1>2, <1>4, <1>5, <1>7
       DEF ExecOK, Has, Executing, RecordSteps, Undoing, RunFails, Growing, Broken
<1>11. \A u \in Tasks : ~Holds(p, u)'
    BY <1>7 DEF Holds, Executing, RecordSteps
<1>. QED
    BY <1>1, <1>2, <1>4, <1>6, <1>7, <1>8, <1>9, <1>10, <1>11, StepKeeps

LEMMA ExecLetter ==
    ASSUME TypeInv, ReviewInv, NEW p \in ExecSlots, RejectLetter(p)
    PROVE  ReviewInv'
<1>. SUFFICES ASSUME NEW t, t = TaskOf(p) PROVE ReviewInv'
    OBVIOUS
<1>1. proc[p].pc = "RejectLetter" /\ IdleProc.pc = "free"
    BY DEF RejectLetter, At, IdleProc
<1>2. p \in Procs
    BY <1>1, ExecKnows
<1>3. Growing /\ RowsSame /\ t \in dead'
    BY DEF RejectLetter, Growing, RowsSame, historyVars, fixedVars, taskVars
<1>4. OnlyProc(p) /\ proc'[p].pc = "free"
    BY <1>1, <1>2, PutOnly DEF RejectLetter
<1>5. ExecOK(p)' /\ ~Holds(p, t)
    BY <1>1, <1>4 DEF ExecOK, Holds, Executing, RecordSteps
<1>. QED
    BY <1>1, <1>3, <1>4, <1>5, SameRows, ExecMoves DEF Executing, RecordSteps

(* A call that throws, or the death of the consumer.                       *)
LEMMA Breaks ==
    ASSUME NEW s, failed' = failed \union {s}, NEW S, s \in S
    PROVE  Broken(S)'
BY DEF Broken

LEMMA BreaksTwo ==
    ASSUME NEW s, failed' = failed \union {s}, NEW S, s \notin S, Broken(S)
    PROVE  ~Single'
BY DEF Broken, Single

LEMMA RetriedIs ==
    ASSUME NEW p, proc[p].kind = "exec"
    PROVE  /\ Retried(p).pc \in {"queued", "free"}
           /\ Retried(p).pc = "queued" => Retried(p).task = proc[p].task
BY DEF Retried, IdleProc

LEMMA ExecFailing ==
    ASSUME TypeInv, ReviewInv, NEW p \in ExecSlots, FailRecord(p) \/ FailExec(p)
    PROVE  ReviewInv'
<1>. SUFFICES ASSUME NEW t, t = TaskOf(p) PROVE ReviewInv'
    OBVIOUS
<1>. DEFINE s == proc[p].pc
<1>1. s \in RecordSteps \union ExecSteps /\ s # "free"
    BY DEF FailRecord, FailExec, At, RecordSteps, ExecSteps
<1>2. /\ p \in Procs /\ t = proc[p].task /\ ExecOK(p) /\ proc[p].kind = "exec"
      /\ "execute" \notin down /\ task[t].status # "none" /\ t \in Tasks
    BY <1>1, ExecKnows
<1>3. /\ Growing /\ RowsSame /\ failed' = failed \union {s} /\ dead' = dead
    BY DEF FailRecord, FailExec, Failed, Record, Growing, RowsSame, taskVars, fixedVars
<1>4. OnlyTask(t) /\ Lost(p, t) /\ SameStatus(t) /\ task' = task
    BY <1>3, SameRows
<1>5. {"UndoRun", "UndoTrace", "Reject", "RejectLetter"} \subseteq Pcs
    BY DEF Pcs, Steps, RecordSteps, ExecSteps
<1>6. \/ s \in {"PutTrace", "UndoTrace", "Claim", "Prepare", "Reassign"} /\ Go(p, "Reject")
      \/ s \in {"InsertRun", "Review"} /\ Go(p, "UndoRun")
      \/ s = "UndoRun" /\ Go(p, "UndoTrace")
      \/ s = "Reject" /\ Go(p, "RejectLetter")
      \/ s = "RejectLetter" /\ Put(p, Retried(p))
    BY <1>2 DEF FailRecord, FailExec, At, FailReview
<1>. HIDE DEF s
<1>7. CASE s \in {"PutTrace", "UndoTrace", "Claim", "Prepare", "Reassign"} /\ Go(p, "Reject")
    <2>1. OnlyProc(p) /\ proc'[p].pc = "Reject" /\ proc'[p].task = t
        BY <1>2, <1>5, <1>7, GoOnly
    <2>2. Broken(ExecFails)'
        <3>1. CASE s = "UndoTrace"
            <4>1. Broken(RunFails)
                BY <1>2, <3>1 DEF ExecOK, Undoing, s
            <4>. QED
                BY <1>3, <4>1 DEF Broken, RunFails, ExecFails
        <3>2. CASE s # "UndoTrace"
            BY <1>3, <1>7, <3>2, Breaks DEF ExecFails
        <3>. QED
            BY <3>1, <3>2
    <2>3. s = "Claim" \/ Holds(p, t)
        BY <1>2, <1>7 DEF Holds, Executing, RecordSteps, s
    <2>4. s = "Claim" => Broken({"Claim"})'
        BY <1>3, Breaks
    <2>5. task'[t].status # "queued" \/ Broken({"Claim"})'
        BY <1>2, <1>4, <1>7, <2>4 DEF ExecOK, Executing, RecordSteps, Reviewed, s
    <2>6. ExecOK(p)'
        BY <1>2, <1>3, <1>4, <2>1, <2>2, <2>5
           DEF ExecOK, Has, Executing, RecordSteps, Undoing, RunFails, Growing
    <2>7. Holds(p, t)'
        BY <2>1 DEF Holds
    <2>. QED
        BY <1>1, <1>3, <1>4, <1>7, <2>1, <2>3, <2>4, <2>6, <2>7, ExecMoves DEF s
<1>8. CASE (s \in {"InsertRun", "Review"} /\ Go(p, "UndoRun")) \/ (s = "UndoRun" /\ Go(p, "UndoTrace"))
    <2>1. OnlyProc(p) /\ proc'[p].pc \in Undoing /\ proc'[p].task = t
        BY <1>2, <1>5, <1>8, GoOnly DEF Undoing
    <2>2. Broken(RunFails)'
        <3>1. CASE s = "UndoRun"
            <4>1. Broken(RunFails)
                BY <1>2, <3>1 DEF ExecOK, Undoing, s
            <4>. QED
                BY <1>3, <4>1 DEF Broken
        <3>2. CASE s # "UndoRun"
            BY <1>3, <1>8, <3>2, Breaks DEF RunFails
        <3>. QED
            BY <3>1, <3>2
    <2>3. Holds(p, t) /\ Holds(p, t)' /\ s \in Executing
        BY <1>2, <1>8, <2>1 DEF Holds, Executing, RecordSteps, Undoing, s
    <2>4. \/ task'[t].status = "running"
          \/ task'[t].status = "needs_review" /\ (t \in dead' \/ Broken({"Claim"})')
        <3>1. \/ task[t].status = "running"
              \/ task[t].status = "needs_review" /\ (t \in dead \/ Broken({"Claim"}))
            BY <1>1, <1>2, <2>3 DEF ExecOK, Reviewed, s
        <3>2. Broken({"Claim"}) => Broken({"Claim"})'
            BY <1>3 DEF Broken
        <3>. QED
            BY <1>3, <1>4, <3>1, <3>2
    <2>5. ExecOK(p)'
        BY <1>2, <1>3, <1>4, <2>1, <2>2, <2>4
           DEF ExecOK, Has, Reviewed, Undoing, RunFails, Growing
    <2>. QED
        BY <1>1, <1>3, <1>4, <1>8, <2>1, <2>3, <2>5, ExecMoves DEF s
<1>9. CASE s = "Reject" /\ Go(p, "RejectLetter")
    <2>1. OnlyProc(p) /\ proc'[p].pc = "RejectLetter" /\ proc'[p].task = t
        BY <1>2, <1>5, <1>9, GoOnly
    <2>2. Broken(ExecFails)' /\ Broken({"Crash", "Reject"})'
        <3>1. Broken(ExecFails)
            BY <1>2, <1>9 DEF ExecOK, s
        <3>. QED
            BY <1>3, <1>9, <3>1, Grown, Breaks
    <2>3. ExecOK(p)'
        BY <1>2, <1>3, <1>4, <2>1, <2>2
           DEF ExecOK, Has, Executing, RecordSteps, Undoing, RunFails, Growing
    <2>. QED
        BY <1>1, <1>3, <1>4, <1>9, <2>1, <2>2, <2>3, ExecMoves DEF s, Executing, RecordSteps
<1>10. CASE s = "RejectLetter" /\ Put(p, Retried(p))
    <2>1. OnlyProc(p) /\ proc'[p] = Retried(p)
        BY <1>2, <1>10, PutOnly
    <2>2. proc'[p].pc \in {"queued", "free"} /\ (proc'[p].pc = "queued" => proc'[p].task = t)
        BY <1>2, <2>1, RetriedIs
    <2>3. ~Single'
        <3>1. Broken(ExecFails) /\ s \notin ExecFails
            BY <1>2, <1>10 DEF ExecOK, ExecFails, RunFails, s
        <3>. QED
            BY <1>3, <3>1, BreaksTwo
    <2>4. ExecOK(p)'
        BY <1>2, <1>3, <1>4, <2>2
           DEF ExecOK, Has, Executing, RecordSteps, Undoing, RunFails, Growing
    <2>5. ~Holds(p, t)
        BY <1>10 DEF Holds, Executing, RecordSteps, s
    <2>. QED
        BY <1>1, <1>3, <1>4, <1>10, <2>1, <2>2, <2>3, <2>4, <2>5, ExecMoves
           DEF s, Executing, RecordSteps
<1>. QED
    BY <1>6, <1>7, <1>8, <1>9, <1>10

LEMMA ExecCrash ==
    ASSUME TypeInv, ReviewInv, NEW p \in ExecSlots, Crash(p)
    PROVE  ReviewInv'
<1>. SUFFICES ASSUME NEW t, t = TaskOf(p) PROVE ReviewInv'
    OBVIOUS
<1>1. proc[p].pc # "free"
    BY DEF Crash, Running, Steps, ReceiveSteps, ThreadSteps, StoreSteps, FileSteps, TaskSteps,
           RecordSteps, ExecSteps, ReplaySteps
<1>2. /\ p \in Procs /\ t = proc[p].task /\ ExecOK(p) /\ proc[p].kind = "exec"
      /\ "execute" \notin down /\ task[t].status # "none" /\ t \in Tasks
      /\ p \notin Deliveries \union IngestSlots \union Replays
    BY <1>1, ExecKnows
<1>3. Put(p, Retried(p))
    BY <1>2 DEF Crash
<1>4. Growing /\ RowsSame /\ failed' = failed \union {"Crash"} /\ dead' = dead
    BY DEF Crash, Growing, RowsSame, taskVars, fixedVars
<1>5. OnlyTask(t) /\ Lost(p, t) /\ SameStatus(t) /\ task' = task
    BY <1>4, SameRows
<1>6. OnlyProc(p) /\ proc'[p] = Retried(p)
    BY <1>2, <1>3, PutOnly
<1>7. proc'[p].pc \in {"queued", "free"} /\ (proc'[p].pc = "queued" => proc'[p].task = t)
    BY <1>2, <1>6, RetriedIs
<1>8. Broken({"Crash", "Reject"})'
    BY <1>4, Breaks
<1>9. proc[p].pc = "RejectLetter" => ~Single'
    <2>1. ASSUME proc[p].pc = "RejectLetter" PROVE Broken(ExecFails) /\ "Crash" \notin ExecFails
        BY <1>1, <1>2, <2>1 DEF ExecOK, ExecFails, RunFails
    <2>. QED
        BY <1>4, <2>1, BreaksTwo
<1>10. ExecOK(p)'
    BY <1>2, <1>4, <1>5, <1>7
       DEF ExecOK, Has, Executing, RecordSteps, Undoing, RunFails, Growing
<1>. QED
    BY <1>1, <1>4, <1>5, <1>6, <1>7, <1>8, <1>9, <1>10, ExecMoves DEF Executing, RecordSteps

(* A consumer of agent-execute takes no step but its own.                  *)
LEMMA ExecOnly ==
    ASSUME TypeInv, NEW p \in ExecSlots, Process(p) \/ Failure(p)
    PROVE  \/ Receive(p) \/ RecordStep(p) \/ ExecStep(p)
           \/ FailRecord(p) \/ FailExec(p) \/ Crash(p)
<1>1. p \in Procs /\ p \notin Deliveries \union IngestSlots \union Replays
    BY Ranks
<1>2. proc[p].pc \in {"free", "queued"} \union ExecSteps \union RecordSteps
    BY <1>1, ProcIs DEF TypeInv, InExec
<1>3. proc[p].pc \notin ReceiveSteps \union ThreadSteps \union StoreSteps \union FileSteps
        \union TaskSteps \union ReplaySteps \union {"again", "Letter", "Bounce"}
    BY <1>2 DEF ReceiveSteps, ThreadSteps, StoreSteps, FileSteps, TaskSteps, RecordSteps,
       ExecSteps, ReplaySteps
<1>4. ~Deliver(p) /\ ~Replay(p)
    BY <1>1, CallsAre DEF Deliver, Replay, TypeInv, RowsInv, WorldTypes
<1>5. ~(ReceiveStep(p) \/ ReceiveFailure(p))
    BY <1>3, <1>4 DEF ReceiveStep, ReceiveFailure, Again, Lookup, Insert, Finalize, Relook, Dispatch,
       FailRow, Bounce, FailReceive, FailDispatch, FailFailRow, At, ReceiveSteps
<1>6. ~Letter(p)
    BY <1>3 DEF Letter, At
<1>7. ~IngestStep(p)
    <2>1. ~(Read(p) \/ ThreadStep(p) \/ PutNormalized(p) \/ Normalize(p) \/ DropNormalized(p)
            \/ DropThread(p))
        BY <1>3 DEF Read, ThreadStep, FindThread, GetThread, Assign, PutNormalized, Normalize,
           DropNormalized, DropThread, At, ThreadSteps, StoreSteps
    <2>2. ~FileStep(p)
        BY <1>3 DEF FileStep, PutFiles, ReadFiles, ClearFiles, InsertFile, UndoFiles, RestoreFiles,
           DropFiles, At, StoreSteps, FileSteps
    <2>3. ~(Resolve(p) \/ Task(p) \/ FindTask(p) \/ Mark(p) \/ SendTask(p))
        BY <1>3 DEF Resolve, Task, FindTask, Mark, SendTask, At, TaskSteps
    <2>. QED
        BY <2>1, <2>2, <2>3 DEF IngestStep
<1>8. ~IngestFailure(p)
    <2>1. ~(FailIngestUndo(p) \/ FailLetter(p))
        BY <1>3 DEF FailIngestUndo, FailLetter, At, StoreSteps, FileSteps
    <2>2. Rethrown \union CaughtSteps \subseteq ThreadSteps \union StoreSteps \union FileSteps
            \union TaskSteps
        BY DEF Rethrown, CaughtSteps, ThreadSteps, StoreSteps, FileSteps, TaskSteps
    <2>3. ~FailIngestCall(p)
        BY <1>3, <2>2 DEF FailIngestCall
    <2>. QED
        BY <2>1, <2>3 DEF IngestFailure
<1>9. ~(ReplayStep(p) \/ FailReplay(p))
    BY <1>1, <1>3, <1>4 DEF ReplayStep, Reserve, ReplayTarget, SendNormalize, CreateReplay, SendReplay,
       DropReplay, Note, Complete, Release, FailReplay, At, ReplaySteps
<1>. QED
    BY <1>5, <1>6, <1>7, <1>8, <1>9 DEF Process, Failure, TaskStep, TaskFailure

LEMMA ExecStepKeeps ==
    ASSUME TypeInv, ReviewInv, NEW p \in ExecSlots, Process(p) \/ Failure(p)
    PROVE  ReviewInv'
BY ExecOnly, ExecReceives, ExecRecords, ExecReviews, ExecClaims, ExecPrepares, ExecRejects,
   ExecLetter, ExecFailing, ExecCrash DEF RecordStep, ExecStep

-----------------------------------------------------------------------------
(* A step that is about no task.                                           *)

Late == Tasked \union {"SendReplay"}
Joining == {"GetThread", "Assign", "PutNormalized", "Normalize"}
Held == Late \union Joining
Rests(p) == OnlyProc(p) /\ proc'[p].pc \notin Late
Leaves(p) == OnlyProc(p) /\ proc'[p].pc \notin Held
Aside(p) == RowsSame /\ Growing /\ Leaves(p)

LEMMA HeldIs ==
    /\ Late = {"Mark", "SendTask", "SendReplay"} \union RecordSteps
    /\ Held = {"Mark", "SendTask", "SendReplay"} \union RecordSteps
                \union {"GetThread", "Assign", "PutNormalized", "Normalize"}
BY DEF Held, Late, Joining, Tasked

(* The row of a task stays, with its run and its trace, or has a letter.   *)
LEMMA TaskStays ==
    ASSUME TypeInv, ReviewInv, NEW p \in Procs, Growing, OnlyProc(p),
           p \notin ExecSlots, NEW u \in Tasks, task'[u] = task[u],
           \/ Reviewed(u) /\ Single => u \in dead
           \/ (u \in ran => u \in ran') /\ (Trace(u) \in blobs => Trace(u) \in blobs')
    PROVE  TaskOK(u)'
<1>1. TaskOK(u)
    BY DEF ReviewInv
<1>2. \A q \in ExecSlots : (Holds(q, u) \/ (proc[q].pc = "RejectLetter" /\ proc[q].task = u))
                           => proc'[q] = proc[q]
    <2>. SUFFICES ASSUME NEW q \in ExecSlots, proc[q].pc # "free", proc[q].task = u
                  PROVE  proc'[q] = proc[q]
        BY DEF Holds, Executing, RecordSteps
    <2>. QED
        BY Ranks DEF OnlyProc, At
<1>3. Rejecting(u) => Rejecting(u)'
    BY <1>2 DEF Rejecting
<1>4. (\E q \in ExecSlots : Holds(q, u)) => (\E q \in ExecSlots : Holds(q, u)')
    BY <1>2 DEF Holds
<1>. QED
    BY <1>1, <1>3, <1>4, Grown DEF TaskOK, Reviewed, Accounted, Growing, Traced

LEMMA RestsKeep ==
    ASSUME TypeInv, ReviewInv, NEW p \in Procs, p \notin ExecSlots, RowsSame, Growing, Rests(p)
    PROVE  ReviewInv'
<1>0. RowsSame /\ Growing /\ OnlyProc(p) /\ proc'[p].pc \notin Late
    BY DEF Rests
<1>1. p \in Deliveries \union IngestSlots => IngestOK(p)'
    <2>1. proc'[p].pc \notin Tasked \union RecordSteps \union Undoing
        BY <1>0, HeldIs DEF Tasked, Undoing, RecordSteps
    <2>. QED
        BY <2>1 DEF IngestOK, Tasked
<1>2. p \in Replays => ReplayOK(p)'
    BY <1>0, HeldIs DEF ReplayOK
<1>3. ASSUME NEW t \in Tasks PROVE ReviewInv'
    <2>1. OnlyTask(t) /\ task' = task /\ Lost(p, t) /\ Written(p, t)
        BY <1>0, SameRows
    <2>2. TaskOK(t)'
        BY <1>0, TaskStays DEF RowsSame
    <2>. QED
        BY <1>0, <1>1, <1>2, <2>1, <2>2, StepKeeps
<1>4. CASE Tasks = {}
    <2>1. Replays = {} /\ Messages = {}
        BY <1>4, TaskIs
    <2>2. ASSUME NEW q \in ExecSlots PROVE ExecOK(q)'
        <3>1. proc[q].pc = "free"
            BY <1>4, ExecTask DEF TypeInv
        <3>2. CASE proc'[q] = proc[q]
            BY <3>1, <3>2 DEF ExecOK
        <3>3. CASE proc'[q] # proc[q]
            <4>1. /\ proc'[q].pc = "queued" /\ "execute" \notin down'
                  /\ task'[proc'[q].task].status # "none"
                BY <1>0, <3>3, Ranks DEF OnlyProc, Growing
            <4>. QED
                BY <4>1 DEF ExecOK, Has, Executing, RecordSteps, Undoing, RunFails
        <3>. QED
            BY <3>2, <3>3
    <2>3. ASSUME NEW q \in Deliveries \union IngestSlots PROVE IngestOK(q)'
        <3>1. CASE q = p
            BY <1>1, <3>1
        <3>2. CASE q # p /\ proc'[q] = proc[q]
            <4>1. proc[q].pc \notin Tasked
                BY <1>4, IngestTask DEF TypeInv
            <4>. QED
                BY <3>2, <4>1 DEF IngestOK, Tasked, Undoing, RecordSteps
        <3>3. CASE q # p /\ proc'[q] # proc[q]
            <4>1. proc'[q].pc = "queued"
                BY <1>0, <3>3, Ranks DEF OnlyProc
            <4>. QED
                BY <4>1 DEF IngestOK, Tasked, RecordSteps, Undoing
        <3>. QED
            BY <3>1, <3>2, <3>3
    <2>. QED
        BY <1>0, <1>4, <2>1, <2>2, <2>3, Grown DEF ReviewInv, OneHolder
<1>. QED
    BY <1>3, <1>4

LEMMA AsideKeeps ==
    ASSUME TypeInv, ReviewInv, NEW p \in Procs, p \notin ExecSlots, Aside(p)
    PROVE  ReviewInv'
BY RestsKeep DEF Aside, Leaves, Rests, Held

LEMMA PutAside ==
    ASSUME TypeInv, NEW p \in Procs, NEW x, Put(p, x)
    PROVE  (x.pc \notin Held => Leaves(p)) /\ (x.pc \notin Late => Rests(p))
BY PutOnly DEF Leaves, Rests

LEMMA GoAside ==
    ASSUME TypeInv, NEW p \in Procs, NEW s \in Pcs, Go(p, s)
    PROVE  (s \notin Held => Leaves(p)) /\ (s \notin Late => Rests(p))
BY GoOnly DEF Leaves, Rests

LEMMA PcIs ==
    ASSUME NEW r \in ProcType, NEW s
    PROVE  [r EXCEPT !.pc = s].pc = s
BY DEF ProcType

(* What is put on a queue.                                                 *)
LEMMA EnqueueOnly ==
    ASSUME TypeInv, NEW p \in Procs, ~At(p, "free"), NEW x
    PROVE  /\ \A m : Enqueue(IngestSlots, "job", Job(m), p, x) => OnlyProc(p) /\ proc'[p] = x
           /\ \A t : Enqueue(ExecSlots, "exec", TaskJob(t), p, x)
                     /\ "execute" \notin down /\ task'[t].status # "none"
                     => OnlyProc(p) /\ proc'[p] = x
<1>1. ASSUME NEW m, Enqueue(IngestSlots, "job", Job(m), p, x)
      PROVE  OnlyProc(p) /\ proc'[p] = x
    <2>1. PICK q \in IngestSlots :
               /\ At(q, "free") /\ proc' = [proc EXCEPT ![q] = Queued("job", Job(m)), ![p] = x]
        BY <1>1 DEF Enqueue
    <2>2. Queued("job", Job(m)).pc = "queued" /\ q # p
        BY <2>1 DEF Queued, Job, IdleProc
    <2>. QED
        BY <2>1, <2>2, Ranks DEF OnlyProc, TypeInv, ProcsOK
<1>2. ASSUME NEW t, Enqueue(ExecSlots, "exec", TaskJob(t), p, x),
             "execute" \notin down, task'[t].status # "none"
      PROVE  OnlyProc(p) /\ proc'[p] = x
    <2>1. PICK q \in ExecSlots :
               /\ At(q, "free") /\ proc' = [proc EXCEPT ![q] = Queued("exec", TaskJob(t)), ![p] = x]
        BY <1>2 DEF Enqueue
    <2>2. /\ Queued("exec", TaskJob(t)).pc = "queued" /\ Queued("exec", TaskJob(t)).task = t
          /\ q # p
        BY <2>1 DEF Queued, TaskJob, IdleProc
    <2>3. proc'[q] = Queued("exec", TaskJob(t)) /\ proc'[p] = x
          /\ \A o \in Procs : o # q /\ o # p => proc'[o] = proc[o]
        BY <2>1, <2>2, Ranks DEF TypeInv, ProcsOK
    <2>. QED
        BY <1>2, <2>1, <2>2, <2>3 DEF OnlyProc
<1>. QED
    BY <1>1, <1>2

LEMMA AfterEmailAside ==
    ASSUME NEW p
    PROVE  AfterEmail(p).pc \in {"accepted", "Lookup", "Insert"} /\ AfterEmail(p).pc \notin Held
BY HeldIs DEF AfterEmail, Started, FirstStep, IdleProc, RecordSteps

LEMMA EndIngestAside ==
    ASSUME NEW p
    PROVE  EndIngest(p).pc \notin Held
BY AfterEmailAside, HeldIs DEF EndIngest, IdleProc, RecordSteps

LEMMA FailIngestAside ==
    ASSUME TypeInv, NEW p \in Procs, FailIngest(p)
    PROVE  Leaves(p)
<1>. DEFINE s == IF proc[p].kind = "job" THEN "Letter" ELSE IF IsSmtp(p) THEN "FailRow" ELSE "Bounce"
<1>1. s \in {"Letter", "FailRow", "Bounce"} /\ Go(p, s)
    BY DEF FailIngest
<1>. HIDE DEF s
<1>2. s \in Pcs /\ s \notin Held
    BY <1>1, HeldIs DEF Pcs, Steps, ReceiveSteps, RecordSteps
<1>. QED
    BY <1>1, <1>2, GoAside

LEMMA ReceiveNames ==
    /\ {"Insert", "Finalize", "Relook", "Dispatch", "Bounce", "Read"} \subseteq Pcs
    /\ {"Insert", "Finalize", "Relook", "Dispatch", "Bounce", "Read", "Lookup", "rejected",
        "again", "bounced", "queued", "free"} \intersect Held = {}
BY HeldIs DEF Pcs, Steps, ReceiveSteps, StoreSteps, RecordSteps

(* A delivery.                                                             *)
LEMMA ReceiveQuiet ==
    ASSUME NEW p \in Procs, ReceiveStep(p) \/ ReceiveFailure(p)
    PROVE  RowsSame /\ Growing
<1>1. CASE Deliver(p) \/ Again(p) \/ Relook(p) \/ Dispatch(p)
    BY <1>1 DEF RowsSame, Growing, Deliver, Again, Relook, Dispatch, taskVars, historyVars, fixedVars
<1>2. CASE Lookup(p) \/ Bounce(p) \/ FailRow(p)
    BY <1>2 DEF RowsSame, Growing, Lookup, Bounce, FailRow, taskVars, historyVars, fixedVars
<1>3. CASE Insert(p)
    BY <1>3 DEF RowsSame, Growing, Insert, InsertRow, taskVars, historyVars, fixedVars, Raw, Trace
<1>4. CASE Finalize(p)
    BY <1>4 DEF RowsSame, Growing, Finalize, taskVars, historyVars, fixedVars, Raw, Trace
<1>5. CASE FailReceive(p)
    BY <1>5 DEF RowsSame, Growing, FailReceive, Record, taskVars, fixedVars, Raw, Trace
<1>6. CASE FailDispatch(p) \/ FailFailRow(p)
    BY <1>6 DEF RowsSame, Growing, FailDispatch, FailFailRow, Record, taskVars, fixedVars
<1>. QED
    BY <1>1, <1>2, <1>3, <1>4, <1>5, <1>6 DEF ReceiveStep, ReceiveFailure

LEMMA ResumeAside ==
    ASSUME TypeInv, NEW p \in Procs, NEW m, Resume(p, m)
    PROVE  Leaves(p)
<1>1. CASE Resumable(m)
    <2>1. Put(p, [proc[p] EXCEPT !.pc = "Dispatch", !.msg = m])
        BY <1>1 DEF Resume
    <2>2. [proc[p] EXCEPT !.pc = "Dispatch", !.msg = m].pc = "Dispatch"
        BY ProcIs DEF TypeInv, ProcType
    <2>. QED
        BY <2>1, <2>2, PutAside, ReceiveNames
<1>2. CASE ~Resumable(m)
    BY <1>2, AfterEmailAside, PutAside DEF Resume
<1>. QED
    BY <1>1, <1>2

LEMMA BouncedAside ==
    ASSUME TypeInv, NEW p \in Procs, Bounced(p)
    PROVE  Leaves(p)
<1>. DEFINE x == [IdleProc EXCEPT !.pc = IF proc[p].attempt < MaxAttempts THEN "again" ELSE "bounced",
                                  !.attempt = proc[p].attempt]
<1>1. Put(p, x)
    BY DEF Bounced
<1>2. x.pc \in {"again", "bounced"}
    BY DEF IdleProc
<1>. QED
    BY <1>1, <1>2, PutAside, ReceiveNames

LEMMA ReceiveLeaves ==
    ASSUME TypeInv, NEW p \in Procs, ReceiveStep(p) \/ ReceiveFailure(p)
    PROVE  Leaves(p)
<1>1. ASSUME NEW n, Put(p, Started(p, n)) PROVE Leaves(p)
    <2>1. Started(p, n).pc \in {"Lookup", "Insert"}
        BY DEF Started, IdleProc, FirstStep
    <2>. QED
        BY <1>1, <2>1, PutAside, ReceiveNames
<1>2. CASE Deliver(p) \/ Again(p)
    BY <1>1, <1>2 DEF Deliver, Again
<1>3. CASE Lookup(p)
    <2>1. [IdleProc EXCEPT !.pc = "rejected"].pc = "rejected"
        BY DEF IdleProc
    <2>2. Put(p, [IdleProc EXCEPT !.pc = "rejected"]) \/ (\E m : Resume(p, m)) \/ Go(p, "Insert")
        BY <1>3 DEF Lookup
    <2>. QED
        BY <2>1, <2>2, PutAside, GoAside, ResumeAside, ReceiveNames
<1>4. CASE Insert(p)
    <2>1. [proc[p] EXCEPT !.pc = "Finalize", !.msg = Mine(p)].pc = "Finalize"
        BY ProcIs DEF TypeInv, ProcType
    <2>2. Put(p, [proc[p] EXCEPT !.pc = "Finalize", !.msg = Mine(p)]) \/ Go(p, "Relook")
        BY <1>4 DEF Insert, InsertRow
    <2>. QED
        BY <2>1, <2>2, PutAside, GoAside, ReceiveNames
<1>5. CASE Finalize(p) \/ FailRow(p) \/ FailReceive(p) \/ FailDispatch(p) \/ FailFailRow(p)
    <2>1. Go(p, "Dispatch") \/ Go(p, "Bounce") \/ Go(p, "Read")
        BY <1>5 DEF Finalize, FailRow, FailReceive, FailDispatch, FailFailRow
    <2>. QED
        BY <2>1, GoAside, ReceiveNames
<1>6. CASE Relook(p)
    <2>1. (\E m : Resume(p, m)) \/ Go(p, "Bounce")
        BY <1>6 DEF Relook
    <2>. QED
        BY <2>1, GoAside, ResumeAside, ReceiveNames
<1>7. CASE Dispatch(p)
    <2>1. ~At(p, "free")
        BY <1>7 DEF Dispatch, At
    <2>2. CASE Enqueue(IngestSlots, "job", Job(proc[p].msg), p, AfterEmail(p))
        BY <2>1, <2>2, EnqueueOnly, AfterEmailAside DEF Leaves
    <2>3. CASE Go(p, "Read")
        BY <2>3, GoAside, ReceiveNames
    <2>. QED
        BY <1>7, <2>2, <2>3 DEF Dispatch
<1>8. CASE Bounce(p)
    BY <1>8, BouncedAside DEF Bounce
<1>. QED
    BY <1>2, <1>3, <1>4, <1>5, <1>6, <1>7, <1>8 DEF ReceiveStep, ReceiveFailure

(* An ingest, before it gets to the task.                                  *)
Filing(p) ==
    \/ Read(p) \/ ThreadStep(p) \/ PutNormalized(p) \/ Normalize(p) \/ DropNormalized(p)
    \/ DropThread(p) \/ FileStep(p) \/ Resolve(p)

LEMMA FilingNames ==
    LET names == {"FindThread", "DropThread",
                  "PutFiles", "DropNormalized", "ReadFiles", "ClearFiles", "InsertFile", "Resolve",
                  "UndoFiles", "RestoreFiles", "DropFiles", "Task", "FindTask"}
    IN names \subseteq Pcs /\ names \intersect Held = {}
BY HeldIs DEF Pcs, Steps, ThreadSteps, StoreSteps, FileSteps, TaskSteps, RecordSteps

LEMMA JoiningNames == Joining \subseteq Pcs /\ Joining \intersect Late = {}
BY HeldIs DEF Joining, Pcs, Steps, ThreadSteps, StoreSteps, RecordSteps

LEMMA LeavesRests == ASSUME NEW p, Leaves(p) PROVE Rests(p)
BY DEF Leaves, Rests, Held

(* It decides on the thread.                                               *)
Joins(p) == FindThread(p) \/ GetThread(p) \/ Assign(p) \/ PutNormalized(p)

LEMMA FilingQuiet ==
    ASSUME NEW p \in Procs, Filing(p)
    PROVE  RowsSame /\ Growing
<1>1. CASE Read(p) \/ ThreadStep(p) \/ Normalize(p) \/ DropThread(p)
    BY <1>1 DEF RowsSame, Growing, Read, ThreadStep, FindThread, GetThread, Assign, Normalize,
       DropThread, taskVars, historyVars, fixedVars
<1>2. CASE PutNormalized(p) \/ DropNormalized(p)
    BY <1>2 DEF RowsSame, Growing, PutNormalized, DropNormalized, taskVars, historyVars, fixedVars,
       Normal, Trace
<1>3. CASE PutFiles(p) \/ DropFiles(p)
    BY <1>3 DEF RowsSame, Growing, PutFiles, DropFiles, taskVars, historyVars, fixedVars,
       File, FileBlobs, Trace
<1>4. CASE ReadFiles(p) \/ ClearFiles(p) \/ InsertFile(p) \/ UndoFiles(p) \/ RestoreFiles(p)
    BY <1>4 DEF RowsSame, Growing, ReadFiles, ClearFiles, InsertFile, UndoFiles, RestoreFiles,
       taskVars, historyVars, fixedVars
<1>5. CASE Resolve(p)
    BY <1>5 DEF RowsSame, Growing, Resolve, taskVars, historyVars, fixedVars
<1>. QED
    BY <1>1, <1>2, <1>3, <1>4, <1>5 DEF Filing, FileStep

LEMMA ThreadLeaves ==
    ASSUME TypeInv, NEW p \in Procs, Read(p) \/ ThreadStep(p)
    PROVE  Rests(p) /\ (Joins(p) \/ Leaves(p))
<1>0. proc[p] \in ProcType
    BY ProcIs DEF TypeInv
<1>1. CASE Read(p)
    <2>. DEFINE x == [proc[p] EXCEPT !.pc = "FindThread", !.found = message[proc[p].msg].status]
    <2>1. Put(p, x) \/ FailIngest(p)
        BY <1>1 DEF Read
    <2>2. x.pc = "FindThread"
        BY <1>0 DEF ProcType
    <2>. QED
        BY <2>1, <2>2, PutAside, FailIngestAside, FilingNames, LeavesRests
<1>2. ASSUME NEW t, FoundThread(p, t) PROVE Rests(p)
    <2>. DEFINE x == [proc[p] EXCEPT !.pc = "PutNormalized", !.thread = t]
    <2>1. Put(p, x) /\ x.pc = "PutNormalized"
        BY <1>0, <1>2 DEF FoundThread, ProcType
    <2>. QED
        BY <2>1, PutAside, JoiningNames DEF Joining
<1>3. CASE FindThread(p)
    <2>. DEFINE e == It(p)
                o == CHOOSE c \in Candidates(e) : TRUE
                one == Cardinality(ExactThreads(e)) = 1
                joins == Cardinality(CandidateKeys(e)) = 1
                told == sentThread[o] # None /\ thread[sentThread[o]] # None
    <2>1. Joins(p)
        BY <1>3 DEF Joins
    <2>2. CASE one /\ \E t \in ExactThreads(e) : FoundThread(p, t)
        BY <1>2, <2>1, <2>2
    <2>3. CASE told /\ FoundThread(p, sentThread[o])
        BY <1>2, <2>1, <2>3
    <2>4. CASE ~told /\ Put(p, [proc[p] EXCEPT !.pc = "GetThread", !.out = o])
        <3>. HIDE DEF o
        <3>. DEFINE x == [proc[p] EXCEPT !.pc = "GetThread", !.out = o]
        <3>1. x.pc = "GetThread"
            BY <1>0 DEF ProcType
        <3>2. Put(p, x)
            BY <2>4
        <3>. HIDE DEF x
        <3>. QED
            BY <2>1, <3>1, <3>2, PutAside, JoiningNames DEF Joining
    <2>5. CASE Put(p, [proc[p] EXCEPT !.pc = "GetThread", !.out = None])
        <3>1. [proc[p] EXCEPT !.pc = "GetThread", !.out = None].pc = "GetThread"
            BY <1>0 DEF ProcType
        <3>. QED
            BY <2>1, <2>5, <3>1, PutAside, JoiningNames DEF Joining
    <2>. QED
        BY <1>3, <2>2, <2>3, <2>4, <2>5 DEF FindThread
<1>4. CASE GetThread(p)
    <2>1. PICK t : GotThread(p, t)
        BY <1>4 DEF GetThread
    <2>. DEFINE s == IF proc[p].out # None THEN "Assign" ELSE "PutNormalized"
                x == [proc[p] EXCEPT !.pc = s, !.thread = t]
    <2>2. Put(p, x)
        BY <2>1 DEF GotThread
    <2>3. s \in {"Assign", "PutNormalized"}
        OBVIOUS
    <2>. HIDE DEF s
    <2>4. x.pc = s
        BY <1>0 DEF ProcType
    <2>. QED
        BY <1>4, <2>2, <2>3, <2>4, PutAside, JoiningNames DEF Joining, Joins
<1>5. CASE Assign(p)
    <2>1. Go(p, "PutNormalized") \/ Go(p, "DropThread")
        BY <1>5 DEF Assign
    <2>. QED
        BY <1>5, <2>1, GoAside, FilingNames, JoiningNames, LeavesRests DEF Joining, Joins
<1>. QED
    BY <1>1, <1>3, <1>4, <1>5 DEF ThreadStep

LEMMA FilingLeaves ==
    ASSUME TypeInv, NEW p \in Procs, Filing(p)
    PROVE  Rests(p) /\ (Joins(p) \/ Leaves(p))
<1>0. proc[p] \in ProcType
    BY ProcIs DEF TypeInv
<1>4. CASE PutNormalized(p)
    <2>1. Go(p, "Normalize")
        BY <1>4 DEF PutNormalized
    <2>. QED
        BY <1>4, <2>1, GoAside, JoiningNames DEF Joining, Joins
<1>1. CASE Normalize(p) \/ DropNormalized(p) \/ PutFiles(p) \/ UndoFiles(p) \/ RestoreFiles(p)
    <2>1. \/ Go(p, "PutFiles") \/ Go(p, "DropNormalized")
          \/ Go(p, "DropThread") \/ Go(p, "ReadFiles") \/ Go(p, "RestoreFiles")
          \/ Go(p, "DropFiles")
        BY <1>1 DEF Normalize, DropNormalized, PutFiles, UndoFiles, RestoreFiles
    <2>. QED
        BY <2>1, GoAside, FilingNames, LeavesRests
<1>2. CASE DropThread(p) \/ DropFiles(p)
    BY <1>2, FailIngestAside, LeavesRests DEF DropThread, DropFiles
<1>3. CASE ReadFiles(p)
    <2>. DEFINE x == [proc[p] EXCEPT !.pc = "ClearFiles", !.rows = files[proc[p].msg]]
    <2>1. Put(p, x) /\ x.pc = "ClearFiles"
        BY <1>0, <1>3 DEF ReadFiles, ProcType
    <2>. QED
        BY <2>1, PutAside, FilingNames, LeavesRests
<1>5. CASE ClearFiles(p)
    <2>. DEFINE s == IF FilesOf(proc[p].msg) = {} THEN "Resolve" ELSE "InsertFile"
    <2>1. Put(p, [proc[p] EXCEPT !.n = 1, !.pc = s]) /\ s \in {"Resolve", "InsertFile"}
        BY <1>5 DEF ClearFiles
    <2>. HIDE DEF s
    <2>. DEFINE x == [proc[p] EXCEPT !.n = 1, !.pc = s]
    <2>2. x.pc = s /\ Put(p, x)
        BY <1>0, <2>1 DEF ProcType
    <2>. HIDE DEF x
    <2>. QED
        BY <2>1, <2>2, PutAside, FilingNames, LeavesRests
<1>6. CASE InsertFile(p)
    <2>1. CASE Go(p, "UndoFiles")
        BY <2>1, GoAside, FilingNames, LeavesRests
    <2>. DEFINE n == proc[p].n + 1
                s == IF n \in FilesOf(proc[p].msg) THEN "InsertFile" ELSE "Resolve"
    <2>2. CASE Put(p, [proc[p] EXCEPT !.n = n, !.pc = s])
        <3>1. s \in {"Resolve", "InsertFile"}
            OBVIOUS
        <3>. HIDE DEF s, n
        <3>. DEFINE x == [proc[p] EXCEPT !.n = n, !.pc = s]
        <3>2. x.pc = s /\ Put(p, x)
            BY <1>0, <2>2 DEF ProcType
        <3>. HIDE DEF x
        <3>. QED
            BY <3>1, <3>2, PutAside, FilingNames, LeavesRests
    <2>. QED
        BY <1>6, <2>1, <2>2 DEF InsertFile
<1>7. CASE Resolve(p)
    <2>. DEFINE to == target[It(p).box]
                s == IF to # None THEN "Task" ELSE "FindTask"
                x == [proc[p] EXCEPT !.pc = s, !.to = to]
    <2>1. Put(p, x) /\ s \in {"Task", "FindTask"}
        BY <1>7 DEF Resolve
    <2>. HIDE DEF s, to
    <2>2. x.pc = s
        BY <1>0 DEF ProcType
    <2>. QED
        BY <2>1, <2>2, PutAside, FilingNames, LeavesRests
<1>. QED
    BY <1>4, <1>1, <1>2, <1>3, <1>5, <1>6, <1>7, ThreadLeaves DEF Filing, FileStep

(* The queue email-ingest, and calls of an ingest that fail.               *)
LEMMA RetriedAside ==
    ASSUME NEW p
    PROVE  Retried(p).pc \in {"queued", "free"} /\ Retried(p).pc \notin Held
BY HeldIs DEF Retried, IdleProc, RecordSteps

LEMMA QueueAside ==
    ASSUME TypeInv, NEW p \in Procs, p \notin ExecSlots,
           Receive(p) \/ Letter(p) \/ FailLetter(p) \/ FailIngestUndo(p)
    PROVE  Aside(p)
<1>1. CASE Receive(p)
    <2>1. p \in IngestSlots
        BY <1>1, ProcIs, Ranks DEF TypeInv, Receive, At, Delivering, InReplay, ReceiveSteps, Work,
           ReplaySteps, ThreadSteps, StoreSteps, FileSteps, TaskSteps, RecordSteps
    <2>2. proc[p].kind = "job"
        BY <1>1, <2>1, ProcIs DEF TypeInv, InJob, Receive, At
    <2>3. Go(p, "Read") /\ RowsSame /\ Growing
        BY <1>1, <2>2 DEF Receive, RowsSame, Growing, taskVars, historyVars, fixedVars
    <2>. QED
        BY <2>3, GoAside, ReceiveNames DEF Aside
<1>2. CASE Letter(p) \/ FailLetter(p)
    <2>1. Put(p, Retried(p)) /\ RowsSame /\ Growing
        BY <1>2 DEF Letter, FailLetter, RowsSame, Growing, taskVars, fixedVars
    <2>. QED
        BY <2>1, RetriedAside, PutAside DEF Aside
<1>3. CASE FailIngestUndo(p)
    <2>1. (Go(p, "DropThread") \/ FailIngest(p)) /\ RowsSame /\ Growing
        BY <1>3 DEF FailIngestUndo, Record, RowsSame, Growing, taskVars, fixedVars
    <2>. QED
        BY <2>1, GoAside, FailIngestAside, FilingNames DEF Aside
<1>. QED
    BY <1>1, <1>2, <1>3

LEMMA FailCallAside ==
    ASSUME TypeInv, NEW p \in Procs, FailIngestCall(p), ~At(p, "SendTask")
    PROVE  Aside(p)
<1>1. RowsSame /\ Growing
    BY DEF FailIngestCall, Record, RowsSame, Growing, taskVars, fixedVars
<1>2. FailIngest(p) \/ Go(p, "DropThread") \/ Go(p, "DropNormalized") \/ Go(p, "UndoFiles")
      \/ Go(p, "DropFiles")
    BY DEF FailIngestCall, Caught, CaughtSteps, At
<1>. QED
    BY <1>1, <1>2, GoAside, FailIngestAside, FilingNames DEF Aside

LEMMA CrashAside ==
    ASSUME TypeInv, NEW p \in Procs, p \notin ExecSlots, Crash(p)
    PROVE  Aside(p)
<1>1. RowsSame /\ Growing
    BY DEF Crash, RowsSame, Growing, taskVars, fixedVars
<1>2. [IdleProc EXCEPT !.pc = "crashed", !.msg = proc[p].msg].pc = "crashed"
    BY DEF IdleProc
<1>3. "crashed" \notin Held
    BY HeldIs DEF RecordSteps
<1>4. Bounced(p) \/ Put(p, Retried(p)) \/ Answer(p, "crashed")
    BY DEF Crash
<1>. QED
    BY <1>1, <1>2, <1>3, <1>4, BouncedAside, RetriedAside, PutAside DEF Aside, Answer

(* A replay.                                                               *)
LEMMA ReplayNames ==
    /\ {"ReplayTarget", "Release", "SendNormalize", "CreateReplay", "DropReplay", "Note",
        "Complete"} \subseteq Pcs
    /\ {"ReplayTarget", "Release", "SendNormalize", "CreateReplay", "DropReplay", "Note",
        "Complete", "Reserve", "accepted", "refused"} \intersect Held = {}
BY HeldIs DEF Pcs, Steps, ReplaySteps, RecordSteps

LEMMA AnswerAside ==
    ASSUME TypeInv, NEW p \in Procs, NEW s, s \notin Held, Answer(p, s)
    PROVE  Leaves(p)
<1>1. [IdleProc EXCEPT !.pc = s, !.msg = proc[p].msg].pc = s
    BY DEF IdleProc
<1>. QED
    BY <1>1, PutAside DEF Answer

LEMMA ReplayAside ==
    ASSUME TypeInv, NEW p \in Procs,
           \/ Replay(p) \/ Reserve(p) \/ ReplayTarget(p) \/ SendNormalize(p) \/ Note(p)
           \/ Complete(p) \/ Release(p) \/ FailReplay(p)
    PROVE  Aside(p)
<1>0. proc[p] \in ProcType
    BY ProcIs DEF TypeInv
<1>1. RowsSame /\ Growing
    <2>1. CASE FailReplay(p)
        BY <2>1 DEF FailReplay, Failed, Record, RowsSame, Growing, taskVars, fixedVars
    <2>2. CASE ~FailReplay(p)
        BY <2>2 DEF Replay, Reserve, ReplayTarget, SendNormalize, Note, Complete, Release,
           RowsSame, Growing, taskVars, historyVars, fixedVars
    <2>. QED
        BY <2>1, <2>2
<1>2. CASE Replay(p)
    <2>1. ASSUME NEW k, NEW m, Asks(p, k, m) PROVE Leaves(p)
        <3>1. [IdleProc EXCEPT !.pc = "Reserve", !.kind = k, !.msg = m].pc = "Reserve"
            BY DEF IdleProc
        <3>. QED
            BY <2>1, <3>1, PutAside, ReplayNames DEF Asks
    <2>. QED
        BY <1>1, <1>2, <2>1 DEF Replay, Aside
<1>3. CASE Reserve(p) \/ Note(p) \/ Complete(p) \/ Release(p)
    <2>1. \/ Go(p, "ReplayTarget") \/ Go(p, "Complete")
          \/ Answer(p, "refused") \/ Answer(p, "accepted")
        BY <1>3 DEF Reserve, Note, Complete, Release
    <2>. QED
        BY <1>1, <2>1, GoAside, AnswerAside, ReplayNames DEF Aside
<1>4. CASE ReplayTarget(p)
    <2>. DEFINE s == IF ~CanReplay(p) THEN "Release"
                     ELSE IF Normalizes(p) THEN "SendNormalize" ELSE "CreateReplay"
                to == target[BoxOf(proc[p].msg)]
                x == [proc[p] EXCEPT !.pc = s, !.to = to]
    <2>1. Put(p, x) /\ s \in {"Release", "SendNormalize", "CreateReplay"}
        BY <1>4 DEF ReplayTarget
    <2>. HIDE DEF s, to
    <2>2. x.pc = s
        BY <1>0 DEF ProcType
    <2>. QED
        BY <1>1, <2>1, <2>2, PutAside, ReplayNames DEF Aside
<1>5. CASE SendNormalize(p)
    <2>1. ~At(p, "free")
        BY <1>5 DEF SendNormalize, At
    <2>2. [proc[p] EXCEPT !.pc = "Note"].pc = "Note"
        BY <1>0, PcIs
    <2>3. \/ Enqueue(IngestSlots, "job", Job(proc[p].msg), p, [proc[p] EXCEPT !.pc = "Note"])
          \/ Go(p, "Release")
        BY <1>5 DEF SendNormalize
    <2>4. CASE Enqueue(IngestSlots, "job", Job(proc[p].msg), p, [proc[p] EXCEPT !.pc = "Note"])
        BY <1>1, <2>1, <2>2, <2>4, EnqueueOnly, ReplayNames DEF Aside, Leaves
    <2>. QED
        BY <1>1, <2>3, <2>4, GoAside, ReplayNames DEF Aside
<1>6. CASE FailReplay(p)
    <2>1. AfterReplayThrow(proc[p].pc) \in {"Release", "DropReplay", "refused"}
        BY DEF AfterReplayThrow
    <2>2. Answer(p, "refused") \/ Go(p, "Release") \/ Go(p, "DropReplay")
        BY <1>6, <2>1 DEF FailReplay
    <2>. QED
        BY <1>1, <2>2, GoAside, AnswerAside, ReplayNames DEF Aside
<1>. QED
    BY <1>2, <1>3, <1>4, <1>5, <1>6

LEMMA SendReplayAside ==
    ASSUME TypeInv, ReviewInv, NEW p \in Procs, SendReplay(p)
    PROVE  Aside(p)
<1>1. proc[p].pc = "SendReplay" /\ ~At(p, "free")
    BY DEF SendReplay, At
<1>2. p \in Replays /\ proc[p] \in ProcType
    BY <1>1, AtReplay DEF TypeInv, ReplaySteps
<1>3. RowsSame /\ Growing /\ task' = task
    BY DEF SendReplay, RowsSame, Growing, taskVars, historyVars, fixedVars
<1>4. task'[ReplayTask(p)].status # "none"
    BY <1>1, <1>2, <1>3 DEF ReviewInv, ReplayOK, Has
<1>5. [proc[p] EXCEPT !.pc = "Note"].pc = "Note"
    BY <1>2, PcIs
<1>6. CASE /\ "execute" \notin down
           /\ Enqueue(ExecSlots, "exec", TaskJob(ReplayTask(p)), p, [proc[p] EXCEPT !.pc = "Note"])
    <2>. DEFINE x == [proc[p] EXCEPT !.pc = "Note"]
                t == ReplayTask(p)
    <2>1. /\ Enqueue(ExecSlots, "exec", TaskJob(t), p, x) /\ "execute" \notin down
          /\ task'[t].status # "none" /\ x.pc = "Note"
        BY <1>4, <1>5, <1>6
    <2>. HIDE DEF x, t
    <2>2. OnlyProc(p) /\ proc'[p] = x
        BY <1>1, <2>1, EnqueueOnly
    <2>. QED
        BY <1>3, <2>1, <2>2, ReplayNames DEF Aside, Leaves
<1>7. CASE Go(p, "DropReplay")
    BY <1>3, <1>7, GoAside, ReplayNames DEF Aside
<1>. QED
    BY <1>6, <1>7 DEF SendReplay

(* The task of a replay is there from its creation until it is dropped.    *)
LEMMA ReplayRows ==
    ASSUME TypeInv, ReviewInv, NEW p \in Procs, CreateReplay(p) \/ DropReplay(p)
    PROVE  ReviewInv'
<1>. SUFFICES ASSUME NEW t, t = ReplayTask(p) PROVE ReviewInv'
    OBVIOUS
<1>1. proc[p].pc \in ReplaySteps /\ proc[p].pc \in Unsent
    BY DEF CreateReplay, DropReplay, At, ReplaySteps, Unsent
<1>2. /\ p \in Replays /\ p \notin Deliveries \union IngestSlots \union ExecSlots /\ t \in Tasks
      /\ proc[p] \in ProcType
    BY <1>1, AtReplay, Ranks DEF TypeInv
<1>3. Growing /\ ran' = ran /\ blobs' = blobs
    BY DEF CreateReplay, DropReplay, Growing, historyVars, fixedVars
<1>4. /\ \A u \in Tasks : u # t => task'[u] = task[u]
      /\ task'[t].status \in {"none", "queued"}
      /\ CreateReplay(p) => task'[t].status = "queued"
    <2>. DEFINE v == [NoTask EXCEPT !.status = "queued", !.assigned = proc[p].to]
    <2>1. v.status = "queued" /\ NoTask.status = "none"
        BY DEF NoTask
    <2>2. \/ task' = [task EXCEPT ![t] = v] /\ CreateReplay(p)
          \/ task' = [task EXCEPT ![t] = NoTask] /\ DropReplay(p)
        BY DEF CreateReplay, DropReplay
    <2>3. ~(CreateReplay(p) /\ DropReplay(p))
        BY DEF CreateReplay, DropReplay, At
    <2>. HIDE DEF v
    <2>. QED
        BY <1>2, <2>1, <2>2, <2>3 DEF TypeInv, RowsInv, TaskTypes
<1>5. OnlyTask(t) /\ Lost(p, t) /\ Written(p, t)
    BY <1>1, <1>2, <1>3, <1>4 DEF OnlyTask, Lost, Written
<1>6. OnlyProc(p) /\ ReplayOK(p)'
    <2>1. CASE CreateReplay(p)
        <3>. DEFINE x == [proc[p] EXCEPT !.pc = "SendReplay", !.task = ReplayTask(p)]
        <3>1. OnlyProc(p)
            BY <2>1, PutOnly DEF CreateReplay
        <3>2. task'[ReplayTask(p)].status # "none"
            BY <1>4, <2>1
        <3>. QED
            BY <3>1, <3>2 DEF ReplayOK, Has, ReplayTask
    <2>2. CASE DropReplay(p)
        <3>1. OnlyProc(p) /\ proc'[p].pc = "Release"
            BY <2>2, GoOnly, ReplayNames DEF DropReplay
        <3>. QED
            BY <3>1 DEF ReplayOK
    <2>. QED
        BY <2>1, <2>2
<1>7. TaskOK(t)'
    BY <1>4 DEF TaskOK, Reviewed
<1>. QED
    BY <1>2, <1>3, <1>5, <1>6, <1>7, StepKeeps

-----------------------------------------------------------------------------
(* An ingest at its task.                                                  *)

LEMMA IngestKnows ==
    ASSUME TypeInv, ReviewInv, NEW p \in Procs, p \notin ExecSlots,
           proc[p].pc \in TaskSteps \union RecordSteps
    PROVE  /\ p \in Deliveries \union IngestSlots /\ p \notin Replays
           /\ proc[p] \in ProcType /\ IngestOK(p) /\ Reply(p) \in Tasks
           /\ proc[p].kind # "exec" /\ task[Reply(p)] \in TaskType
           /\ proc[p].pc \in Tasked => proc[p].task = Reply(p)
<1>1. p \in Deliveries \union IngestSlots /\ p \notin Replays
    <2>1. proc[p].pc \in RecordSteps => proc[p].kind # "exec"
        BY TaskAt DEF TypeInv
    <2>2. proc[p].pc \in Work
        BY DEF Work
    <2>. QED
        BY <2>1, <2>2, WorkIs, Ranks DEF TypeInv, Work
<1>2. proc[p].pc \in RecordSteps => proc[p].kind # "exec"
    BY TaskAt DEF TypeInv
<1>3. Reply(p) \in Tasks /\ proc[p] \in ProcType /\ Works(proc[p], Shown)
      /\ proc[p].kind \in {"delivery", "job"}
    BY <1>2, WorkIs DEF TypeInv, Work, Reply
<1>. QED
    BY <1>1, <1>3 DEF ReviewInv, Works, Reply, TypeInv, RowsInv, TaskTypes

(* A step of an ingest that takes nothing of the task away.                *)
LEMMA IngestMoves ==
    ASSUME TypeInv, ReviewInv, NEW p \in Procs, p \in Deliveries \union IngestSlots,
           NEW t \in Tasks, Growing, OnlyProc(p), OnlyTask(t), Lost(p, t), IngestOK(p)',
           task'[t] = task[t],
           \/ Reviewed(t) /\ Single => t \in dead
           \/ (t \in ran => t \in ran') /\ (Trace(t) \in blobs => Trace(t) \in blobs')
    PROVE  ReviewInv'
<1>1. p \notin ExecSlots \union Replays
    BY Ranks
<1>2. Written(p, t)
    BY DEF Written
<1>3. TaskOK(t)'
    BY <1>1, TaskStays
<1>. QED
    BY <1>1, <1>2, <1>3, StepKeeps

LEMMA SawTaskOK ==
    ASSUME TypeInv, NEW p \in Procs, NEW s, SawTask(p, s),
           s # "none" => task'[Reply(p)].status # "none"
    PROVE  OnlyProc(p) /\ IngestOK(p)' /\ proc'[p].pc = "Mark"
<1>. DEFINE x == [proc[p] EXCEPT !.pc = "Mark", !.task = Reply(p), !.state = s]
<1>1. proc[p] \in ProcType
    BY ProcIs DEF TypeInv
<1>2. x.pc = "Mark" /\ x.task = Reply(p) /\ x.state = s
    BY <1>1 DEF ProcType
<1>3. Put(p, x)
    BY DEF SawTask
<1>. HIDE DEF x
<1>4. OnlyProc(p) /\ proc'[p] = x
    BY <1>3, PutOnly
<1>. QED
    BY <1>2, <1>4 DEF IngestOK, Has, Tasked, RecordSteps, Undoing

LEMMA TaskKeeps ==
    ASSUME TypeInv, ReviewInv, NEW p \in Procs, p \notin ExecSlots, Task(p)
    PROVE  ReviewInv'
<1>. SUFFICES ASSUME NEW t, t = Reply(p) PROVE ReviewInv'
    OBVIOUS
<1>1. p \in Deliveries \union IngestSlots /\ p \notin Replays /\ t \in Tasks /\ task[t] \in TaskType
    BY IngestKnows DEF Task, At, TaskSteps
<1>2. Growing /\ ran' = ran /\ blobs' = blobs
    BY DEF Task, Growing, historyVars, fixedVars
<1>3. Lost(p, t)
    BY <1>2 DEF Lost
<1>. DEFINE v == [NoTask EXCEPT !.status = "queued", !.assigned = proc[p].to]
<1>4. v.status = "queued"
    BY DEF NoTask
<1>5. \/ task[t].status = "none" /\ task' = [task EXCEPT ![t] = v] /\ SawTask(p, "queued")
      \/ task[t].status # "none" /\ task' = task /\ SawTask(p, task[t].status)
    BY DEF Task
<1>. HIDE DEF v
<1>6. CASE task[t].status = "none" /\ task' = [task EXCEPT ![t] = v] /\ SawTask(p, "queued")
    <2>1. task'[t].status = "queued" /\ \A u \in Tasks : u # t => task'[u] = task[u]
        BY <1>1, <1>4, <1>6 DEF TypeInv, RowsInv, TaskTypes
    <2>2. OnlyProc(p) /\ IngestOK(p)'
        BY <1>6, <2>1, SawTaskOK
    <2>3. TaskOK(t)' /\ Written(p, t) /\ OnlyTask(t)
        BY <1>2, <1>6, <2>1 DEF TaskOK, Reviewed, Written, OnlyTask
    <2>. QED
        BY <1>1, <1>2, <1>3, <2>2, <2>3, Ranks, StepKeeps
<1>7. CASE task[t].status # "none" /\ task' = task /\ SawTask(p, task[t].status)
    <2>1. OnlyProc(p) /\ IngestOK(p)'
        BY <1>7, SawTaskOK
    <2>2. OnlyTask(t)
        BY <1>2, <1>7 DEF OnlyTask
    <2>. QED
        BY <1>1, <1>2, <1>3, <1>7, <2>1, <2>2, IngestMoves
<1>. QED
    BY <1>5, <1>6, <1>7

LEMMA SendTaskAside ==
    ASSUME TypeInv, ReviewInv, NEW p \in Procs, p \notin ExecSlots, SendTask(p), "execute" \notin down
    PROVE  Aside(p)
<1>1. proc[p].pc = "SendTask" /\ ~At(p, "free")
    BY DEF SendTask, At
<1>2. IngestOK(p)
    BY <1>1, IngestKnows DEF TaskSteps
<1>3. RowsSame /\ Growing /\ task' = task
    BY DEF SendTask, RowsSame, Growing, taskVars, historyVars, fixedVars
<1>. DEFINE x == EndIngest(p)
            t == proc[p].task
<1>4. x.pc \notin Held
    BY EndIngestAside
<1>5. Enqueue(ExecSlots, "exec", TaskJob(t), p, x) /\ task'[t].status # "none"
    BY <1>1, <1>2, <1>3 DEF SendTask, IngestOK, Has, Tasked
<1>. HIDE DEF x, t
<1>6. OnlyProc(p) /\ proc'[p] = x
    BY <1>1, <1>5, EnqueueOnly
<1>. QED
    BY <1>3, <1>4, <1>6 DEF Aside, Leaves

LEMMA MarkKeeps ==
    ASSUME TypeInv, ReviewInv, NEW p \in Procs, p \notin ExecSlots, FindTask(p) \/ Mark(p) \/ SendTask(p)
    PROVE  ReviewInv'
<1>. SUFFICES ASSUME NEW t, t = Reply(p) PROVE ReviewInv'
    OBVIOUS
<1>1. /\ p \in Deliveries \union IngestSlots /\ p \notin Replays /\ t \in Tasks
      /\ proc[p] \in ProcType /\ IngestOK(p) /\ (proc[p].pc \in Tasked => proc[p].task = t)
    BY IngestKnows DEF FindTask, Mark, SendTask, At, TaskSteps
<1>2. RowsSame /\ Growing
    BY DEF FindTask, Mark, SendTask, RowsSame, Growing, taskVars, historyVars, fixedVars
<1>3. OnlyTask(t) /\ task' = task /\ Lost(p, t) /\ ran' = ran
      /\ (Trace(t) \in blobs => Trace(t) \in blobs')
    BY <1>2, SameRows DEF RowsSame
<1>4. CASE OnlyProc(p) /\ IngestOK(p)'
    BY <1>1, <1>2, <1>3, <1>4, IngestMoves
<1>5. CASE FindTask(p)
    <2>1. SawTask(p, task[t].status)
        BY <1>5 DEF FindTask
    <2>. QED
        BY <1>3, <1>4, <2>1, SawTaskOK
<1>6. CASE Mark(p)
    <2>1. proc[p].pc = "Mark" /\ Put(p, AfterMark(p))
        BY <1>6 DEF Mark, At
    <2>2. CASE proc[p].to # None /\ proc[p].state = "queued"
        <3>. DEFINE x == [proc[p] EXCEPT !.pc = "SendTask"]
        <3>1. Put(p, x)
            BY <2>1, <2>2 DEF AfterMark
        <3>2. x.pc = "SendTask" /\ x.task = proc[p].task
            BY <1>1 DEF ProcType
        <3>. HIDE DEF x
        <3>3. OnlyProc(p) /\ proc'[p] = x
            BY <3>1, PutOnly
        <3>4. Has(proc[p].task)
            BY <1>1, <2>1, <2>2 DEF IngestOK
        <3>5. IngestOK(p)'
            BY <1>3, <3>2, <3>3, <3>4 DEF IngestOK, Has, RecordSteps, Undoing
        <3>. QED
            BY <1>4, <3>3, <3>5
    <2>3. CASE ~(proc[p].to # None /\ proc[p].state = "queued")
        <3>1. Leaves(p)
            BY <2>1, <2>3, EndIngestAside, PutAside DEF AfterMark
        <3>. QED
            BY <1>2, <3>1, AsideKeeps DEF Aside
    <2>. QED
        BY <2>2, <2>3
<1>7. CASE SendTask(p)
    <2>1. CASE "execute" \notin down
        BY <1>7, <2>1, SendTaskAside, AsideKeeps
    <2>2. CASE "execute" \in down
        <3>1. Go(p, "PutTrace") /\ proc[p].pc = "SendTask" /\ "PutTrace" \in Pcs
            BY <1>7, <2>2 DEF SendTask, At, Pcs, Steps, RecordSteps
        <3>2. OnlyProc(p) /\ proc'[p].pc = "PutTrace" /\ proc'[p].task = proc[p].task
            BY <3>1, GoOnly
        <3>3. Has(proc[p].task)
            BY <1>1, <3>1 DEF IngestOK, Tasked
        <3>4. IngestOK(p)'
            BY <1>2, <1>3, <2>2, <3>2, <3>3 DEF IngestOK, Has, Undoing, Growing
        <3>. QED
            BY <1>4, <3>2, <3>4
    <2>. QED
        BY <2>1, <2>2
<1>. QED
    BY <1>5, <1>6, <1>7

LEMMA FailSendKeeps ==
    ASSUME TypeInv, ReviewInv, NEW p \in Procs, p \notin ExecSlots, FailIngestCall(p), At(p, "SendTask")
    PROVE  ReviewInv'
<1>. SUFFICES ASSUME NEW t, t = Reply(p) PROVE ReviewInv'
    OBVIOUS
<1>1. /\ p \in Deliveries \union IngestSlots /\ p \notin Replays /\ t \in Tasks
      /\ IngestOK(p) /\ proc[p].pc = "SendTask" /\ proc[p].task = t
    BY IngestKnows DEF At, TaskSteps, Tasked
<1>2. RowsSame /\ Growing /\ failed' = failed \union {"SendTask"}
    BY <1>1 DEF FailIngestCall, Record, RowsSame, Growing, taskVars, fixedVars
<1>3. OnlyTask(t) /\ task' = task /\ Lost(p, t) /\ ran' = ran
      /\ (Trace(t) \in blobs => Trace(t) \in blobs')
    BY <1>2, SameRows DEF RowsSame
<1>4. Go(p, "PutTrace") /\ "PutTrace" \in Pcs
    BY <1>1 DEF FailIngestCall, Caught, Rethrown, Pcs, Steps, RecordSteps
<1>5. OnlyProc(p) /\ proc'[p].pc = "PutTrace" /\ proc'[p].task = proc[p].task
    BY <1>4, GoOnly
<1>6. Broken({"SendTask"})'
    BY <1>2, Breaks
<1>7. Has(proc[p].task)
    BY <1>1 DEF IngestOK, Tasked
<1>8. IngestOK(p)'
    BY <1>3, <1>5, <1>6, <1>7 DEF IngestOK, Has, Undoing
<1>. QED
    BY <1>1, <1>2, <1>3, <1>5, <1>8, IngestMoves

LEMMA RecordNames ==
    /\ {"InsertRun", "Review", "UndoRun", "UndoTrace"} \subseteq Pcs
    /\ {"InsertRun", "Review", "UndoRun", "UndoTrace"} \subseteq RecordSteps
    /\ {"InsertRun", "Review", "UndoRun", "UndoTrace"} \subseteq Tasked
BY DEF Pcs, Steps, RecordSteps, Tasked

(* It goes on with the record.                                             *)
LEMMA IngestGoes ==
    ASSUME TypeInv, ReviewInv, NEW p \in Procs, p \notin ExecSlots,
           proc[p].pc \in RecordSteps, Growing, task' = task,
           NEW s \in {"InsertRun", "Review", "UndoRun", "UndoTrace"}, Go(p, s),
           s \in Undoing => Broken(RunFails)'
    PROVE  OnlyProc(p) /\ IngestOK(p)'
<1>1. OnlyProc(p) /\ proc'[p].pc = s /\ proc'[p].task = proc[p].task
    BY RecordNames, GoOnly
<1>2. IngestOK(p) /\ proc[p].pc \in Tasked
    BY IngestKnows DEF Tasked
<1>3. Has(proc[p].task) /\ ("execute" \in down \/ Broken({"SendTask"}))
    <2>1. proc[p].pc # "Mark"
        BY DEF RecordSteps
    <2>. QED
        BY <1>2, <2>1 DEF IngestOK
<1>4. "execute" \in down' \/ Broken({"SendTask"})'
    BY <1>3, Grown DEF Growing
<1>5. task'[proc'[p].task].status # "none"
    BY <1>1, <1>3 DEF Has
<1>. QED
    BY <1>1, <1>4, <1>5 DEF IngestOK, Has

LEMMA LeavesOK ==
    ASSUME TypeInv, NEW p \in Procs, Leaves(p)
    PROVE  OnlyProc(p) /\ IngestOK(p)'
BY HeldIs DEF Leaves, IngestOK, Tasked, RecordSteps, Undoing

LEMMA IngestRecords ==
    ASSUME TypeInv, ReviewInv, NEW p \in Procs, p \notin ExecSlots,
           PutTrace(p) \/ InsertRun(p) \/ UndoRun(p) \/ UndoTrace(p)
    PROVE  ReviewInv'
<1>. SUFFICES ASSUME NEW t, t = TaskOf(p) PROVE ReviewInv'
    OBVIOUS
<1>1. proc[p].pc \in {"PutTrace", "InsertRun", "UndoRun", "UndoTrace"} /\ proc[p].pc \in RecordSteps
    BY DEF PutTrace, InsertRun, UndoRun, UndoTrace, At, RecordSteps
<1>2. /\ p \in Deliveries \union IngestSlots /\ t \in Tasks /\ t = proc[p].task
      /\ proc[p].kind # "exec" /\ IngestOK(p)
    BY <1>1, IngestKnows DEF TaskOf, Tasked
<1>3. Growing /\ task' = task /\ failed' = failed
    BY DEF PutTrace, InsertRun, UndoRun, UndoTrace, Growing, taskVars, historyVars, fixedVars
<1>4. proc[p].pc \in Undoing => Broken(RunFails)' /\ (Reviewed(t) /\ Single => t \in dead)
    BY <1>2, <1>3, UndoAlone, Grown DEF IngestOK
<1>5. CASE PutTrace(p)
    <2>1. Go(p, "InsertRun") /\ ran' = ran /\ blobs' = blobs \union {Trace(t)}
        BY <1>5 DEF PutTrace, taskVars
    <2>2. OnlyProc(p) /\ IngestOK(p)'
        BY <1>1, <1>3, <2>1, IngestGoes DEF Undoing
    <2>3. OnlyTask(t) /\ Lost(p, t)
        BY <1>3, <2>1 DEF OnlyTask, Lost, Trace
    <2>. QED
        BY <1>2, <1>3, <2>1, <2>2, <2>3, IngestMoves
<1>6. CASE InsertRun(p)
    <2>1. Go(p, "Review") /\ ran' = ran \union {t} /\ blobs' = blobs
        BY <1>6 DEF InsertRun
    <2>2. OnlyProc(p) /\ IngestOK(p)'
        BY <1>1, <1>3, <2>1, IngestGoes DEF Undoing
    <2>3. OnlyTask(t) /\ Lost(p, t)
        BY <1>3, <2>1 DEF OnlyTask, Lost
    <2>. QED
        BY <1>2, <1>3, <2>1, <2>2, <2>3, IngestMoves
<1>7. CASE UndoRun(p)
    <2>1. proc[p].pc \in Undoing /\ Go(p, "UndoTrace") /\ ran' = ran \ {t} /\ blobs' = blobs
        BY <1>7 DEF UndoRun, At, Undoing
    <2>2. OnlyProc(p) /\ IngestOK(p)'
        BY <1>1, <1>3, <1>4, <2>1, IngestGoes
    <2>3. OnlyTask(t) /\ Lost(p, t)
        BY <1>2, <1>3, <2>1 DEF OnlyTask, Lost
    <2>. QED
        BY <1>2, <1>3, <1>4, <2>1, <2>2, <2>3, IngestMoves
<1>8. CASE UndoTrace(p)
    <2>1. proc[p].pc \in Undoing /\ FailIngest(p) /\ ran' = ran /\ blobs' = blobs \ {Trace(t)}
        BY <1>2, <1>8 DEF UndoTrace, At, Undoing, FailReview, taskVars
    <2>2. OnlyProc(p) /\ IngestOK(p)'
        BY <2>1, FailIngestAside, LeavesOK
    <2>3. OnlyTask(t) /\ Lost(p, t)
        BY <1>2, <1>3, <2>1 DEF OnlyTask, Lost, Trace
    <2>. QED
        BY <1>2, <1>3, <1>4, <2>1, <2>2, <2>3, IngestMoves
<1>. QED
    BY <1>5, <1>6, <1>7, <1>8

LEMMA IngestReviews ==
    ASSUME TypeInv, ReviewInv, NEW p \in Procs, p \notin ExecSlots, Review(p)
    PROVE  ReviewInv'
<1>. SUFFICES ASSUME NEW t, t = TaskOf(p) PROVE ReviewInv'
    OBVIOUS
<1>1. proc[p].pc = "Review" /\ proc[p].pc \in RecordSteps /\ proc[p].pc \in Tasked
    BY DEF Review, At, RecordSteps, Tasked
<1>2. /\ p \in Deliveries \union IngestSlots /\ p \notin Replays /\ t \in Tasks
      /\ t = proc[p].task /\ proc[p].kind # "exec" /\ IngestOK(p)
    BY <1>1, IngestKnows DEF TaskOf
<1>3. task[t].status # "none"
    BY <1>1, <1>2 DEF IngestOK, Has
<1>4. SetReview(p, TRUE) /\ Put(p, EndIngest(p)) /\ dead' = dead \union {t}
    BY <1>2, <1>3 DEF Review, AfterReview
<1>5. Growing /\ ran' = ran /\ blobs' = blobs
    BY <1>4 DEF Review, Growing, historyVars, fixedVars
<1>6. /\ task'[t].status = "needs_review"
      /\ \A u \in Tasks : u # t => task'[u] = task[u]
    BY <1>2, <1>4, SetReviewIs
<1>7. OnlyProc(p) /\ IngestOK(p)'
    BY <1>4, EndIngestAside, PutAside, LeavesOK
<1>8. OnlyTask(t) /\ Lost(p, t) /\ Written(p, t) /\ TaskOK(t)'
    BY <1>4, <1>5, <1>6 DEF OnlyTask, Lost, Written, TaskOK
<1>. QED
    BY <1>2, <1>5, <1>7, <1>8, StepKeeps

LEMMA IngestFailing ==
    ASSUME TypeInv, ReviewInv, NEW p \in Procs, p \notin ExecSlots, FailRecord(p)
    PROVE  ReviewInv'
<1>. SUFFICES ASSUME NEW t, t = TaskOf(p) PROVE ReviewInv'
    OBVIOUS
<1>1. proc[p].pc \in RecordSteps
    BY DEF FailRecord, At, RecordSteps
<1>2. /\ p \in Deliveries \union IngestSlots /\ t \in Tasks /\ t = proc[p].task
      /\ proc[p].kind # "exec" /\ IngestOK(p)
    BY <1>1, IngestKnows DEF TaskOf, Tasked
<1>3. RowsSame /\ Growing /\ failed' = failed \union {proc[p].pc}
    BY DEF FailRecord, Failed, Record, RowsSame, Growing, taskVars, fixedVars
<1>4. OnlyTask(t) /\ task' = task /\ Lost(p, t)
    BY <1>3, SameRows
<1>5. CASE FailIngest(p)
    BY <1>3, <1>5, FailIngestAside, AsideKeeps DEF Aside
<1>6. CASE ~FailIngest(p)
    <2>1. \/ proc[p].pc \in RunFails /\ Go(p, "UndoRun")
          \/ proc[p].pc \in Undoing /\ Go(p, "UndoTrace")
        BY <1>2, <1>6 DEF FailRecord, FailReview, At, RunFails, Undoing
    <2>2. Broken(RunFails)'
        BY <1>2, <1>3, <2>1, Grown, Breaks DEF IngestOK
    <2>3. OnlyProc(p) /\ IngestOK(p)'
        BY <1>1, <1>3, <1>4, <2>1, <2>2, IngestGoes
    <2>. QED
        BY <1>2, <1>3, <1>4, <2>3, IngestMoves DEF RowsSame
<1>. QED
    BY <1>5, <1>6

-----------------------------------------------------------------------------
(* Every step, and the theorem.                                            *)

LEMMA OthersKeep ==
    ASSUME TypeInv, ReviewInv, NEW p \in Procs, p \notin ExecSlots, Process(p) \/ Failure(p)
    PROVE  ReviewInv'
<1>1. ~ExecStep(p) /\ ~FailExec(p)
    BY AtExec DEF TypeInv, ExecStep, Claim, Prepare, Reassign, Reject, RejectLetter, FailExec, At,
       ExecSteps
<1>2. CASE ReceiveStep(p) \/ ReceiveFailure(p) \/ Filing(p)
    <2>1. RowsSame /\ Growing /\ Rests(p)
        BY <1>2, ReceiveQuiet, ReceiveLeaves, FilingQuiet, FilingLeaves, LeavesRests
    <2>. QED
        BY <2>1, RestsKeep
<1>3. CASE Receive(p) \/ Letter(p) \/ FailLetter(p) \/ FailIngestUndo(p) \/ Crash(p)
    BY <1>3, QueueAside, CrashAside, AsideKeeps
<1>4. CASE Task(p) \/ FindTask(p) \/ Mark(p) \/ SendTask(p) \/ FailIngestCall(p)
    BY <1>4, TaskKeeps, MarkKeeps, FailSendKeeps, FailCallAside, AsideKeeps
<1>5. CASE RecordStep(p) \/ FailRecord(p)
    BY <1>5, IngestRecords, IngestReviews, IngestFailing DEF RecordStep
<1>6. CASE ReplayStep(p) \/ FailReplay(p)
    BY <1>6, ReplayAside, SendReplayAside, ReplayRows, AsideKeeps DEF ReplayStep
<1>. QED
    BY <1>1, <1>2, <1>3, <1>4, <1>5, <1>6
       DEF Process, Failure, IngestStep, TaskStep, IngestFailure, TaskFailure, Filing

LEMMA InitReview == Init => ReviewInv
<1>. SUFFICES ASSUME Init PROVE ReviewInv
    OBVIOUS
<1>1. \A p \in Procs : proc[p].pc = "free"
    BY DEF Init, IdleProc
<1>2. Deliveries \union IngestSlots \union ExecSlots \union Replays \subseteq Procs
    BY Ranks
<1>3. \A t \in Tasks : task[t].status = "none"
    BY DEF Init, NoTask
<1>4. IsFiniteSet(failed)
    BY FS_EmptySet DEF Init
<1>5. \A p \in ExecSlots : ExecOK(p) /\ \A t \in Tasks : ~Holds(p, t)
    BY <1>1, <1>2 DEF ExecOK, Holds, Executing, RecordSteps
<1>6. \A p \in Deliveries \union IngestSlots : IngestOK(p)
    BY <1>1, <1>2 DEF IngestOK, Tasked, RecordSteps, Undoing
<1>7. \A p \in Replays : ReplayOK(p)
    BY <1>1, <1>2 DEF ReplayOK
<1>. QED
    BY <1>3, <1>4, <1>5, <1>6, <1>7 DEF ReviewInv, OneHolder, TaskOK, Reviewed

LEMMA NextReview == Inv /\ ReviewInv /\ [Next]_vars => ReviewInv'
<1>. SUFFICES ASSUME Inv, ReviewInv, [Next]_vars PROVE ReviewInv'
    OBVIOUS
<1>1. CASE \E p \in Procs : Process(p) \/ Failure(p)
    BY <1>1, ExecStepKeeps, OthersKeep DEF Inv
<1>2. CASE (\E b \in Boxes : Close(b) \/ Retarget(b)) \/ UNCHANGED vars
    <2>1. UNCHANGED <<task, ran, proc, blobs, dead, failed, down>>
        BY <1>2 DEF Close, Retarget, vars, taskVars, historyVars, fixedVars
    <2>. QED
        BY <2>1 DEF ReviewInv, ExecOK, IngestOK, ReplayOK, OneHolder, TaskOK, Single, Broken, Traced,
           Has, Holds, Rejecting, Accounted, Reviewed
<1>. QED
    BY <1>1, <1>2 DEF Next

LEMMA ManyFailed ==
    ASSUME IsFiniteSet(failed), ~Single
    PROVE  Cardinality(failed) > 1
<1>1. PICK s \in failed, u \in failed : s # u
    BY DEF Single
<1>2. Cardinality({s}) = 1
    BY FS_Singleton
<1>3. Cardinality({s}) <= Cardinality(failed) /\ Cardinality({s}) # Cardinality(failed)
    BY <1>1, FS_Subset
<1>4. Cardinality(failed) \in Nat
    BY FS_CardinalityType
<1>. QED
    BY <1>2, <1>3, <1>4

(* No task is claimed twice, and when all is done a task in review has its *)
(* run and its trace, or a dead letter, unless two kinds of call failed; a *)
(* task is still in execution only if its consumer died or could write no  *)
(* status: what handleAgentExecute and recordTaskNeedsReview leave behind  *)
(* whatever call of them fails, with any number of consumers and replays.  *)
THEOREM ReviewsKept == Spec => []ReviewsRecorded
<1>1. Inv /\ ReviewInv => ReviewsRecorded
    <2>. SUFFICES ASSUME Inv, ReviewInv PROVE ReviewsRecorded
        OBVIOUS
    <2>1. \A t \in Tasks : claims[t] <= 1
        BY DEF Inv, ClaimInv
    <2>2. ASSUME AtRest, NEW t \in Tasks, Reviewed(t)
          PROVE  \/ t \in dead \/ Cardinality(failed) > 1
                 \/ task[t].result /\ t \in ran /\ Trace(t) \in blobs
        <3>1. CASE Single
            <4>1. ~Rejecting(t)
                BY <2>2, Ranks DEF AtRest, Rejecting, Steps, ExecSteps
            <4>. QED
                BY <2>2, <3>1, <4>1 DEF ReviewInv, TaskOK, Accounted, Traced
        <3>2. CASE ~Single
            BY <3>2, ManyFailed DEF ReviewInv
        <3>. QED
            BY <3>1, <3>2
    <2>3. ASSUME AtRest, NEW t \in Tasks, task[t].status = "running"
          PROVE  failed \intersect {"Crash", "Reject"} # {}
        <3>1. ASSUME NEW p \in ExecSlots PROVE ~Holds(p, t)
            BY <2>3, Ranks DEF AtRest, Holds, Executing, Steps, ExecSteps, RecordSteps
        <3>. QED
            BY <2>3, <3>1 DEF ReviewInv, TaskOK, Broken
    <2>. QED
        BY <2>1, <2>2, <2>3 DEF ReviewsRecorded
<1>2. Spec => []ReviewInv
    BY InitReview, NextReview, Invariance, PTL DEF Spec
<1>. QED
    BY <1>1, <1>2, Invariance, PTL

-----------------------------------------------------------------------------
(* Who may come to decide on a thread.                                     *)

Passes(p) == OnlyProc(p) /\ proc'[p].pc \notin Joining

LEMMA LeavesPasses == ASSUME NEW p, Leaves(p) PROVE Passes(p)
BY DEF Leaves, Passes, Held

LEMMA PutPasses ==
    ASSUME TypeInv, NEW p \in Procs, NEW x, Put(p, x), x.pc \notin Joining
    PROVE  Passes(p)
BY PutOnly DEF Passes

LEMMA GoPasses ==
    ASSUME TypeInv, NEW p \in Procs, NEW s \in Pcs, Go(p, s), s \notin Joining
    PROVE  Passes(p)
BY GoOnly DEF Passes

LEMMA TaskNames ==
    LET names == {"PutTrace", "InsertRun", "Review", "UndoRun", "UndoTrace", "SendTask", "Reject",
                  "RejectLetter", "Prepare", "Release"}
    IN names \subseteq Pcs /\ names \intersect Joining = {}
BY DEF Pcs, Steps, RecordSteps, TaskSteps, ExecSteps, ReplaySteps, Joining

LEMMA RecordPasses ==
    ASSUME TypeInv, NEW p \in Procs, RecordStep(p) \/ FailRecord(p)
    PROVE  Passes(p)
<1>1. ASSUME FailReview(p) PROVE Passes(p)
    BY <1>1, FailIngestAside, LeavesPasses, GoPasses, TaskNames DEF FailReview
<1>2. ASSUME AfterReview(p) PROVE Passes(p)
    <2>1. IdleProc.pc = "free" /\ EndIngest(p).pc \notin Joining
        BY EndIngestAside DEF IdleProc, Held
    <2>. QED
        BY <1>2, <2>1, PutPasses DEF AfterReview, Joining
<1>3. \/ FailReview(p) \/ AfterReview(p)
      \/ \E s \in {"InsertRun", "Review", "UndoRun", "UndoTrace"} : Go(p, s)
    BY DEF RecordStep, FailRecord, PutTrace, InsertRun, Review, UndoRun, UndoTrace
<1>. QED
    BY <1>1, <1>2, <1>3, GoPasses, TaskNames

LEMMA ExecPasses ==
    ASSUME TypeInv, NEW p \in ExecSlots, Process(p) \/ Failure(p)
    PROVE  Passes(p)
<1>0. p \in Procs /\ p \notin Deliveries \union IngestSlots \union Replays
    BY Ranks
<1>1. IdleProc.pc \notin Joining /\ Retried(p).pc \notin Joining
    BY RetriedAside DEF IdleProc, Joining
<1>2. CASE Receive(p)
    <2>1. Go(p, "Read") \/ Go(p, "Claim")
        BY <1>2 DEF Receive
    <2>2. /\ "Read" \in Pcs /\ "Read" \notin Joining
          /\ "Claim" \in Pcs /\ "Claim" \notin Joining
        BY DEF Pcs, Steps, StoreSteps, ExecSteps, Joining
    <2>. QED
        BY <1>0, <2>1, <2>2, GoPasses
<1>3. CASE RecordStep(p) \/ FailRecord(p)
    BY <1>0, <1>3, RecordPasses
<1>4. CASE Prepare(p)
    <2>. DEFINE to == target[BoxOf(SourceOf(TaskOf(p)))]
                s == IF to \notin {None, task[TaskOf(p)].assigned} THEN "Reassign" ELSE "PutTrace"
                x == [proc[p] EXCEPT !.pc = s, !.to = to]
    <2>1. Put(p, x) /\ s \notin Joining
        BY <1>4 DEF Prepare, Joining
    <2>. HIDE DEF s, to
    <2>2. x.pc = s
        BY <1>0, ProcIs DEF TypeInv, ProcType
    <2>. HIDE DEF x
    <2>. QED
        BY <1>0, <2>1, <2>2, PutPasses
<1>5. CASE Claim(p) \/ Reassign(p) \/ Reject(p) \/ RejectLetter(p) \/ FailExec(p) \/ Crash(p)
    <2>1. \/ Put(p, IdleProc) \/ Put(p, Retried(p))
          \/ Go(p, "Prepare") \/ Go(p, "PutTrace") \/ Go(p, "RejectLetter") \/ Go(p, "Reject")
        BY <1>0, <1>5 DEF Claim, Reassign, Reject, RejectLetter, FailExec, Crash
    <2>. QED
        BY <1>0, <1>1, <2>1, PutPasses, GoPasses, TaskNames
<1>. QED
    BY <1>2, <1>3, <1>4, <1>5, ExecOnly DEF ExecStep

LEMMA TaskPasses ==
    ASSUME TypeInv, ReviewInv, NEW p \in Procs, p \notin ExecSlots,
           Task(p) \/ FindTask(p) \/ Mark(p) \/ SendTask(p) \/ FailIngestCall(p)
    PROVE  Passes(p)
<1>0. proc[p] \in ProcType
    BY ProcIs DEF TypeInv
<1>1. CASE Task(p) \/ FindTask(p)
    <2>1. PICK s : SawTask(p, s)
        BY <1>1 DEF Task, FindTask
    <2>. DEFINE x == [proc[p] EXCEPT !.pc = "Mark", !.task = Reply(p), !.state = s]
    <2>2. Put(p, x) /\ x.pc = "Mark"
        BY <1>0, <2>1 DEF SawTask, ProcType
    <2>. HIDE DEF x
    <2>. QED
        BY <2>2, PutPasses DEF Joining
<1>2. CASE Mark(p)
    <2>1. Put(p, AfterMark(p))
        BY <1>2 DEF Mark
    <2>2. [proc[p] EXCEPT !.pc = "SendTask"].pc = "SendTask"
        BY <1>0, PcIs
    <2>3. AfterMark(p).pc \notin Joining
        BY <2>2, EndIngestAside, TaskNames DEF AfterMark, Held
    <2>. QED
        BY <2>1, <2>3, PutPasses
<1>3. CASE SendTask(p)
    BY <1>3, SendTaskAside, LeavesPasses, GoPasses, TaskNames DEF SendTask, Aside
<1>4. CASE FailIngestCall(p) /\ At(p, "SendTask")
    <2>1. Go(p, "PutTrace")
        BY <1>4 DEF FailIngestCall, Caught, Rethrown, At
    <2>. QED
        BY <2>1, GoPasses, TaskNames
<1>5. CASE FailIngestCall(p) /\ ~At(p, "SendTask")
    BY <1>5, FailCallAside, LeavesPasses DEF Aside
<1>. QED
    BY <1>1, <1>2, <1>3, <1>4, <1>5

LEMMA ReplayPasses ==
    ASSUME TypeInv, ReviewInv, NEW p \in Procs, ReplayStep(p) \/ FailReplay(p)
    PROVE  Passes(p)
<1>0. proc[p] \in ProcType
    BY ProcIs DEF TypeInv
<1>1. CASE CreateReplay(p)
    <2>. DEFINE x == [proc[p] EXCEPT !.pc = "SendReplay", !.task = ReplayTask(p)]
    <2>1. Put(p, x) /\ x.pc = "SendReplay"
        BY <1>0, <1>1 DEF CreateReplay, ProcType
    <2>. HIDE DEF x
    <2>. QED
        BY <2>1, PutPasses DEF Joining
<1>2. CASE DropReplay(p)
    BY <1>2, GoPasses, TaskNames DEF DropReplay
<1>3. CASE ~CreateReplay(p) /\ ~DropReplay(p)
    BY <1>3, ReplayAside, SendReplayAside, LeavesPasses DEF Aside, ReplayStep
<1>. QED
    BY <1>1, <1>2, <1>3

LEMMA StepPasses ==
    ASSUME TypeInv, ReviewInv, NEW p \in Procs, Process(p) \/ Failure(p)
    PROVE  OnlyProc(p) /\ (Joins(p) \/ proc'[p].pc \notin Joining)
<1>1. CASE p \in ExecSlots
    BY <1>1, ExecPasses DEF Passes
<1>2. CASE p \notin ExecSlots
    <2>1. ~ExecStep(p) /\ ~FailExec(p)
        BY <1>2, AtExec DEF TypeInv, ExecStep, Claim, Prepare, Reassign, Reject, RejectLetter,
           FailExec, At, ExecSteps
    <2>2. CASE ReceiveStep(p) \/ ReceiveFailure(p)
        BY <2>2, ReceiveLeaves, LeavesPasses DEF Passes
    <2>3. CASE Filing(p)
        BY <2>3, FilingLeaves, LeavesPasses DEF Passes, Rests
    <2>4. CASE Receive(p) \/ Letter(p) \/ FailLetter(p) \/ FailIngestUndo(p) \/ Crash(p)
        BY <1>2, <2>4, QueueAside, CrashAside, LeavesPasses DEF Aside, Passes
    <2>5. CASE Task(p) \/ FindTask(p) \/ Mark(p) \/ SendTask(p) \/ FailIngestCall(p)
        BY <1>2, <2>5, TaskPasses DEF Passes
    <2>6. CASE RecordStep(p) \/ FailRecord(p)
        BY <2>6, RecordPasses DEF Passes
    <2>7. CASE ReplayStep(p) \/ FailReplay(p)
        BY <2>7, ReplayPasses DEF Passes
    <2>. QED
        BY <2>1, <2>2, <2>3, <2>4, <2>5, <2>6, <2>7
           DEF Process, Failure, IngestStep, TaskStep, IngestFailure, TaskFailure, Filing
<1>. QED
    BY <1>1, <1>2

-----------------------------------------------------------------------------
(* A message is in a thread that is there.                                 *)

(* The outbound message that an ingest found fits; a thread, if it is      *)
(* still there, is of the mailbox, and the one of the message answered.    *)
Found(m, s) ==
    /\ s # None => s \in About[m[1]].answers
    /\ \A o \in Sent : Answers(About[m[1]], o) => s = o
Belongs(m, t) ==
    thread[t] # None =>
      /\ thread[t][1] = BoxOf(m)
      /\ \A o \in Sent : Answers(About[m[1]], o) => t = sentThread[o]
FindsOK(p) ==
    LET r == proc[p] IN
      /\ r.pc \in {"GetThread", "Assign"} => Found(r.msg, r.out)
      /\ r.pc = "Assign" => thread[r.thread] \in {None, <<BoxOf(r.msg), r.out>>}
      /\ r.pc \in {"PutNormalized", "Normalize"} => Belongs(r.msg, r.thread)

KeysApart ==
    \A t \in Threads : \A u \in Threads \ {t} : thread[t] # None => thread[t] # thread[u]
SentStand == \A o \in Sent : sentThread[o] # None => thread[sentThread[o]] = <<OutBox[o], o>>
Stands(m) ==
    message[m].thread # None =>
      Seen(m) /\ thread[message[m].thread] # None /\ Belongs(m, message[m].thread)
ThreadInv ==
    /\ KeysApart /\ SentStand
    /\ \A m \in Messages : Stands(m)
    /\ \A p \in Procs : FindsOK(p)

(* The shape of keys, and who decides on a thread.                         *)
LEMMA KeyIs ==
    /\ \A b \in Boxes, k \in Sent \union {About[e].key : e \in Emails} : <<b, k>> # None
    /\ \A m \in Messages : \A o \in About[m[1]].answers : o \in Sent /\ OutBox[o] = BoxOf(m)
    /\ None \notin Threads /\ None \notin Sent
<1>1. None \notin Boxes \X (Sent \union {About[e].key : e \in Emails})
    BY InboundAssumption
<1>2. \A m \in Messages : m[1] \in Emails
    BY MessageIs
<1>. QED
    BY <1>1, <1>2, InboundAssumption DEF BoxOf

LEMMA JoiningIs ==
    ASSUME TypeInv, NEW p \in Procs, proc[p].pc \in Joining \union {"FindThread"}
    PROVE  /\ proc[p] \in ProcType /\ proc[p].msg \in Messages /\ Seen(proc[p].msg)
           /\ proc[p].pc \in {"Assign", "PutNormalized", "Normalize"} => proc[p].thread \in Threads
           /\ proc[p].pc = "Assign" => proc[p].out \in Sent
<1>1. proc[p].pc \in Work \ RecordSteps
    BY WorkNames DEF Joining, ThreadSteps, StoreSteps
<1>. QED
    BY <1>1, WorkIs DEF TypeInv, Works, Threaded

LEMMA FindsThen ==
    ASSUME NEW p \in Procs, NEW m, NEW t, NEW s,
           proc'[p].msg = m, proc'[p].thread = t, proc'[p].out = s,
           proc'[p].pc \in {"GetThread", "Assign"} => Found(m, s),
           proc'[p].pc = "Assign" => thread'[t] \in {None, <<BoxOf(m), s>>},
           proc'[p].pc \in {"PutNormalized", "Normalize"} => Belongs(m, t)'
    PROVE  FindsOK(p)'
BY DEF FindsOK, Found, Belongs, BoxOf, Answers

LEMMA FindsNone ==
    ASSUME NEW p \in Procs, proc'[p].pc \notin Joining
    PROVE  FindsOK(p)'
BY DEF FindsOK, Joining

(* Which steps change the thread of a message.                             *)
LEMMA MessageThreads ==
    ASSUME TypeInv, NEW p \in Procs, Process(p) \/ Failure(p), NEW m \in Messages
    PROVE  \/ message'[m].thread \in {message[m].thread, None}
           \/ /\ Normalize(p) /\ CanNormalize(p) /\ m = proc[p].msg
              /\ message'[m].thread = proc[p].thread
<1>0. message \in [Messages -> MsgType] /\ message[m] \in MsgType
    BY DEF TypeInv, RowsInv, MailTypes
<1>1. CASE message' = message
    BY <1>1
<1>2. CASE Insert(p)
    <2>1. Received(About[Email(p)]).thread = None
        BY DEF Received, NoMessage
    <2>2. \/ message' = message
          \/ message' = [message EXCEPT ![Mine(p)] = Received(About[Email(p)])]
        BY <1>2 DEF Insert, InsertRow
    <2>. QED
        BY <1>0, <2>1, <2>2
<1>3. CASE Finalize(p)
    <2>1. NoMessage.thread = None
        BY DEF NoMessage
    <2>2. message' = message \/ message' = [message EXCEPT ![proc[p].msg] = NoMessage]
        BY <1>3 DEF Finalize
    <2>. QED
        BY <1>0, <2>1, <2>2
<1>4. CASE FailRow(p) \/ FailFailRow(p)
    <2>1. \/ message' = message
          \/ message' = [message EXCEPT ![proc[p].msg].status = "failed"]
        BY <1>4 DEF FailRow, FailFailRow, SetFailed
    <2>2. [message[m] EXCEPT !.status = "failed"].thread = message[m].thread
        BY <1>0 DEF MsgType
    <2>. QED
        BY <1>0, <2>1, <2>2
<1>5. CASE Normalize(p)
    <2>1. \/ message' = message
          \/ CanNormalize(p) /\ message' = [message EXCEPT ![proc[p].msg] = Normalized(p)]
        BY <1>5 DEF Normalize
    <2>2. proc[p].msg = m => Normalized(p).thread = proc[p].thread
        BY <1>0 DEF Normalized, MsgType
    <2>. QED
        BY <1>0, <1>5, <2>1, <2>2
<1>6. CASE Mark(p)
    <2>1. message' = [message EXCEPT ![proc[p].msg].status = Marked(p)]
        BY <1>6 DEF Mark
    <2>2. [message[m] EXCEPT !.status = Marked(p)].thread = message[m].thread
        BY <1>0 DEF MsgType
    <2>. QED
        BY <1>0, <2>1, <2>2
<1>. QED
    BY <1>1, <1>2, <1>3, <1>4, <1>5, <1>6, StepTypes DEF Frames

LEMMA SeenStays ==
    ASSUME TypeInv, NEW p \in Procs, Process(p) \/ Failure(p), NEW m \in Messages, Seen(m)
    PROVE  Seen(m)'
<1>0. message \in [Messages -> MsgType] /\ box' = box
    BY StepTypes DEF TypeInv, RowsInv, MailTypes, Frames
<1>1. CASE Stores(p)
    <2>1. message' = [message EXCEPT ![Mine(p)] = Received(About[Email(p)])]
        BY <1>1 DEF Stores, InsertRow
    <2>2. Received(About[Email(p)]).status # "none"
        BY DEF Received, NoMessage
    <2>. QED
        BY <1>0, <2>1, <2>2 DEF Seen, Exists, BoxOf
<1>2. CASE ~Stores(p)
    BY <1>2, SeenSteps
<1>. QED
    BY <1>1, <1>2

(* What a step does to threads: one that is referred to stays as it is,    *)
(* one that is in use may go, and a key has one thread.                    *)
LEMMA ThreadsLast ==
    ASSUME TypeInv, ThreadInv, NEW p \in Procs, Process(p) \/ Failure(p)
    PROVE  /\ \A t \in Threads : Referenced(t) /\ thread[t] # None => thread'[t] = thread[t]
           /\ \A t \in Threads : InUse(t) => thread'[t] \in {thread[t], None}
           /\ KeysApart'
<1>0. thread \in [Threads -> ThreadKeys \union {None}] /\ KeysApart
    BY DEF TypeInv, RowsInv, MailTypes, ThreadInv
<1>1. CASE thread' = thread
    BY <1>0, <1>1 DEF KeysApart
<1>2. CASE GetThread(p) /\ thread' # thread
    <2>. DEFINE k == Key(p)
    <2>1. /\ WithKey(k) = {} /\ \E t \in Threads : ~InUse(t)
          /\ thread' = [thread EXCEPT ![NewThread] = k]
        BY <1>2 DEF GetThread
    <2>2. NewThread \in Threads /\ ~InUse(NewThread)
        BY <2>1 DEF NewThread
    <2>3. thread[NewThread] = None
        BY <2>2 DEF InUse
    <2>4. \A t \in Threads : thread[t] # k
        BY <2>1 DEF WithKey
    <2>. HIDE DEF k
    <2>5. \A t \in Threads : thread'[t] = IF t = NewThread THEN k ELSE thread[t]
        BY <1>0, <2>1, <2>2
    <2>6. KeysApart'
        BY <1>0, <2>4, <2>5 DEF KeysApart
    <2>. QED
        BY <2>2, <2>3, <2>5, <2>6
<1>3. CASE DropThread(p)
    <2>1. \A t \in Threads : thread'[t] = thread[t] \/ (thread'[t] = None /\ ~Referenced(t))
        BY <1>0, <1>3 DEF DropThread
    <2>2. KeysApart'
        BY <1>0, <2>1 DEF KeysApart
    <2>. QED
        BY <2>1, <2>2
<1>. QED
    BY <1>1, <1>2, <1>3, StepTypes DEF Frames

(* An outbound message that is in a thread stays in it; it joins the one   *)
(* that has its key.                                                       *)
LEMMA AssignIs ==
    ASSUME TypeInv, ThreadInv, NEW p \in Procs, Assign(p), thread[proc[p].thread] # None
    PROVE  LET o == proc[p].out
               t == proc[p].thread
           IN /\ o \in Sent /\ t \in Threads /\ thread[t] = <<OutBox[o], o>>
              /\ sentThread' = [sentThread EXCEPT ![o] = t]
              /\ sentThread[o] # None => sentThread[o] = t
<1>. SUFFICES ASSUME NEW o, o = proc[p].out, NEW t, t = proc[p].thread, NEW m, m = proc[p].msg
              PROVE  /\ o \in Sent /\ t \in Threads /\ thread[t] = <<OutBox[o], o>>
                     /\ sentThread' = [sentThread EXCEPT ![o] = t]
                     /\ sentThread[o] # None => sentThread[o] = t
    OBVIOUS
<1>1. proc[p].pc = "Assign" /\ sentThread' = [sentThread EXCEPT ![o] = t]
    BY DEF Assign, At
<1>2. o \in Sent /\ t \in Threads /\ m \in Messages
    BY <1>1, JoiningIs DEF Joining
<1>3. Found(m, o) /\ thread[t] = <<BoxOf(m), o>>
    BY <1>1 DEF ThreadInv, FindsOK
<1>4. OutBox[o] = BoxOf(m)
    BY <1>2, <1>3, KeyIs DEF Found
<1>5. ASSUME sentThread[o] # None PROVE sentThread[o] = t
    <2>1. thread[sentThread[o]] = <<OutBox[o], o>> /\ sentThread[o] \in Threads
        BY <1>2, <1>5 DEF ThreadInv, SentStand, TypeInv, RowsInv, MailTypes
    <2>2. thread[sentThread[o]] = thread[t] /\ thread[t] # None
        BY <1>3, <1>4, <2>1
    <2>. QED
        BY <1>2, <2>1, <2>2 DEF ThreadInv, KeysApart
<1>. QED
    BY <1>1, <1>2, <1>3, <1>4, <1>5

LEMMA SentLast ==
    ASSUME TypeInv, ThreadInv, NEW p \in Procs, Process(p) \/ Failure(p)
    PROVE  /\ \A o \in Sent : sentThread[o] # None => sentThread'[o] = sentThread[o]
           /\ SentStand'
<1>0. sentThread \in [Sent -> Threads \union {None}]
    BY DEF TypeInv, RowsInv, MailTypes
<1>1. ASSUME NEW o \in Sent, sentThread[o] # None
      PROVE  thread'[sentThread[o]] = <<OutBox[o], o>>
    <2>1. thread[sentThread[o]] = <<OutBox[o], o>> /\ OutBox[o] \in Boxes
        BY <1>1, InboundAssumption DEF ThreadInv, SentStand
    <2>2. thread[sentThread[o]] # None /\ Referenced(sentThread[o]) /\ sentThread[o] \in Threads
        BY <1>0, <1>1, <2>1, KeyIs DEF Referenced
    <2>. QED
        BY <2>1, <2>2, ThreadsLast
<1>2. CASE sentThread' = sentThread
    BY <1>1, <1>2 DEF SentStand
<1>3. CASE Assign(p) /\ sentThread' # sentThread
    <2>. SUFFICES ASSUME NEW o, o = proc[p].out, NEW t, t = proc[p].thread
                  PROVE  /\ \A s \in Sent : sentThread[s] # None => sentThread'[s] = sentThread[s]
                         /\ SentStand'
        OBVIOUS
    <2>1. thread[t] # None /\ thread' = thread
        BY <1>3 DEF Assign
    <2>2. /\ o \in Sent /\ t \in Threads /\ thread[t] = <<OutBox[o], o>>
          /\ sentThread' = [sentThread EXCEPT ![o] = t]
          /\ sentThread[o] # None => sentThread[o] = t
        BY <1>3, <2>1, AssignIs
    <2>3. \A s \in Sent : sentThread'[s] = IF s = o THEN t ELSE sentThread[s]
        BY <1>0, <2>2
    <2>4. SentStand'
        BY <1>1, <2>1, <2>2, <2>3 DEF SentStand
    <2>. QED
        BY <2>2, <2>3, <2>4
<1>. QED
    BY <1>2, <1>3, StepTypes DEF Frames

(* What was found stays found.                                             *)
LEMMA BelongsStays ==
    ASSUME TypeInv, ThreadInv, NEW p \in Procs, Process(p) \/ Failure(p),
           NEW m, NEW t \in Threads, InUse(t), Belongs(m, t)
    PROVE  Belongs(m, t)'
<1>1. thread'[t] # None => thread[t] = thread'[t]
    BY ThreadsLast
<1>2. t # None
    BY KeyIs
<1>3. \A o \in Sent : sentThread[o] = t => sentThread'[o] = t
    BY <1>2, SentLast
<1>. QED
    BY <1>1, <1>3 DEF Belongs, BoxOf, Answers

LEMMA StandsStays ==
    ASSUME TypeInv, ThreadInv, NEW p \in Procs, Process(p) \/ Failure(p), NEW m \in Messages,
           message'[m].thread \in {message[m].thread, None}
    PROVE  Stands(m)'
<1>. SUFFICES ASSUME NEW t, t = message'[m].thread, t # None
              PROVE  Seen(m)' /\ thread'[t] # None /\ Belongs(m, t)'
    BY DEF Stands, Belongs, BoxOf, Answers
<1>1. t = message[m].thread /\ t \in Threads
    BY DEF TypeInv, RowsInv, MailTypes, MsgType
<1>2. Seen(m) /\ thread[t] # None /\ Belongs(m, t)
    BY <1>1 DEF ThreadInv, Stands
<1>3. InUse(t) /\ Referenced(t)
    BY <1>1, <1>2 DEF InUse, Referenced
<1>. QED
    BY <1>1, <1>2, <1>3, SeenStays, ThreadsLast, BelongsStays

LEMMA NormalizeStands ==
    ASSUME TypeInv, ThreadInv, NEW p \in Procs, Process(p) \/ Failure(p), NEW m \in Messages,
           Normalize(p), CanNormalize(p), m = proc[p].msg, message'[m].thread = proc[p].thread
    PROVE  Stands(m)'
<1>. SUFFICES ASSUME NEW t, t = message'[m].thread
              PROVE  Seen(m)' /\ thread'[t] # None /\ Belongs(m, t)'
    BY DEF Stands, Belongs, BoxOf, Answers
<1>1. proc[p].pc = "Normalize" /\ UNCHANGED <<thread, sentThread>> /\ thread[t] # None
    BY DEF Normalize, CanNormalize, At
<1>2. Seen(m) /\ t \in Threads
    BY <1>1, JoiningIs DEF Joining
<1>3. Belongs(m, t)
    BY <1>1 DEF ThreadInv, FindsOK
<1>. QED
    BY <1>1, <1>2, <1>3, SeenStays DEF Belongs, BoxOf, Answers

(* The thread of an email that is referred to, or of what it may answer.   *)
LEMMA ExactBelongs ==
    ASSUME TypeInv, IdInv, ThreadInv, NEW m \in Messages, NEW t \in ExactThreads(About[m[1]])
    PROVE  t \in Threads /\ Belongs(m, t)
<1>. DEFINE e == About[m[1]]
<1>0. t # None /\ t \in ThreadsOfId(e.box, e.ref)
    BY DEF ExactThreads
<1>1. ASSUME NEW k \in Messages, e.ref # None, Seen(k), BoxOf(k) = e.box, message[k].id = e.ref,
             t = message[k].thread
      PROVE  t \in Threads /\ Belongs(m, t)
    <2>1. t \in Threads /\ Stands(k)
        BY <1>0, <1>1 DEF TypeInv, RowsInv, MailTypes, MsgType, ThreadInv
    <2>2. thread[t] # None => thread[t][1] = BoxOf(m)
        BY <1>0, <1>1, <2>1 DEF Stands, Belongs, BoxOf
    <2>3. k[1] \in Emails /\ About[k[1]].id = e.ref
        BY <1>1, MessageIs DEF IdInv, IdOf, Seen
    <2>4. \A o \in Sent : ~Answers(e, o)
        BY <1>1, <2>3 DEF Answers
    <2>. QED
        BY <2>1, <2>2, <2>4 DEF Belongs
<1>2. ASSUME NEW s \in Sent, OutBox[s] = e.box, s = e.ref, t = sentThread[s]
      PROVE  t \in Threads /\ Belongs(m, t)
    <2>1. t \in Threads /\ thread[t] = <<OutBox[s], s>>
        BY <1>0, <1>2 DEF TypeInv, RowsInv, MailTypes, ThreadInv, SentStand
    <2>2. \A o \in Sent : Answers(e, o) => o = s
        BY <1>2, KeyIs DEF Answers
    <2>. QED
        BY <1>2, <2>1, <2>2 DEF Belongs, BoxOf
<1>. QED
    BY <1>0, <1>1, <1>2 DEF ThreadsOfId

LEMMA CandidateBelongs ==
    ASSUME TypeInv, ThreadInv, NEW m \in Messages, NEW o \in Candidates(About[m[1]])
    PROVE  /\ Found(m, o)
           /\ sentThread[o] # None => sentThread[o] \in Threads /\ Belongs(m, sentThread[o])
<1>1. o \in About[m[1]].answers /\ o \in Sent /\ OutBox[o] = BoxOf(m)
    BY KeyIs DEF Candidates
<1>2. \A s \in Sent : Answers(About[m[1]], s) => o = s
    BY <1>1 DEF Answers
<1>3. ASSUME sentThread[o] # None
      PROVE  sentThread[o] \in Threads /\ Belongs(m, sentThread[o])
    <2>1. sentThread[o] \in Threads /\ thread[sentThread[o]] = <<OutBox[o], o>>
        BY <1>1, <1>3 DEF TypeInv, RowsInv, MailTypes, ThreadInv, SentStand
    <2>. QED
        BY <1>1, <1>2, <2>1 DEF Belongs
<1>. QED
    BY <1>1, <1>2, <1>3 DEF Found

LEMMA OneAnswer ==
    ASSUME NEW e, Cardinality(CandidateKeys(e)) # 1, NEW o \in Sent
    PROVE  ~Answers(e, o)
<1>. SUFFICES ASSUME Answers(e, o) PROVE FALSE
    OBVIOUS
<1>1. Candidates(e) = {o}
    BY DEF Candidates, Answers
<1>. DEFINE k == IF sentThread[o] # None THEN <<"thread", sentThread[o]>> ELSE <<"message", o>>
<1>2. CandidateKeys(e) = {k}
    BY <1>1 DEF CandidateKeys
<1>. HIDE DEF k
<1>. QED
    BY <1>2, FS_Singleton

LEMMA FindThreadFinds ==
    ASSUME TypeInv, IdInv, ThreadInv, NEW p \in Procs, FindThread(p)
    PROVE  FindsOK(p)'
<1>. SUFFICES ASSUME NEW m, m = proc[p].msg PROVE FindsOK(p)'
    OBVIOUS
<1>. DEFINE e == About[m[1]]
            o == CHOOSE c \in Candidates(e) : TRUE
            joins == Cardinality(CandidateKeys(e)) = 1
            told == sentThread[o] # None /\ thread[sentThread[o]] # None
<1>0. /\ proc[p] \in ProcType /\ m \in Messages /\ e = It(p)
      /\ UNCHANGED <<thread, sentThread>>
    BY JoiningIs DEF FindThread, At, It, mailVars
<1>1. ASSUME NEW t \in Threads, Belongs(m, t), FoundThread(p, t)
      PROVE  FindsOK(p)'
    <2>. DEFINE x == [proc[p] EXCEPT !.pc = "PutNormalized", !.thread = t]
    <2>1. Put(p, x) /\ x.pc = "PutNormalized" /\ x.thread = t /\ x.msg = m
        BY <1>0, <1>1 DEF FoundThread, ProcType
    <2>. HIDE DEF x
    <2>2. proc'[p] = x
        BY <2>1, PutOnly
    <2>3. Belongs(m, t)'
        BY <1>0, <1>1 DEF Belongs, BoxOf, Answers
    <2>. QED
        BY <2>1, <2>2, <2>3, FindsThen
<1>2. ASSUME NEW s, Found(m, s), ToGetThread(p, s)
      PROVE  FindsOK(p)'
    <2>. DEFINE x == [proc[p] EXCEPT !.pc = "GetThread", !.out = s]
    <2>1. Put(p, x) /\ x.pc = "GetThread" /\ x.out = s /\ x.msg = m
        BY <1>0, <1>2 DEF ToGetThread, ProcType
    <2>. HIDE DEF x
    <2>2. proc'[p] = x
        BY <2>1, PutOnly
    <2>. QED
        BY <1>2, <2>1, <2>2, FindsThen
<1>3. joins => o \in Candidates(e)
    BY FS_EmptySet DEF CandidateKeys
<1>4. \/ \E t \in ExactThreads(e) : FoundThread(p, t)
      \/ joins /\ told /\ FoundThread(p, sentThread[o])
      \/ joins /\ ToGetThread(p, o)
      \/ ~joins /\ ToGetThread(p, None)
    BY <1>0 DEF FindThread, ToGetThread
<1>5. CASE \E t \in ExactThreads(e) : FoundThread(p, t)
    BY <1>0, <1>1, <1>5, ExactBelongs
<1>6. CASE joins /\ told /\ FoundThread(p, sentThread[o])
    <2>. HIDE DEF o
    <2>1. sentThread[o] \in Threads /\ Belongs(m, sentThread[o])
        BY <1>0, <1>3, <1>6, CandidateBelongs
    <2>. QED
        BY <1>1, <1>6, <2>1
<1>7. CASE joins /\ ToGetThread(p, o)
    <2>. HIDE DEF o
    <2>1. Found(m, o)
        BY <1>0, <1>3, <1>7, CandidateBelongs
    <2>. QED
        BY <1>2, <1>7, <2>1
<1>8. CASE ~joins /\ ToGetThread(p, None)
    <2>1. Found(m, None)
        BY <1>8, OneAnswer DEF Found
    <2>. QED
        BY <1>2, <1>8, <2>1
<1>. QED
    BY <1>4, <1>5, <1>6, <1>7, <1>8

LEMMA GetThreadFinds ==
    ASSUME TypeInv, ThreadInv, NEW p \in Procs, GetThread(p)
    PROVE  FindsOK(p)'
<1>. SUFFICES ASSUME NEW m, m = proc[p].msg, NEW s, s = proc[p].out PROVE FindsOK(p)'
    OBVIOUS
<1>0. /\ proc[p].pc = "GetThread" /\ proc[p] \in ProcType /\ m \in Messages
      /\ sentThread' = sentThread /\ thread \in [Threads -> ThreadKeys \union {None}]
    BY JoiningIs DEF GetThread, At, Joining, TypeInv, RowsInv, MailTypes
<1>1. Found(m, s)
    BY <1>0 DEF ThreadInv, FindsOK
<1>. DEFINE k == Key(p)
<1>2. k[1] = BoxOf(m) /\ (s # None => k = <<BoxOf(m), s>>)
    BY DEF Key, It, BoxOf
<1>3. PICK t \in Threads : GotThread(p, t) /\ thread'[t] = k
    <2>1. \/ \E t \in WithKey(k) : GotThread(p, t) /\ thread' = thread
          \/ /\ \E t \in Threads : ~InUse(t)
             /\ thread' = [thread EXCEPT ![NewThread] = k]
             /\ GotThread(p, NewThread)
        BY DEF GetThread
    <2>. HIDE DEF k
    <2>2. CASE \E t \in WithKey(k) : GotThread(p, t) /\ thread' = thread
        BY <2>2 DEF WithKey
    <2>3. CASE /\ \E t \in Threads : ~InUse(t)
               /\ thread' = [thread EXCEPT ![NewThread] = k]
               /\ GotThread(p, NewThread)
        <3>1. NewThread \in Threads
            BY <2>3 DEF NewThread
        <3>. QED
            BY <1>0, <2>3, <3>1
    <2>. QED
        BY <2>1, <2>2, <2>3
<1>. HIDE DEF k
<1>. DEFINE c == IF s # None THEN "Assign" ELSE "PutNormalized"
            x == [proc[p] EXCEPT !.pc = c, !.thread = t]
<1>4. Put(p, x)
    BY <1>3 DEF GotThread
<1>5. c \in {"Assign", "PutNormalized"} /\ (c = "Assign" <=> s # None)
    OBVIOUS
<1>. HIDE DEF c
<1>6. x.pc = c /\ x.thread = t /\ x.msg = m /\ x.out = s
    BY <1>0 DEF ProcType
<1>. HIDE DEF x
<1>7. proc'[p] = x
    BY <1>4, PutOnly
<1>8. s = None => Belongs(m, t)'
    <2>1. s = None => \A o \in Sent : ~Answers(About[m[1]], o)
        BY <1>1, KeyIs DEF Found
    <2>. QED
        BY <1>2, <1>3, <2>1 DEF Belongs, BoxOf, Answers
<1>. QED
    BY <1>1, <1>2, <1>3, <1>5, <1>6, <1>7, <1>8, FindsThen

LEMMA AssignFinds ==
    ASSUME TypeInv, ThreadInv, NEW p \in Procs, Assign(p)
    PROVE  FindsOK(p)'
<1>. SUFFICES ASSUME NEW m, m = proc[p].msg, NEW o, o = proc[p].out, NEW t, t = proc[p].thread
              PROVE  FindsOK(p)'
    OBVIOUS
<1>0. proc[p].pc = "Assign" /\ proc[p] \in ProcType /\ thread' = thread
    BY JoiningIs DEF Assign, At, Joining
<1>1. CASE Go(p, "DropThread")
    BY <1>1, GoPasses, FilingNames, FindsNone DEF Passes, Joining
<1>2. CASE thread[t] # None /\ Go(p, "PutNormalized")
    <2>. DEFINE x == [proc[p] EXCEPT !.pc = "PutNormalized"]
    <2>1. proc'[p] = x
        BY <1>2, GoIs, PutOnly DEF TypeInv
    <2>2. x.pc = "PutNormalized" /\ x.thread = t /\ x.msg = m /\ x.out = o
        BY <1>0 DEF ProcType
    <2>. HIDE DEF x
    <2>3. Found(m, o) /\ thread[t] = <<BoxOf(m), o>>
        BY <1>0, <1>2 DEF ThreadInv, FindsOK
    <2>4. sentThread'[o] = t
        <3>1. o \in Sent /\ sentThread' = [sentThread EXCEPT ![o] = t]
            BY <1>2, AssignIs
        <3>. QED
            BY <3>1 DEF TypeInv, RowsInv, MailTypes
    <2>5. Belongs(m, t)'
        BY <1>0, <2>3, <2>4 DEF Belongs, BoxOf, Answers, Found
    <2>. QED
        BY <2>1, <2>2, <2>5, FindsThen
<1>. QED
    BY <1>1, <1>2 DEF Assign

LEMMA PutFinds ==
    ASSUME TypeInv, ThreadInv, NEW p \in Procs, PutNormalized(p)
    PROVE  FindsOK(p)'
<1>. SUFFICES ASSUME NEW m, m = proc[p].msg, NEW t, t = proc[p].thread PROVE FindsOK(p)'
    OBVIOUS
<1>0. /\ proc[p].pc = "PutNormalized" /\ proc[p] \in ProcType
      /\ UNCHANGED <<thread, sentThread>> /\ Go(p, "Normalize")
    BY JoiningIs DEF PutNormalized, At, Joining, mailVars
<1>. DEFINE x == [proc[p] EXCEPT !.pc = "Normalize"]
<1>1. proc'[p] = x
    BY <1>0, GoIs, PutOnly DEF TypeInv
<1>2. x.pc = "Normalize" /\ x.thread = t /\ x.msg = m
    BY <1>0 DEF ProcType
<1>. HIDE DEF x
<1>3. Belongs(m, t)
    BY <1>0 DEF ThreadInv, FindsOK
<1>4. Belongs(m, t)'
    BY <1>0, <1>3 DEF Belongs, BoxOf, Answers
<1>. QED
    BY <1>1, <1>2, <1>4, FindsThen

(* A process that does not move, or that has done with its thread.         *)
LEMMA FindsStays ==
    ASSUME TypeInv, ThreadInv, NEW p \in Procs, Process(p) \/ Failure(p),
           NEW q \in Procs, proc'[q] = proc[q]
    PROVE  FindsOK(q)'
<1>. SUFFICES ASSUME NEW m, m = proc[q].msg, NEW t, t = proc[q].thread, NEW s, s = proc[q].out
              PROVE  FindsOK(q)'
    OBVIOUS
<1>1. FindsOK(q)
    BY DEF ThreadInv
<1>2. proc[q].pc \in {"Assign", "PutNormalized", "Normalize"} => t \in Threads /\ InUse(t)
    BY JoiningIs DEF InUse, Joining
<1>3. proc[q].pc = "Assign" => thread'[t] \in {None, <<BoxOf(m), s>>}
    BY <1>1, <1>2, ThreadsLast DEF FindsOK
<1>4. proc[q].pc \in {"PutNormalized", "Normalize"} => Belongs(m, t)'
    BY <1>1, <1>2, BelongsStays DEF FindsOK
<1>. QED
    BY <1>1, <1>3, <1>4, FindsThen DEF FindsOK

LEMMA StepThreads ==
    ASSUME TypeInv, IdInv, ReviewInv, ThreadInv, NEW p \in Procs, Process(p) \/ Failure(p)
    PROVE  ThreadInv'
<1>1. KeysApart' /\ SentStand'
    BY ThreadsLast, SentLast
<1>2. ASSUME NEW m \in Messages PROVE Stands(m)'
    BY MessageThreads, StandsStays, NormalizeStands
<1>3. ASSUME NEW q \in Procs PROVE FindsOK(q)'
    <2>1. CASE proc'[q] = proc[q]
        BY <2>1, FindsStays
    <2>2. CASE q # p /\ proc'[q] # proc[q]
        <3>1. proc'[q].pc = "queued"
            BY <2>2, StepPasses DEF OnlyProc
        <3>. QED
            BY <3>1, FindsNone DEF Joining
    <2>3. CASE q = p
        <3>1. CASE Joins(p)
            BY <2>3, <3>1, FindThreadFinds, GetThreadFinds, AssignFinds, PutFinds DEF Joins
        <3>2. CASE proc'[p].pc \notin Joining
            BY <2>3, <3>2, FindsNone
        <3>. QED
            BY <3>1, <3>2, StepPasses
    <2>. QED
        BY <2>1, <2>2, <2>3
<1>. QED
    BY <1>1, <1>2, <1>3 DEF ThreadInv

LEMMA OtherThreads ==
    ASSUME TypeInv, ThreadInv, (\E b \in Boxes : Close(b) \/ Retarget(b)) \/ UNCHANGED vars
    PROVE  ThreadInv'
<1>1. /\ UNCHANGED <<message, proc, thread, sentThread>>
      /\ \A m \in Messages : Seen(m)' <=> Seen(m)
    <2>1. UNCHANGED <<thread, sentThread>>
        BY DEF Close, Retarget, vars, mailVars
    <2>. QED
        BY <2>1, OtherSeen
<1>2. KeysApart' /\ SentStand'
    BY <1>1 DEF ThreadInv, KeysApart, SentStand
<1>3. ASSUME NEW m \in Messages PROVE Stands(m)'
    BY <1>1 DEF ThreadInv, Stands, Belongs, BoxOf, Answers
<1>4. ASSUME NEW p \in Procs PROVE FindsOK(p)'
    BY <1>1 DEF ThreadInv, FindsOK, Found, Belongs, BoxOf, Answers
<1>. QED
    BY <1>2, <1>3, <1>4 DEF ThreadInv

LEMMA InitThreads == Init => ThreadInv
<1>. SUFFICES ASSUME Init PROVE ThreadInv
    OBVIOUS
<1>1. KeysApart /\ SentStand
    BY DEF Init, KeysApart, SentStand
<1>2. ASSUME NEW m \in Messages PROVE Stands(m)
    BY DEF Init, NoMessage, Stands
<1>3. ASSUME NEW p \in Procs PROVE FindsOK(p)
    BY DEF Init, IdleProc, FindsOK
<1>. QED
    BY <1>1, <1>2, <1>3 DEF ThreadInv

(* A thread that a message or an outbound message names is there, whatever *)
(* ingest is rolled back at its side, and a message is in a thread of its  *)
(* own mailbox: in that of the one outbound message it can answer, if it   *)
(* refers to no other.  findThreadByReplyContext, assignMessageThreadId    *)
(* and deleteThreadIfUnreferenced keep that with any number of ingests.    *)
THEOREM ThreadsKept == Spec => []ThreadsStand
<1>1. Inv /\ ThreadInv => ThreadsStand
    <2>. SUFFICES ASSUME Inv, ThreadInv PROVE ThreadsStand
        OBVIOUS
    <2>1. \A o \in Sent : sentThread[o] # None => thread[sentThread[o]] # None
        <3>1. \A o \in Sent : OutBox[o] \in Boxes
            BY InboundAssumption
        <3>. QED
            BY <3>1, KeyIs DEF ThreadInv, SentStand
    <2>. QED
        BY <2>1 DEF ThreadInv, Stands, Belongs, ThreadsStand
<1>2. Inv /\ ReviewInv /\ ThreadInv /\ [Next]_vars => ThreadInv'
    BY StepThreads, OtherThreads DEF Inv, MailInv, Next
<1>3. Spec => []ReviewInv
    BY InitReview, NextReview, Invariance, PTL DEF Spec
<1>4. Spec => []ThreadInv
    BY <1>2, <1>3, InitThreads, Invariance, PTL DEF Spec
<1>. QED
    BY <1>1, <1>4, Invariance, PTL

=============================================================================
