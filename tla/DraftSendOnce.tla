--------------------------- MODULE DraftSendOnce ---------------------------
(***************************************************************************)
(* Type correctness of DraftSend and its promises, for any number of       *)
(* requests, drafts and keys: that a draft or a keyed request is mailed    *)
(* once, whatever fails; that a failed request can be retried under its    *)
(* key; that clients are answered with one job a key; and that a request   *)
(* whose rollback ran leaves nothing behind.                               *)
(***************************************************************************)
EXTENDS DraftSend, FiniteSetTheorems, TLAPS

-----------------------------------------------------------------------------
(* The inductive invariant.                                                *)

(* A completed key names what it was completed with; what is named as a    *)
(* job is one.                                                             *)
NamesJob(x) == x # None /\ x[1] = "job" => x[2] \in Requests
KeyOK(k) == (k.status = "completed" => k.resource # None) /\ NamesJob(k.resource)
KeysOK == \A s \in Slots : KeyOK(keys[s])

(* What a request knows at a step.                                         *)
Sending == {"Load", "Claim", "Thread", "AssignThread", "Reserve", "Message", "Job", "Queue"}
Informed == {"ValidateReplay", "FindDraft", "FindJob", "FindMessage"}
Decided == {"LinkJob", "Complete", "CompleteReplay", "FindMessage", "Reread"}

LocalOK(p) ==
    /\ p.pc # "idle" => p.draft \in Drafts
    /\ p.pc \in KeySteps \union ReplaySteps \/ p.releases \/ p.replay => p.key # None
    /\ p.kind = "cancel" => p.key = None
    /\ p.pc \in Informed => p.resource # None
    /\ NamesJob(p.resource)
    /\ p.pc \in Decided \/ (p.pc = "LinkDraft" /\ p.kind = "workflow") => p.job # None
LocalsOK == \A r \in Requests : LocalOK(proc[r])

TypeInv == TypeOK /\ KeysOK /\ LocalsOK

(* Before it inserts its job, a request has none.                          *)
Early(p) ==
    \/ p.pc \in {"idle", "CheckKey", "InsertKey", "RecheckKey", "Validate", "Create"}
    \/ p.pc \in {"ValidateReplay", "FindDraft", "FindJob"}
    \/ p.pc \in Sending \ {"Queue"}
    \/ p.pc = "LinkDraft" /\ p.kind # "workflow"

Sure == "ambiguous" \notin failed
Out(r) == r \in queue \union mailed
Visible(j) == job[j].status # "none" /\ message[j] # None

(* A message is in the queue, or was mailed, only with its job and message *)
(* rows, which are rolled back only before.                                *)
RowsOf(r) ==
    LET p == proc[r] IN
    /\ Early(p) => job[r].status = "none" /\ ~Out(r)
    /\ p.pc \in {"Reserve", "Message"} => p.created \/ p.prior # None
    /\ p.pc = "AssignThread" => p.created
    /\ p.pc \in {"Job", "Queue"} => message[r] # None
    /\ p.pc = "Queue" => job[r].status # "none" /\ job[r].draft = p.draft
    /\ Sure /\ p.pc \in UndoSteps \union {"Queue"} => ~Out(r)
    /\ Sure /\ Out(r) => Visible(r) /\ job[r].draft = p.draft

(* A draft has one job whose message is there.                             *)
OneJob ==
    \A i, j \in Requests :
        Visible(i) /\ Visible(j) /\ job[i].draft = job[j].draft => i = j

RowsInv == (\A r \in Requests : RowsOf(r)) /\ OneJob

(* A request of a client, and one under a key that was not pruned.         *)
Client(p) == p.kind \in {"create", "workflow", "send"}
Keyed(r) == Client(proc[r]) /\ proc[r].key # None /\ Slot(r) \notin lapsed
KeyOf(r) == keys[Slot(r)]

(* It owns the key from its insertion to its release; or it goes on with   *)
(* what it found under the key.                                            *)
Unowned == {"idle", "CheckKey", "InsertKey", "RecheckKey"}
OwnSteps == {"Validate", "Create", "LinkDraft", "LinkJob", "Complete", "ReleaseKey"}
Owner(r) ==
    ~proc[r].replay /\ (proc[r].pc \in OwnSteps \union Sending \union UndoSteps \/ Out(r))
Replayer(r) ==
    \/ proc[r].pc \in Informed \union {"Reread", "CompleteReplay"}
    \/ proc[r].replay /\ (proc[r].pc \in Sending \union UndoSteps \/ Out(r))

(* How far a request that would still release its key can have come.       *)
Uncommitted(p) ==
    /\ ~p.replay
    /\ \/ p.pc \in {"Validate", "ReleaseKey"}
       \/ p.kind = "send" /\ p.pc \in Sending \union UndoSteps
       \/ p.kind # "send" /\ p.pc = "Create"

Progress(p) ==
    Client(p) =>
      /\ p.replay => p.kind # "send" /\ p.pc \notin Unowned \union OwnSteps
      /\ p.pc \in Steps /\ p.releases => Uncommitted(p)
      /\ p.pc = "ReleaseKey" => p.releases
      /\ p.pc = "LinkJob" => p.kind = "send"
      /\ p.pc \in {"Create", "LinkDraft", "FindDraft", "Reread"} => p.kind # "send"

(* What the record of a key says about the requests under it: who owns it  *)
(* alone decides what it names, and those who go on with it work on the    *)
(* draft it names.                                                         *)
OwnDraft(r) ==
    proc[r].kind \in ReplaysDraft /\ (proc[r].pc \in Unowned \ {"idle"} \/ Owner(r))
      => proc[r].draft = r
FitsOwner(r, k) ==
    /\ k.status # "none" /\ k.what = Fingerprint(r)
    /\ proc[r].releases => k.resource = None
    /\ proc[r].kind \in ReplaysDraft => k.resource \in {None, <<"draft", r>>}
FitsReplayer(r, k) ==
    /\ k.status # "none" /\ k.what = Fingerprint(r) /\ k.resource # None
    /\ proc[r].kind \in ReplaysDraft =>
         k.resource = IF proc[r].pc \in {"ValidateReplay", "FindDraft"}
                      THEN proc[r].resource ELSE <<"draft", proc[r].draft>>
Owned(r) == Keyed(r) /\ Owner(r) => FitsOwner(r, KeyOf(r))
Replayed(r) == Keyed(r) /\ Replayer(r) => FitsReplayer(r, KeyOf(r))
NamesDraft(s) ==
    keys[s].what \in ReplaysDraft /\ keys[s].resource # None => keys[s].resource[1] = "draft"

(* One that would still release its key has nothing in the queue.          *)
Unsent(r) == Client(proc[r]) /\ proc[r].releases => ~Out(r)

RequestInv(r) == Progress(proc[r]) /\ Unsent(r) /\ OwnDraft(r) /\ Owned(r) /\ Replayed(r)
RequestsInv == \A r \in Requests : RequestInv(r)
OneOwner ==
    \A q, r \in Requests :
        Keyed(q) /\ Keyed(r) /\ Owner(q) /\ Owner(r) /\ Slot(q) = Slot(r) => q = r
SlotsInv == \A k \in Keys : <<"draft_send", k>> \notin lapsed => NamesDraft(<<"draft_send", k>>)

KeyInv == Sure => RequestsInv /\ OneOwner /\ SlotsInv

SendInv == TypeInv /\ RowsInv /\ KeyInv

-----------------------------------------------------------------------------
(* How a request moves.                                                    *)

Pcs == Steps \union Answers \union {"idle", "dead"}

(* Only r moves, and to step s.                                            *)
Moves(r, s) ==
    /\ proc' \in [Requests -> ProcType]
    /\ \A q \in Requests \ {r} : proc'[q] = proc[q]
    /\ proc'[r].pc = s /\ proc'[r].kind = proc[r].kind /\ proc'[r].key = proc[r].key

KeepsRelease(r) == proc'[r].releases = proc[r].releases
KeepsReplay(r) == proc'[r].replay = proc[r].replay
KeepsDraft(r) == proc'[r].draft = proc[r].draft
KeepsThread(r) == proc'[r].prior = proc[r].prior /\ proc'[r].created = proc[r].created
KeepsFound(r) == proc'[r].resource = proc[r].resource /\ proc'[r].job = proc[r].job

(* All the rest stays.                                                     *)
Goes(r, s) ==
    /\ Moves(r, s)
    /\ KeepsRelease(r) /\ KeepsReplay(r) /\ KeepsDraft(r) /\ KeepsThread(r) /\ KeepsFound(r)

LEMMA RecordMoves ==
    ASSUME TypeOK, NEW r \in Requests, NEW l \in ProcType, proc' = [proc EXCEPT ![r] = l]
    PROVE  /\ proc' \in [Requests -> ProcType]
           /\ \A q \in Requests \ {r} : proc'[q] = proc[q]
           /\ proc'[r] = l
BY DEF TypeOK

LEMMA GoMoves ==
    ASSUME TypeOK, NEW r \in Requests, NEW s \in Pcs, Go(r, s)
    PROVE  Goes(r, s)
<1>. DEFINE l == [proc[r] EXCEPT !.pc = s]
<1>. proc[r] \in ProcType
    BY DEF TypeOK
<1>1. l \in ProcType /\ l.pc = s
    BY DEF ProcType, Pcs
<1>2. /\ l.kind = proc[r].kind /\ l.key = proc[r].key /\ l.draft = proc[r].draft
      /\ l.releases = proc[r].releases /\ l.replay = proc[r].replay
      /\ l.prior = proc[r].prior /\ l.created = proc[r].created
      /\ l.resource = proc[r].resource /\ l.job = proc[r].job
    BY DEF TypeOK, ProcType
<1>3. proc' = [proc EXCEPT ![r] = l]
    BY DEF Go
<1>. HIDE DEF l
<1>. QED
    BY <1>1, <1>2, <1>3, RecordMoves
       DEF Goes, Moves, KeepsRelease, KeepsReplay, KeepsDraft, KeepsThread, KeepsFound

LEMMA AnswerMoves ==
    ASSUME TypeOK, NEW r \in Requests, NEW k \in KeyRecords, Answer(r, k)
    PROVE  \E s \in {"ValidateReplay", "refused"} :
             /\ Moves(r, s)
             /\ s = "ValidateReplay" => /\ k.what = Fingerprint(r)
                                        /\ k.status = "completed" \/ k.resource # None
             /\ KeepsRelease(r) /\ KeepsReplay(r) /\ KeepsDraft(r) /\ KeepsThread(r)
             /\ proc'[r].resource = k.resource /\ proc'[r].job = k.response
<1>. DEFINE b == k.what = Fingerprint(r) /\ (k.status = "completed" \/ k.resource # None)
            s == IF b THEN "ValidateReplay" ELSE "refused"
<1>. HIDE DEF b
<1>. DEFINE l == [proc[r] EXCEPT !.pc = s, !.resource = k.resource, !.job = k.response]
<1>. proc[r] \in ProcType
    BY DEF TypeOK
<1>0. /\ s \in Pcs /\ k.response \in Requests \union {None}
      /\ k.resource \in {None} \union ({"draft", "job"} \X Drafts)
    BY DEF KeyRecords, Pcs, Steps, ReplaySteps, Answers
<1>. HIDE DEF s
<1>1. l \in ProcType /\ l.pc = s /\ l.resource = k.resource /\ l.job = k.response
    BY <1>0 DEF ProcType, Pcs
<1>2. /\ l.kind = proc[r].kind /\ l.key = proc[r].key /\ l.draft = proc[r].draft
      /\ l.releases = proc[r].releases /\ l.replay = proc[r].replay
      /\ l.prior = proc[r].prior /\ l.created = proc[r].created
    BY DEF TypeOK, ProcType
<1>3. proc' = [proc EXCEPT ![r] = l]
    BY DEF Answer, TypeOK, s, b
<1>. HIDE DEF l
<1>4. /\ Moves(r, s) /\ KeepsRelease(r) /\ KeepsReplay(r) /\ KeepsDraft(r) /\ KeepsThread(r)
      /\ proc'[r].resource = k.resource /\ proc'[r].job = k.response
    BY <1>1, <1>2, <1>3, RecordMoves DEF Moves, KeepsRelease, KeepsReplay, KeepsDraft, KeepsThread
<1>. QED
    BY <1>4 DEF s, b

LEMMA ReleaseMoves ==
    ASSUME TypeOK, NEW r \in Requests, NEW s \in Pcs, NEW b \in BOOLEAN,
           proc' = [proc EXCEPT ![r].pc = s, ![r].releases = b]
    PROVE  /\ Moves(r, s) /\ KeepsReplay(r) /\ KeepsDraft(r) /\ KeepsThread(r)
           /\ KeepsFound(r) /\ proc'[r].releases = b
<1>. DEFINE l == [proc[r] EXCEPT !.pc = s, !.releases = b]
<1>. proc[r] \in ProcType
    BY DEF TypeOK
<1>1. l \in ProcType /\ l.pc = s /\ l.releases = b
    BY DEF ProcType, Pcs
<1>2. /\ l.kind = proc[r].kind /\ l.key = proc[r].key /\ l.draft = proc[r].draft
      /\ l.replay = proc[r].replay /\ l.prior = proc[r].prior
      /\ l.created = proc[r].created /\ l.resource = proc[r].resource
      /\ l.job = proc[r].job
    BY DEF ProcType
<1>3. proc' = [proc EXCEPT ![r] = l]
    BY DEF TypeOK
<1>. HIDE DEF l
<1>4. /\ proc' \in [Requests -> ProcType] /\ proc'[r] = l
      /\ \A q \in Requests \ {r} : proc'[q] = proc[q]
    BY <1>1, <1>3, RecordMoves
<1>. QED
    BY <1>1, <1>2, <1>4 DEF Moves, KeepsReplay, KeepsDraft, KeepsThread, KeepsFound

Loads(r, d, t) ==
    proc' = [proc EXCEPT ![r].pc = "Claim", ![r].seen = d, ![r].prior = t]

LEMMA LoadMoves ==
    ASSUME TypeOK, NEW r \in Requests, NEW d \in DraftStatus, NEW t \in Requests \union {None},
           Loads(r, d, t)
    PROVE  /\ Moves(r, "Claim") /\ KeepsRelease(r) /\ KeepsReplay(r) /\ KeepsDraft(r)
           /\ KeepsFound(r) /\ proc'[r].prior = t /\ proc'[r].created = proc[r].created
<1>. DEFINE l == [proc[r] EXCEPT !.pc = "Claim", !.seen = d, !.prior = t]
<1>. proc[r] \in ProcType
    BY DEF TypeOK
<1>1. l \in ProcType /\ l.pc = "Claim" /\ l.prior = t
    BY DEF ProcType, Steps, EnqueueSteps
<1>2. /\ l.kind = proc[r].kind /\ l.key = proc[r].key /\ l.draft = proc[r].draft
      /\ l.releases = proc[r].releases /\ l.replay = proc[r].replay
      /\ l.created = proc[r].created /\ l.resource = proc[r].resource
      /\ l.job = proc[r].job
    BY DEF ProcType
<1>3. proc' = [proc EXCEPT ![r] = l]
    BY DEF Loads, TypeOK
<1>. HIDE DEF l
<1>4. /\ proc' \in [Requests -> ProcType] /\ proc'[r] = l
      /\ \A q \in Requests \ {r} : proc'[q] = proc[q]
    BY <1>1, <1>3, RecordMoves
<1>. QED
    BY <1>1, <1>2, <1>4 DEF Moves, KeepsRelease, KeepsReplay, KeepsDraft, KeepsFound

LEMMA ThreadMoves ==
    ASSUME TypeOK, NEW r \in Requests,
           proc' = [proc EXCEPT ![r].pc = "AssignThread", ![r].created = TRUE]
    PROVE  /\ Moves(r, "AssignThread") /\ KeepsRelease(r) /\ KeepsReplay(r)
           /\ KeepsDraft(r) /\ KeepsFound(r) /\ proc'[r].created = TRUE
           /\ proc'[r].prior = proc[r].prior
<1>. DEFINE l == [proc[r] EXCEPT !.pc = "AssignThread", !.created = TRUE]
<1>. proc[r] \in ProcType
    BY DEF TypeOK
<1>1. l \in ProcType /\ l.pc = "AssignThread" /\ l.created = TRUE
    BY DEF ProcType, Steps, EnqueueSteps
<1>2. /\ l.kind = proc[r].kind /\ l.key = proc[r].key /\ l.draft = proc[r].draft
      /\ l.releases = proc[r].releases /\ l.replay = proc[r].replay
      /\ l.prior = proc[r].prior /\ l.resource = proc[r].resource
      /\ l.job = proc[r].job
    BY DEF ProcType
<1>3. proc' = [proc EXCEPT ![r] = l]
    BY DEF TypeOK
<1>. HIDE DEF l
<1>4. /\ proc' \in [Requests -> ProcType] /\ proc'[r] = l
      /\ \A q \in Requests \ {r} : proc'[q] = proc[q]
    BY <1>1, <1>3, RecordMoves
<1>. QED
    BY <1>1, <1>2, <1>4 DEF Moves, KeepsRelease, KeepsReplay, KeepsDraft, KeepsFound

LEMMA ReserveMoves ==
    ASSUME TypeOK, NEW r \in Requests,
           proc' = [proc EXCEPT ![r].pc = "Message", ![r].reserved = TRUE]
    PROVE  /\ Moves(r, "Message") /\ KeepsRelease(r) /\ KeepsReplay(r) /\ KeepsDraft(r)
           /\ KeepsThread(r) /\ KeepsFound(r)
<1>. DEFINE l == [proc[r] EXCEPT !.pc = "Message", !.reserved = TRUE]
<1>. proc[r] \in ProcType
    BY DEF TypeOK
<1>1. l \in ProcType /\ l.pc = "Message"
    BY DEF ProcType, Steps, EnqueueSteps
<1>2. /\ l.kind = proc[r].kind /\ l.key = proc[r].key /\ l.draft = proc[r].draft
      /\ l.releases = proc[r].releases /\ l.replay = proc[r].replay
      /\ l.prior = proc[r].prior /\ l.created = proc[r].created
      /\ l.resource = proc[r].resource /\ l.job = proc[r].job
    BY DEF ProcType
<1>3. proc' = [proc EXCEPT ![r] = l]
    BY DEF TypeOK
<1>. HIDE DEF l
<1>4. /\ proc' \in [Requests -> ProcType] /\ proc'[r] = l
      /\ \A q \in Requests \ {r} : proc'[q] = proc[q]
    BY <1>1, <1>3, RecordMoves
<1>. QED
    BY <1>1, <1>2, <1>4 DEF Moves, KeepsRelease, KeepsReplay, KeepsDraft, KeepsThread, KeepsFound

Enqueues(r, s, b) ==
    proc' = [proc EXCEPT ![r].pc = s, ![r].job = r, ![r].releases = b]

LEMMA EnqueueMoves ==
    ASSUME TypeOK, NEW r \in Requests, NEW s \in Pcs, NEW b \in BOOLEAN,
           Enqueues(r, s, b)
    PROVE  /\ Moves(r, s) /\ KeepsReplay(r) /\ KeepsDraft(r) /\ KeepsThread(r)
           /\ proc'[r].releases = b /\ proc'[r].job = r
           /\ proc'[r].resource = proc[r].resource
<1>. DEFINE l == [proc[r] EXCEPT !.pc = s, !.job = r, !.releases = b]
<1>. proc[r] \in ProcType
    BY DEF TypeOK
<1>1. l \in ProcType /\ l.pc = s /\ l.releases = b /\ l.job = r
    BY DEF ProcType, Pcs
<1>2. /\ l.kind = proc[r].kind /\ l.key = proc[r].key /\ l.draft = proc[r].draft
      /\ l.replay = proc[r].replay /\ l.prior = proc[r].prior
      /\ l.created = proc[r].created /\ l.resource = proc[r].resource
    BY DEF ProcType
<1>3. proc' = [proc EXCEPT ![r] = l]
    BY DEF Enqueues, TypeOK
<1>. HIDE DEF l
<1>4. /\ proc' \in [Requests -> ProcType] /\ proc'[r] = l
      /\ \A q \in Requests \ {r} : proc'[q] = proc[q]
    BY <1>1, <1>3, RecordMoves
<1>. QED
    BY <1>1, <1>2, <1>4 DEF Moves, KeepsReplay, KeepsDraft, KeepsThread

LEMMA ResumeMoves ==
    ASSUME TypeOK, NEW r \in Requests,
           proc' = [proc EXCEPT ![r].pc = "Load", ![r].replay = TRUE]
    PROVE  /\ Moves(r, "Load") /\ KeepsRelease(r) /\ KeepsDraft(r) /\ KeepsThread(r)
           /\ KeepsFound(r) /\ proc'[r].replay = TRUE
<1>. DEFINE l == [proc[r] EXCEPT !.pc = "Load", !.replay = TRUE]
<1>. proc[r] \in ProcType
    BY DEF TypeOK
<1>1. l \in ProcType /\ l.pc = "Load" /\ l.replay = TRUE
    BY DEF ProcType, Steps, EnqueueSteps
<1>2. /\ l.kind = proc[r].kind /\ l.key = proc[r].key /\ l.draft = proc[r].draft
      /\ l.releases = proc[r].releases /\ l.prior = proc[r].prior
      /\ l.created = proc[r].created /\ l.resource = proc[r].resource
      /\ l.job = proc[r].job
    BY DEF ProcType
<1>3. proc' = [proc EXCEPT ![r] = l]
    BY DEF TypeOK
<1>. HIDE DEF l
<1>4. /\ proc' \in [Requests -> ProcType] /\ proc'[r] = l
      /\ \A q \in Requests \ {r} : proc'[q] = proc[q]
    BY <1>1, <1>3, RecordMoves
<1>. QED
    BY <1>1, <1>2, <1>4 DEF Moves, KeepsRelease, KeepsDraft, KeepsThread, KeepsFound

Finds(r, d, s) ==
    proc' = [proc EXCEPT ![r].pc = "FindJob", ![r].draft = d, ![r].seen = s]

LEMMA FindMoves ==
    ASSUME TypeOK, NEW r \in Requests, NEW d \in Drafts, NEW s \in DraftStatus,
           Finds(r, d, s)
    PROVE  /\ Moves(r, "FindJob") /\ KeepsRelease(r) /\ KeepsReplay(r)
           /\ KeepsThread(r) /\ KeepsFound(r) /\ proc'[r].draft = d
<1>. DEFINE l == [proc[r] EXCEPT !.pc = "FindJob", !.draft = d, !.seen = s]
<1>. proc[r] \in ProcType
    BY DEF TypeOK
<1>1. l \in ProcType /\ l.pc = "FindJob" /\ l.draft = d
    BY DEF ProcType, Steps, ReplaySteps
<1>2. /\ l.kind = proc[r].kind /\ l.key = proc[r].key /\ l.releases = proc[r].releases
      /\ l.replay = proc[r].replay /\ l.prior = proc[r].prior
      /\ l.created = proc[r].created /\ l.resource = proc[r].resource
      /\ l.job = proc[r].job
    BY DEF ProcType
<1>3. proc' = [proc EXCEPT ![r] = l]
    BY DEF Finds, TypeOK
<1>. HIDE DEF l
<1>4. /\ proc' \in [Requests -> ProcType] /\ proc'[r] = l
      /\ \A q \in Requests \ {r} : proc'[q] = proc[q]
    BY <1>1, <1>3, RecordMoves
<1>. QED
    BY <1>1, <1>2, <1>4 DEF Moves, KeepsRelease, KeepsReplay, KeepsThread, KeepsFound

TakesUp(r, d) ==
    proc' = [proc EXCEPT ![r].pc = "Load", ![r].draft = d, ![r].replay = TRUE]

LEMMA ConsoleMoves ==
    ASSUME TypeOK, NEW r \in Requests, NEW d \in Drafts,
           TakesUp(r, d)
    PROVE  /\ Moves(r, "Load") /\ KeepsRelease(r) /\ KeepsThread(r) /\ KeepsFound(r)
           /\ proc'[r].draft = d /\ proc'[r].replay = TRUE
<1>. DEFINE l == [proc[r] EXCEPT !.pc = "Load", !.draft = d, !.replay = TRUE]
<1>. proc[r] \in ProcType
    BY DEF TypeOK
<1>1. l \in ProcType /\ l.pc = "Load" /\ l.draft = d /\ l.replay = TRUE
    BY DEF ProcType, Steps, EnqueueSteps
<1>2. /\ l.kind = proc[r].kind /\ l.key = proc[r].key /\ l.releases = proc[r].releases
      /\ l.prior = proc[r].prior /\ l.created = proc[r].created
      /\ l.resource = proc[r].resource /\ l.job = proc[r].job
    BY DEF ProcType
<1>3. proc' = [proc EXCEPT ![r] = l]
    BY DEF TakesUp, TypeOK
<1>. HIDE DEF l
<1>4. /\ proc' \in [Requests -> ProcType] /\ proc'[r] = l
      /\ \A q \in Requests \ {r} : proc'[q] = proc[q]
    BY <1>1, <1>3, RecordMoves
<1>. QED
    BY <1>1, <1>2, <1>4 DEF Moves, KeepsRelease, KeepsThread, KeepsFound

LEMMA FoundMoves ==
    ASSUME TypeOK, NEW r \in Requests, NEW j \in Requests,
           Found(r, j)
    PROVE  /\ Moves(r, "FindMessage") /\ KeepsRelease(r) /\ KeepsReplay(r)
           /\ KeepsDraft(r) /\ KeepsThread(r) /\ proc'[r].job = j
           /\ proc'[r].resource = proc[r].resource
<1>. DEFINE l == [proc[r] EXCEPT !.pc = "FindMessage", !.job = j]
<1>. proc[r] \in ProcType
    BY DEF TypeOK
<1>1. l \in ProcType /\ l.pc = "FindMessage" /\ l.job = j
    BY DEF ProcType, Steps, ReplaySteps
<1>2. /\ l.kind = proc[r].kind /\ l.key = proc[r].key /\ l.draft = proc[r].draft
      /\ l.releases = proc[r].releases /\ l.replay = proc[r].replay
      /\ l.prior = proc[r].prior /\ l.created = proc[r].created
      /\ l.resource = proc[r].resource
    BY DEF ProcType
<1>3. proc' = [proc EXCEPT ![r] = l]
    BY DEF Found, TypeOK
<1>. HIDE DEF l
<1>4. /\ proc' \in [Requests -> ProcType] /\ proc'[r] = l
      /\ \A q \in Requests \ {r} : proc'[q] = proc[q]
    BY <1>1, <1>3, RecordMoves
<1>. QED
    BY <1>1, <1>2, <1>4 DEF Moves, KeepsRelease, KeepsReplay, KeepsDraft, KeepsThread


(* A request that arrives knows nothing of a key.                          *)
Arrived(r) ==
    LET l == proc'[r] IN
    /\ l.draft \in Drafts /\ l.kind \in Kinds
    /\ l.pc \in {"CheckKey", "Validate", "CancelDraft", "refused", "cancelled"}
    /\ l.pc = "CheckKey" => l.key # None /\ l.kind # "cancel"
    /\ l.pc = "Validate" => l.key = None /\ l.kind # "cancel"
    /\ l.pc = "CancelDraft" => l.kind = "cancel"
    /\ l.kind \in {"create", "workflow", "admin"} => l.draft = r
    /\ l.kind = "cancel" => l.key = None
    /\ l.releases => l.kind = "admin" /\ l.key # None
    /\ ~l.replay /\ ~l.created /\ ~l.reserved /\ l.resource = None /\ l.job = None
    /\ l.pc = "CancelDraft" => draft[l.draft].status # "none"

LEMMA ArriveMoves ==
    ASSUME TypeOK, NEW r \in Requests, Arrive(r)
    PROVE  /\ proc[r].pc = "idle"
           /\ proc' \in [Requests -> ProcType]
           /\ \A q \in Requests \ {r} : proc'[q] = proc[q]
           /\ Arrived(r)
<1>1. IdleProc \in ProcType
    BY DEF IdleProc, ProcType, DraftStatus, Kinds
<1>2. PICK c \in Calls :
        \/ ArriveToCreate(r, c)
        \/ \E d \in {x \in Drafts : draft[x].status # "none"} :
             ArriveToSend(r, c, d) \/ ArriveToCancel(r, c, d)
    BY DEF Arrive
<1>3. c.kind \in Kinds /\ c.key \in Keys \union {None}
    BY DraftSendAssumption
<1>4. CASE ArriveToCreate(r, c)
    <2>. DEFINE s == IF c.key = None THEN "Validate" ELSE "CheckKey"
                b == c.kind = "admin" /\ c.key # None
                l == [IdleProc EXCEPT !.pc = s, !.kind = c.kind, !.key = c.key, !.draft = r,
                                      !.releases = b]
    <2>0. s \in Pcs /\ b \in BOOLEAN /\ r \in Drafts
        BY DEF Drafts, Pcs, Steps, KeySteps
    <2>. HIDE DEF s, b
    <2>1. l \in ProcType
        BY <1>3, <2>0 DEF IdleProc, ProcType, Pcs, DraftStatus
    <2>2. /\ l.pc = s /\ l.kind = c.kind /\ l.key = c.key /\ l.draft = r /\ l.releases = b
          /\ ~l.replay /\ ~l.created /\ ~l.reserved /\ l.resource = None /\ l.job = None
        BY DEF IdleProc
    <2>3. proc' = [proc EXCEPT ![r] = l]
        BY <1>4 DEF ArriveToCreate, s, b
    <2>. HIDE DEF l
    <2>4. proc'[r] = l
        BY <2>1, <2>3, RecordMoves
    <2>5. Arrived(r)
        BY <1>3, <1>4, <2>2, <2>4 DEF Arrived, ArriveToCreate, Drafts, s, b
    <2>. QED
        BY <2>1, <2>3, <2>5, RecordMoves DEF Arrive, At
<1>5. ASSUME NEW d \in Drafts, ArriveToSend(r, c, d)
      PROVE  Arrived(r) /\ \E l \in ProcType : proc' = [proc EXCEPT ![r] = l]
    <2>. DEFINE s == IF c.key # None THEN "CheckKey"
                     ELSE IF draft[d].status \in Sendable THEN "Validate" ELSE "refused"
                l == [IdleProc EXCEPT !.pc = s, !.kind = "send", !.key = c.key, !.draft = d,
                                      !.seen = draft[d].status]
    <2>0. s \in Pcs /\ "send" \in Kinds /\ draft[d].status \in DraftStatus
        BY DEF TypeOK, Kinds, Pcs, Steps, KeySteps, Answers
    <2>. HIDE DEF s
    <2>1. l \in ProcType
        BY <1>3, <2>0 DEF IdleProc, ProcType, Pcs
    <2>2. /\ l.pc = s /\ l.kind = "send" /\ l.key = c.key /\ l.draft = d /\ ~l.releases
          /\ ~l.replay /\ ~l.created /\ ~l.reserved /\ l.resource = None /\ l.job = None
        BY DEF IdleProc
    <2>3. proc' = [proc EXCEPT ![r] = l]
        BY <1>5 DEF ArriveToSend, s
    <2>. HIDE DEF l
    <2>4. proc'[r] = l
        BY <2>1, <2>3, RecordMoves
    <2>5. Arrived(r)
        BY <2>2, <2>4 DEF Arrived, Kinds, s
    <2>. QED
        BY <2>1, <2>3, <2>5
<1>6. ASSUME NEW d \in Drafts, ArriveToCancel(r, c, d), draft[d].status # "none"
      PROVE  Arrived(r) /\ \E l \in ProcType : proc' = [proc EXCEPT ![r] = l]
    <2>. DEFINE s == IF draft[d].status \in {"queued", "sent"} THEN "refused"
                     ELSE IF draft[d].status = "cancelled" THEN "cancelled"
                     ELSE "CancelDraft"
                l == [IdleProc EXCEPT !.pc = s, !.draft = d]
    <2>0. s \in Pcs
        BY DEF Pcs, Steps, Answers
    <2>. HIDE DEF s
    <2>1. l \in ProcType
        BY <1>1, <2>0 DEF ProcType, Pcs
    <2>2. /\ l.pc = s /\ l.kind = "cancel" /\ l.key = None /\ l.draft = d /\ ~l.releases
          /\ ~l.replay /\ ~l.created /\ ~l.reserved /\ l.resource = None /\ l.job = None
        BY DEF IdleProc
    <2>3. proc' = [proc EXCEPT ![r] = l]
        BY <1>6 DEF ArriveToCancel, s
    <2>. HIDE DEF l
    <2>4. proc'[r] = l
        BY <2>1, <2>3, RecordMoves
    <2>5. Arrived(r)
        BY <1>6, <2>2, <2>4 DEF Arrived, Kinds, s
    <2>. QED
        BY <2>1, <2>3, <2>5
<1>. QED
    BY <1>2, <1>4, <1>5, <1>6, RecordMoves DEF Arrive, At

-----------------------------------------------------------------------------
(* Type correctness.                                                       *)

(* Only the request moves, and what it knows fits its step.                *)
LocalStep(r) ==
    /\ proc' \in [Requests -> ProcType]
    /\ \A q \in Requests \ {r} : proc'[q] = proc[q]
    /\ LocalOK(proc'[r])

(* The rows keep their types.                                              *)
RowTypes ==
    /\ keys \in [Slots -> KeyRecords]
    /\ draft \in [Drafts -> [status : DraftStatus, thread : Requests \union {None}]]
    /\ threads \subseteq Requests
    /\ message \in [Requests -> Requests \union {None}]
    /\ job \in [Requests -> [status : JobStatus, draft : Drafts \union {None}]]
    /\ account \in [available : Nat, reserved : Nat]
    /\ queue \subseteq Requests
    /\ mailed \subseteq Requests
    /\ lapsed \subseteq Slots
    /\ failed \subseteq FaultKinds
    /\ faults \in Nat
    /\ KeysOK

Quiet == UNCHANGED <<keys, sendVars, mailed, historyVars>>

LEMMA TypeParts == TypeInv <=> RowTypes /\ proc \in [Requests -> ProcType] /\ LocalsOK
BY DEF TypeInv, TypeOK, RowTypes

LEMMA StepTypes ==
    ASSUME TypeInv, NEW r \in Requests, LocalStep(r), RowTypes'
    PROVE  TypeInv'
BY DEF TypeInv, TypeOK, RowTypes, LocalsOK, LocalStep

LEMMA QuietTypes ==
    ASSUME TypeInv, NEW r \in Requests, LocalStep(r), Quiet
    PROVE  TypeInv'
<1>1. RowTypes
    BY TypeParts
<1>2. RowTypes'
    BY <1>1 DEF Quiet, RowTypes, KeysOK, KeyOK, NamesJob, sendVars, historyVars
<1>. QED
    BY <1>2, StepTypes

LEMMA GoLocal ==
    ASSUME TypeInv, NEW r \in Requests, NEW s \in Pcs, Goes(r, s),
           LET p == proc[r] IN
             /\ p.pc # "idle"
             /\ s \in KeySteps \union ReplaySteps => p.key # None
             /\ s \in Informed => p.resource # None
             /\ s \in Decided \/ (s = "LinkDraft" /\ p.kind = "workflow") => p.job # None
    PROVE  LocalStep(r)
BY DEF TypeInv, LocalsOK, LocalStep, LocalOK, Goes, Moves, KeepsRelease, KeepsReplay, KeepsDraft,
       KeepsThread, KeepsFound

LEMMA FailMoves ==
    ASSUME TypeInv, NEW r \in Requests, proc[r].pc # "idle", Fail(r)
    PROVE  LocalStep(r) /\ Goes(r, IF proc[r].releases THEN "ReleaseKey" ELSE "refused")
<1>. DEFINE s == IF proc[r].releases THEN "ReleaseKey" ELSE "refused"
<1>1. s \in Pcs /\ s \notin ReplaySteps \union Informed \union Decided \union {"LinkDraft"}
    BY DEF Pcs, Steps, KeySteps, Answers, ReplaySteps, Informed, Decided
<1>2. s \in KeySteps => proc[r].key # None
    BY DEF TypeInv, LocalsOK, LocalOK, KeySteps
<1>3. Goes(r, s)
    BY <1>1, GoMoves DEF Fail, TypeInv
<1>. HIDE DEF s
<1>4. LocalStep(r)
    BY <1>1, <1>2, <1>3, GoLocal
<1>. QED
    BY <1>3, <1>4 DEF s

(* A request that works on its key has one.                                *)
LEMMA SlotTypes ==
    ASSUME TypeInv, NEW r \in Requests, proc[r].key # None
    PROVE  /\ Slot(r) \in Slots /\ keys[Slot(r)] \in KeyRecords /\ KeyOK(keys[Slot(r)])
           /\ proc[r].key \in Keys /\ proc[r].kind \in Kinds
<1>1. proc[r].key \in Keys /\ proc[r].kind \in Kinds
    BY DEF TypeInv, TypeOK, ProcType
<1>2. Slot(r) \in Slots
    BY <1>1 DEF Slot, Slots, Operation, Operations
<1>. QED
    BY <1>1, <1>2 DEF TypeInv, TypeOK, KeysOK

LEMMA HasKey ==
    ASSUME TypeInv, NEW r \in Requests, proc[r].pc \in KeySteps \union ReplaySteps
    PROVE  proc[r].key # None /\ proc[r].pc # "idle"
BY DEF TypeInv, LocalsOK, LocalOK, KeySteps, ReplaySteps

LEMMA AnswerTypes ==
    ASSUME TypeInv, NEW r \in Requests, proc[r].pc \in KeySteps, Answer(r, keys[Slot(r)])
    PROVE  LocalStep(r)
<1>. DEFINE k == keys[Slot(r)]
<1>1. proc[r].key # None /\ proc[r].pc # "idle"
    BY HasKey
<1>2. k \in KeyRecords /\ KeyOK(k)
    BY <1>1, SlotTypes
<1>. HIDE DEF k
<1>3. PICK s \in {"ValidateReplay", "refused"} :
        /\ Moves(r, s)
        /\ s = "ValidateReplay" => k.status = "completed" \/ k.resource # None
        /\ KeepsRelease(r) /\ KeepsReplay(r) /\ KeepsDraft(r) /\ KeepsThread(r)
        /\ proc'[r].resource = k.resource /\ proc'[r].job = k.response
    BY <1>2, AnswerMoves DEF TypeInv, k
<1>4. s \notin Decided \union {"LinkDraft"}
    BY DEF Decided
<1>5. s = "ValidateReplay" => k.resource # None
    BY <1>2, <1>3 DEF KeyOK
<1>6. proc[r].draft \in Drafts /\ (proc[r].kind = "cancel" => proc[r].key = None)
    BY <1>1 DEF TypeInv, LocalsOK, LocalOK
<1>7. LocalOK(proc'[r])
    BY <1>1, <1>2, <1>3, <1>4, <1>5, <1>6
       DEF LocalOK, Moves, KeepsDraft, KeyOK, Informed
<1>. QED
    BY <1>3, <1>7 DEF LocalStep, Moves

LEMMA CheckKeyTypes ==
    ASSUME TypeInv, NEW r \in Requests, CheckKey(r)
    PROVE  LocalStep(r)
<1>1. proc[r].pc \in KeySteps /\ proc[r].key # None /\ proc[r].pc # "idle"
    BY HasKey DEF CheckKey, At, KeySteps
<1>2. CASE Go(r, "InsertKey")
    <2>1. Goes(r, "InsertKey")
        BY <1>2, GoMoves DEF TypeInv, Pcs, Steps, KeySteps
    <2>. QED
        BY <1>1, <2>1, GoLocal DEF Pcs, Steps, KeySteps, Informed, Decided
<1>3. CASE Answer(r, keys[Slot(r)])
    BY <1>1, <1>3, AnswerTypes
<1>. QED
    BY <1>2, <1>3 DEF CheckKey

LEMMA RecheckKeyTypes ==
    ASSUME TypeInv, NEW r \in Requests, RecheckKey(r)
    PROVE  LocalStep(r)
<1>1. proc[r].pc \in KeySteps /\ proc[r].pc # "idle"
    BY HasKey DEF RecheckKey, At, KeySteps
<1>2. CASE Fail(r)
    BY <1>1, <1>2, FailMoves
<1>3. CASE Answer(r, keys[Slot(r)])
    BY <1>1, <1>3, AnswerTypes
<1>. QED
    BY <1>2, <1>3 DEF RecheckKey

(* A statement writes one record.                                          *)
Writes(s, k) == keys'[s] = k /\ \A u \in Slots \ {s} : keys'[u] = keys[u]

LEMMA KeyWrites ==
    ASSUME TypeInv, NEW s \in Slots, NEW k \in KeyRecords, KeyOK(k),
           keys' = [keys EXCEPT ![s] = k]
    PROVE  keys' \in [Slots -> KeyRecords] /\ KeysOK' /\ Writes(s, k)
<1>1. keys' \in [Slots -> KeyRecords] /\ Writes(s, k)
    BY DEF TypeInv, TypeOK, Writes
<1>2. \A u \in Slots : KeyOK(keys'[u])
    BY <1>1 DEF Writes, TypeInv, KeysOK
<1>. QED
    BY <1>1, <1>2 DEF KeysOK, KeyOK, NamesJob

LEMMA KeyTypes ==
    ASSUME TypeInv, keys' \in [Slots -> KeyRecords], KeysOK',
           UNCHANGED <<sendVars, mailed, historyVars>>
    PROVE  RowTypes'
BY DEF TypeInv, TypeOK, RowTypes, sendVars, historyVars

Reserved(r) == [NoRecord EXCEPT !.status = "pending", !.what = Fingerprint(r)]

LEMMA FingerprintTypes ==
    ASSUME TypeInv, NEW r \in Requests, proc[r].pc # "idle"
    PROVE  Fingerprint(r) \in Drafts \union Kinds
BY DEF TypeInv, TypeOK, LocalsOK, LocalOK, Fingerprint, ProcType

LEMMA NoRecordTypes == NoRecord \in KeyRecords /\ KeyOK(NoRecord)
BY DEF NoRecord, KeyRecords, KeyStatus, KeyOK, NamesJob

LEMMA InsertKeyMoves ==
    ASSUME TypeInv, NEW r \in Requests, InsertKey(r)
    PROVE  /\ LocalStep(r) /\ RowTypes'
           /\ \/ \E s \in {"Validate", "ReleaseKey"} :
                   /\ keys[Slot(r)].status = "none" /\ Writes(Slot(r), Reserved(r))
                   /\ Moves(r, s) /\ proc'[r].releases = TRUE
                   /\ KeepsReplay(r) /\ KeepsDraft(r) /\ KeepsThread(r) /\ KeepsFound(r)
              \/ keys' = keys /\ Goes(r, "RecheckKey")
<1>1. proc[r].pc \in KeySteps /\ proc[r].key # None /\ proc[r].pc # "idle"
    BY HasKey DEF InsertKey, At, KeySteps
<1>2. CASE keys[Slot(r)].status = "none"
    <2>. DEFINE s == IF proc[r].kind = "send" /\ proc[r].seen \notin Sendable
                     THEN "ReleaseKey" ELSE "Validate"
    <2>1. s \in Pcs /\ s \in {"Validate", "ReleaseKey"}
        BY DEF Pcs, Steps, KeySteps
    <2>2. proc' = [proc EXCEPT ![r].pc = s, ![r].releases = TRUE]
        BY <1>2 DEF InsertKey
    <2>. HIDE DEF s
    <2>3. /\ Moves(r, s) /\ KeepsReplay(r) /\ KeepsDraft(r) /\ KeepsThread(r)
          /\ KeepsFound(r) /\ proc'[r].releases = TRUE
        BY <2>1, <2>2, ReleaseMoves DEF TypeInv
    <2>4. Reserved(r) \in KeyRecords /\ KeyOK(Reserved(r))
        <3>1. Fingerprint(r) \in Drafts \union Kinds \union {None}
            BY <1>1, FingerprintTypes
        <3>. QED
            BY <3>1 DEF Reserved, NoRecord, KeyRecords, KeyStatus, KeyOK, NamesJob
    <2>5. keys' = [keys EXCEPT ![Slot(r)] = Reserved(r)] /\ Slot(r) \in Slots
        BY <1>1, <1>2, SlotTypes DEF InsertKey, Reserved
    <2>6. keys' \in [Slots -> KeyRecords] /\ KeysOK' /\ Writes(Slot(r), Reserved(r))
        BY <2>4, <2>5, KeyWrites
    <2>7. RowTypes'
        BY <2>6, KeyTypes DEF InsertKey
    <2>8. LocalOK(proc'[r])
        BY <1>1, <2>1, <2>3
           DEF TypeInv, LocalsOK, LocalOK, Moves, KeepsFound, KeepsDraft, Informed, Decided
    <2>. QED
        BY <1>2, <2>1, <2>3, <2>6, <2>7, <2>8 DEF LocalStep, Moves
<1>3. CASE Go(r, "RecheckKey") /\ UNCHANGED keys
    <2>1. Goes(r, "RecheckKey")
        BY <1>3, GoMoves DEF TypeInv, Pcs, Steps, KeySteps
    <2>2. LocalStep(r)
        BY <1>1, <2>1, GoLocal DEF Pcs, Steps, KeySteps, Informed, Decided
    <2>3. RowTypes'
        BY <1>3, KeyTypes DEF InsertKey, TypeInv, TypeOK, KeysOK, KeyOK, NamesJob
    <2>. QED
        BY <1>3, <2>1, <2>2, <2>3
<1>. QED
    BY <1>2, <1>3 DEF InsertKey

(* Where a request goes that throws.                                       *)
Failing(r) == IF proc[r].releases THEN "ReleaseKey" ELSE "refused"
Linked(r, x) == [keys[Slot(r)] EXCEPT !.resource = x]

LEMMA LinkMoves ==
    ASSUME TypeInv, NEW r \in Requests, proc[r].pc \in KeySteps,
           NEW x \in {"draft", "job"} \X Drafts, NamesJob(x),
           NEW n \in {"Complete", "Load"}, n = "Complete" => proc[r].job # None,
           Link(r, x, n), UNCHANGED <<sendVars, mailed, historyVars>>
    PROVE  /\ LocalStep(r) /\ RowTypes'
           /\ \/ /\ keys[Slot(r)].status = "pending" /\ Writes(Slot(r), Linked(r, x))
                 /\ Goes(r, n)
              \/ keys[Slot(r)].status # "pending" /\ keys' = keys /\ Goes(r, Failing(r))
<1>1. proc[r].key # None /\ proc[r].pc # "idle"
    BY HasKey
<1>2. CASE keys[Slot(r)].status = "pending"
    <2>1. keys' = [keys EXCEPT ![Slot(r)].resource = x] /\ Go(r, n)
        BY <1>2 DEF Link
    <2>2. Goes(r, n)
        BY <2>1, GoMoves DEF TypeInv, Pcs, Steps, KeySteps, EnqueueSteps
    <2>3. LocalStep(r)
        BY <1>1, <2>2, GoLocal DEF Pcs, Steps, KeySteps, EnqueueSteps, Informed, Decided
    <2>4. Slot(r) \in Slots /\ keys[Slot(r)] \in KeyRecords /\ KeyOK(keys[Slot(r)])
        BY <1>1, SlotTypes
    <2>5. x # None
        BY DraftSendAssumption
    <2>6. Linked(r, x) \in KeyRecords /\ KeyOK(Linked(r, x))
        BY <2>4, <2>5 DEF Linked, KeyRecords, KeyOK
    <2>7. keys' = [keys EXCEPT ![Slot(r)] = Linked(r, x)]
        BY <2>1, <2>4 DEF Linked, TypeInv, TypeOK
    <2>8. keys' \in [Slots -> KeyRecords] /\ KeysOK' /\ Writes(Slot(r), Linked(r, x))
        BY <2>4, <2>6, <2>7, KeyWrites
    <2>. QED
        BY <1>2, <2>2, <2>3, <2>8, KeyTypes
<1>3. CASE keys[Slot(r)].status # "pending"
    <2>0. Fail(r) /\ UNCHANGED keys
        BY <1>3 DEF Link
    <2>1. LocalStep(r) /\ Goes(r, Failing(r))
        BY <1>1, <2>0, FailMoves DEF Failing
    <2>2. RowTypes'
        BY <2>0, KeyTypes DEF TypeInv, TypeOK, KeysOK, KeyOK, NamesJob
    <2>. QED
        BY <1>3, <2>0, <2>1, <2>2
<1>. QED
    BY <1>2, <1>3

LEMMA LinkDraftMoves ==
    ASSUME TypeInv, NEW r \in Requests, LinkDraft(r)
    PROVE  /\ LocalStep(r) /\ RowTypes'
           /\ \/ /\ keys[Slot(r)].status = "pending"
                 /\ Writes(Slot(r), Linked(r, <<"draft", proc[r].draft>>))
                 /\ Goes(r, IF proc[r].kind = "workflow" THEN "Complete" ELSE "Load")
              \/ keys[Slot(r)].status # "pending" /\ keys' = keys /\ Goes(r, Failing(r))
<1>. DEFINE n == IF proc[r].kind = "workflow" THEN "Complete" ELSE "Load"
            x == <<"draft", proc[r].draft>>
<1>1. proc[r].pc \in KeySteps /\ proc[r].pc = "LinkDraft" /\ proc[r].pc # "idle"
    BY DEF LinkDraft, At, KeySteps
<1>2. n \in {"Complete", "Load"} /\ (n = "Complete" => proc[r].job # None)
    BY <1>1 DEF TypeInv, LocalsOK, LocalOK
<1>3. x \in {"draft", "job"} \X Drafts /\ NamesJob(x)
    BY <1>1 DEF TypeInv, LocalsOK, LocalOK, NamesJob
<1>4. Link(r, x, n) /\ UNCHANGED <<sendVars, mailed, historyVars>>
    BY DEF LinkDraft
<1>. HIDE DEF n, x
<1>5. /\ LocalStep(r) /\ RowTypes'
      /\ \/ /\ keys[Slot(r)].status = "pending" /\ Writes(Slot(r), Linked(r, x))
            /\ Goes(r, n)
         \/ keys[Slot(r)].status # "pending" /\ keys' = keys /\ Goes(r, Failing(r))
    BY <1>1, <1>2, <1>3, <1>4, LinkMoves
<1>. QED
    BY <1>5 DEF n, x

LEMMA LinkJobMoves ==
    ASSUME TypeInv, NEW r \in Requests, LinkJob(r)
    PROVE  /\ LocalStep(r) /\ RowTypes'
           /\ \/ /\ keys[Slot(r)].status = "pending"
                 /\ Writes(Slot(r), Linked(r, <<"job", proc[r].job>>))
                 /\ Goes(r, "Complete")
              \/ keys[Slot(r)].status # "pending" /\ keys' = keys /\ Goes(r, Failing(r))
<1>. DEFINE x == <<"job", proc[r].job>>
<1>1. proc[r].pc \in KeySteps /\ proc[r].pc = "LinkJob"
    BY DEF LinkJob, At, KeySteps
<1>2. proc[r].job \in Requests /\ proc[r].job # None
    BY <1>1 DEF TypeInv, TypeOK, ProcType, LocalsOK, LocalOK, Decided
<1>3. x \in {"draft", "job"} \X Drafts /\ NamesJob(x)
    BY <1>2 DEF NamesJob, Drafts
<1>4. Link(r, x, "Complete") /\ UNCHANGED <<sendVars, mailed, historyVars>>
    BY DEF LinkJob
<1>. HIDE DEF x
<1>5. /\ LocalStep(r) /\ RowTypes'
      /\ \/ /\ keys[Slot(r)].status = "pending" /\ Writes(Slot(r), Linked(r, x))
            /\ Goes(r, "Complete")
         \/ keys[Slot(r)].status # "pending" /\ keys' = keys /\ Goes(r, Failing(r))
    BY <1>1, <1>2, <1>3, <1>4, LinkMoves
<1>. QED
    BY <1>5 DEF x

(* What a request that is done records.                                    *)
Result(r) == IF proc[r].kind \in ReplaysDraft THEN <<"draft", proc[r].draft>>
                                              ELSE <<"job", proc[r].job>>
Done(r) == [keys[Slot(r)] EXCEPT !.status = "completed", !.response = proc[r].job,
                                 !.resource = Result(r)]

LEMMA CompletedWrites ==
    ASSUME TypeInv, NEW r \in Requests, proc[r].pc \in {"Complete", "CompleteReplay"},
           keys' = Completed(r)
    PROVE  keys' \in [Slots -> KeyRecords] /\ KeysOK' /\ Writes(Slot(r), Done(r))
<1>1. proc[r].key # None /\ proc[r].pc # "idle"
    BY HasKey DEF KeySteps
<1>2. Slot(r) \in Slots /\ keys[Slot(r)] \in KeyRecords
    BY <1>1, SlotTypes
<1>3. proc[r].job \in Requests /\ proc[r].draft \in Drafts
    BY <1>1 DEF TypeInv, TypeOK, ProcType, LocalsOK, LocalOK, Decided
<1>4. Result(r) \in {"draft", "job"} \X Drafts /\ NamesJob(Result(r)) /\ Result(r) # None
    BY <1>3, DraftSendAssumption DEF Result, NamesJob, Drafts
<1>5. Done(r) \in KeyRecords
    BY <1>2, <1>3, <1>4 DEF Done, KeyRecords, KeyStatus
<1>6. KeyOK(Done(r))
    BY <1>2, <1>4 DEF Done, KeyRecords, KeyOK
<1>7. keys' = [keys EXCEPT ![Slot(r)] = Done(r)]
    BY <1>2 DEF Completed, Done, Result, TypeInv, TypeOK
<1>. QED
    BY <1>2, <1>5, <1>6, <1>7, KeyWrites

LEMMA CompleteMoves ==
    ASSUME TypeInv, NEW r \in Requests, Complete(r)
    PROVE  /\ LocalStep(r) /\ RowTypes'
           /\ \/ /\ keys[Slot(r)].status = "pending" /\ Writes(Slot(r), Done(r))
                 /\ Goes(r, "accepted")
              \/ keys' = keys /\ Goes(r, Failing(r))
<1>1. proc[r].pc \in KeySteps /\ proc[r].pc = "Complete" /\ proc[r].pc # "idle"
    BY DEF Complete, At, KeySteps
<1>2. CASE keys[Slot(r)].status = "pending"
    <2>1. Goes(r, "accepted")
        BY <1>2, GoMoves DEF Complete, TypeInv, Pcs, Answers
    <2>2. LocalStep(r)
        BY <1>1, <2>1, GoLocal
           DEF Pcs, Answers, KeySteps, ReplaySteps, Informed, Decided
    <2>3. keys' \in [Slots -> KeyRecords] /\ KeysOK' /\ Writes(Slot(r), Done(r))
        BY <1>1, <1>2, CompletedWrites DEF Complete
    <2>. QED
        BY <1>2, <2>1, <2>2, <2>3, KeyTypes DEF Complete
<1>3. CASE Fail(r) /\ UNCHANGED keys
    <2>1. LocalStep(r) /\ Goes(r, Failing(r))
        BY <1>1, <1>3, FailMoves DEF Failing
    <2>2. RowTypes'
        BY <1>3, KeyTypes DEF Complete, TypeInv, TypeOK, KeysOK, KeyOK, NamesJob
    <2>. QED
        BY <1>3, <2>1, <2>2
<1>. QED
    BY <1>2, <1>3 DEF Complete

LEMMA CompleteReplayMoves ==
    ASSUME TypeInv, NEW r \in Requests, CompleteReplay(r)
    PROVE  /\ LocalStep(r) /\ RowTypes' /\ Goes(r, "accepted")
           /\ \/ keys[Slot(r)].status = "pending" /\ Writes(Slot(r), Done(r))
              \/ keys' = keys
<1>1. proc[r].pc = "CompleteReplay" /\ proc[r].pc # "idle"
    BY DEF CompleteReplay, At
<1>2. Goes(r, "accepted")
    BY GoMoves DEF CompleteReplay, TypeInv, Pcs, Answers
<1>3. LocalStep(r)
    BY <1>1, <1>2, GoLocal DEF Pcs, Answers, KeySteps, ReplaySteps, Informed, Decided
<1>4. CASE keys[Slot(r)].status = "pending"
    <2>1. keys' \in [Slots -> KeyRecords] /\ KeysOK' /\ Writes(Slot(r), Done(r))
        BY <1>1, <1>4, CompletedWrites DEF CompleteReplay
    <2>. QED
        BY <1>2, <1>3, <1>4, <2>1, KeyTypes DEF CompleteReplay
<1>5. CASE keys[Slot(r)].status # "pending"
    <2>1. RowTypes'
        BY <1>5, KeyTypes DEF CompleteReplay, TypeInv, TypeOK, KeysOK, KeyOK, NamesJob
    <2>. QED
        BY <1>2, <1>3, <1>5, <2>1 DEF CompleteReplay
<1>. QED
    BY <1>4, <1>5

LEMMA ReleaseKeyMoves ==
    ASSUME TypeInv, NEW r \in Requests, ReleaseKey(r)
    PROVE  /\ LocalStep(r) /\ RowTypes' /\ Goes(r, "refused")
           /\ \/ keys[Slot(r)].status = "pending" /\ Writes(Slot(r), NoRecord)
              \/ keys' = keys
<1>1. proc[r].pc \in KeySteps /\ proc[r].pc # "idle"
    BY DEF ReleaseKey, At, KeySteps
<1>2. Goes(r, "refused")
    BY GoMoves DEF ReleaseKey, TypeInv, Pcs, Answers
<1>3. LocalStep(r)
    BY <1>1, <1>2, GoLocal DEF Pcs, Answers, KeySteps, ReplaySteps, Informed, Decided
<1>4. CASE keys[Slot(r)].status = "pending"
    <2>1. Slot(r) \in Slots
        BY <1>1, HasKey, SlotTypes
    <2>2. keys' = [keys EXCEPT ![Slot(r)] = NoRecord]
        BY <1>4 DEF ReleaseKey
    <2>3. keys' \in [Slots -> KeyRecords] /\ KeysOK' /\ Writes(Slot(r), NoRecord)
        BY <2>1, <2>2, KeyWrites, NoRecordTypes
    <2>. QED
        BY <1>2, <1>3, <1>4, <2>3, KeyTypes DEF ReleaseKey
<1>5. CASE keys[Slot(r)].status # "pending"
    <2>1. RowTypes'
        BY <1>5, KeyTypes DEF ReleaseKey, TypeInv, TypeOK, KeysOK, KeyOK, NamesJob
    <2>. QED
        BY <1>2, <1>3, <1>5, <2>1 DEF ReleaseKey
<1>. QED
    BY <1>4, <1>5

LEMMA PruneTypes ==
    ASSUME TypeInv, NEW s \in Slots, Prune(s)
    PROVE  TypeInv' /\ Writes(s, NoRecord)
<1>1. keys' = [keys EXCEPT ![s] = NoRecord]
    BY DEF Prune
<1>2. keys' \in [Slots -> KeyRecords] /\ KeysOK' /\ Writes(s, NoRecord)
    BY <1>1, KeyWrites, NoRecordTypes
<1>3. TypeOK'
    BY <1>2 DEF Prune, TypeInv, TypeOK, sendVars
<1>4. LocalsOK'
    BY DEF Prune, TypeInv, LocalsOK, LocalOK, NamesJob
<1>. QED
    BY <1>2, <1>3, <1>4 DEF TypeInv

LEMMA GoStep ==
    ASSUME TypeInv, NEW r \in Requests, NEW s \in Pcs \ (KeySteps \union ReplaySteps),
           Go(r, s), proc[r].pc # "idle"
    PROVE  LocalStep(r) /\ Goes(r, s)
<1>1. s \notin Informed \union Decided \union {"LinkDraft"}
    BY DEF Informed, Decided, KeySteps, ReplaySteps
<1>2. Goes(r, s)
    BY GoMoves DEF TypeInv
<1>. QED
    BY <1>1, <1>2, GoLocal

LEMMA KeysStay ==
    ASSUME TypeInv, keys' = keys
    PROVE  keys' \in [Slots -> KeyRecords] /\ KeysOK'
BY DEF TypeInv, TypeOK, KeysOK, KeyOK, NamesJob

LEMMA QuietRows ==
    ASSUME TypeInv, Quiet
    PROVE  RowTypes'
BY KeysStay DEF TypeInv, TypeOK, RowTypes, Quiet, sendVars, historyVars

LEMMA ValidateMoves ==
    ASSUME TypeInv, NEW r \in Requests, Validate(r)
    PROVE  /\ LocalStep(r) /\ RowTypes'
           /\ \/ Goes(r, IF proc[r].kind = "send" THEN "Load" ELSE "Create")
              \/ Goes(r, Failing(r))
<1>. DEFINE s == IF proc[r].kind = "send" THEN "Load" ELSE "Create"
<1>1. proc[r].pc # "idle" /\ s \in Pcs \ (KeySteps \union ReplaySteps)
    BY DEF Validate, At, Pcs, Steps, EnqueueSteps, KeySteps, ReplaySteps
<1>. HIDE DEF s
<1>2. ASSUME Go(r, s) PROVE LocalStep(r) /\ Goes(r, s)
    BY <1>1, <1>2, GoStep
<1>3. ASSUME Fail(r) PROVE LocalStep(r) /\ Goes(r, Failing(r))
    BY <1>1, <1>3, FailMoves DEF Failing
<1>. QED
    BY <1>2, <1>3, QuietRows DEF Validate, Quiet, s

LEMMA ValidateReplayMoves ==
    ASSUME TypeInv, NEW r \in Requests, ValidateReplay(r)
    PROVE  /\ LocalStep(r) /\ RowTypes'
           /\ \E s \in {"accepted", "refused", "ReleaseKey", "FindDraft", "FindJob"} :
                /\ Goes(r, s)
                /\ s = "FindDraft" => proc[r].kind \in ReplaysDraft
                /\ s = "FindJob" => proc[r].kind \notin ReplaysDraft
                /\ s = "ReleaseKey" => proc[r].releases
                /\ s = "accepted" => proc[r].job # None
<1>1. /\ proc[r].pc # "idle" /\ proc[r].pc \in ReplaySteps
      /\ proc[r].resource # None /\ proc[r].key # None
    BY HasKey DEF ValidateReplay, At, TypeInv, LocalsOK, LocalOK, Informed, ReplaySteps
<1>2. CASE Go(r, IF proc[r].job # None THEN "accepted"
                 ELSE IF proc[r].kind \in ReplaysDraft THEN "FindDraft" ELSE "FindJob")
    <2>. DEFINE s == IF proc[r].job # None THEN "accepted"
                     ELSE IF proc[r].kind \in ReplaysDraft THEN "FindDraft" ELSE "FindJob"
    <2>1. s \in Pcs /\ s \notin Decided \union {"LinkDraft"}
        BY DEF Pcs, Steps, ReplaySteps, Answers, Decided
    <2>2. /\ s \in {"accepted", "FindDraft", "FindJob"}
          /\ s = "FindDraft" => proc[r].kind \in ReplaysDraft
          /\ s = "FindJob" => proc[r].kind \notin ReplaysDraft
          /\ s = "accepted" => proc[r].job # None
        OBVIOUS
    <2>3. Go(r, s)
        BY <1>2
    <2>. HIDE DEF s
    <2>4. Goes(r, s)
        BY <2>1, <2>3, GoMoves DEF TypeInv
    <2>5. LocalStep(r)
        BY <1>1, <2>1, <2>4, GoLocal
    <2>. QED
        BY <2>2, <2>4, <2>5, QuietRows DEF ValidateReplay, Quiet
<1>3. CASE Go(r, "refused")
    BY <1>1, <1>3, GoStep, QuietRows
       DEF ValidateReplay, Quiet, Pcs, Answers, KeySteps, ReplaySteps
<1>4. CASE Fail(r)
    BY <1>1, <1>4, FailMoves, QuietRows DEF ValidateReplay, Quiet
<1>. QED
    BY <1>2, <1>3, <1>4 DEF ValidateReplay

LEMMA CreateMoves ==
    ASSUME TypeInv, NEW r \in Requests, Create(r)
    PROVE  /\ LocalStep(r) /\ RowTypes' /\ proc'[r].releases = FALSE
           /\ Moves(r, IF proc[r].key = None \/ proc[r].kind = "workflow"
                       THEN "Load" ELSE "LinkDraft")
           /\ KeepsReplay(r) /\ KeepsDraft(r) /\ KeepsThread(r) /\ KeepsFound(r)
<1>. DEFINE s == IF proc[r].key = None \/ proc[r].kind = "workflow"
                 THEN "Load" ELSE "LinkDraft"
<1>1. /\ s \in Pcs /\ proc[r].pc # "idle" /\ s \notin Informed \union Decided
      /\ s = "LinkDraft" => proc[r].key # None /\ proc[r].kind # "workflow"
      /\ s \in KeySteps \union ReplaySteps => s = "LinkDraft"
    BY DEF Create, At, Pcs, Steps, EnqueueSteps, KeySteps, ReplaySteps, Informed, Decided
<1>2. proc' = [proc EXCEPT ![r].pc = s, ![r].releases = FALSE]
    BY DEF Create
<1>. HIDE DEF s
<1>3. /\ Moves(r, s) /\ KeepsReplay(r) /\ KeepsDraft(r) /\ KeepsThread(r)
      /\ KeepsFound(r) /\ proc'[r].releases = FALSE
    BY <1>1, <1>2, ReleaseMoves DEF TypeInv
<1>4. LocalStep(r)
    BY <1>1, <1>3
       DEF LocalStep, LocalOK, TypeInv, LocalsOK, Moves, KeepsReplay, KeepsDraft, KeepsFound
<1>5. RowTypes'
    BY KeysStay DEF Create, TypeInv, TypeOK, RowTypes, historyVars, DraftStatus
<1>. QED
    BY <1>3, <1>4, <1>5 DEF s

LEMMA LoadActionMoves ==
    ASSUME TypeInv, NEW r \in Requests, Load(r)
    PROVE  /\ LocalStep(r) /\ RowTypes'
           /\ \/ /\ Moves(r, "Claim") /\ KeepsRelease(r) /\ KeepsReplay(r) /\ KeepsDraft(r)
                 /\ KeepsFound(r) /\ proc'[r].created = proc[r].created
              \/ Goes(r, Failing(r))
<1>1. proc[r].pc # "idle"
    BY DEF Load, At
<1>2. RowTypes'
    BY QuietRows DEF Load, Quiet
<1>3. CASE Fail(r)
    BY <1>1, <1>2, <1>3, FailMoves DEF Failing
<1>4. CASE ~Fail(r)
    <2>1. proc[r].draft \in Drafts
        BY <1>1 DEF TypeInv, LocalsOK, LocalOK
    <2>2. /\ draft[proc[r].draft].status \in DraftStatus
          /\ draft[proc[r].draft].thread \in Requests \union {None}
        BY <2>1 DEF TypeInv, TypeOK
    <2>3. Loads(r, draft[proc[r].draft].status, draft[proc[r].draft].thread)
        BY <1>4 DEF Load, Loads
    <2>4. /\ Moves(r, "Claim") /\ KeepsRelease(r) /\ KeepsReplay(r) /\ KeepsDraft(r)
          /\ KeepsFound(r) /\ proc'[r].created = proc[r].created
        BY <2>2, <2>3, LoadMoves DEF TypeInv
    <2>5. LocalStep(r)
        BY <1>1, <2>4 DEF LocalStep, LocalOK, TypeInv, LocalsOK, Moves, KeepsDraft, KeepsFound,
           KeepsReplay, KeepsRelease, KeySteps, ReplaySteps, Informed, Decided
    <2>. QED
        BY <1>2, <2>4, <2>5
<1>. QED
    BY <1>3, <1>4

LEMMA ClaimMoves ==
    ASSUME TypeInv, NEW r \in Requests, Claim(r)
    PROVE  /\ LocalStep(r) /\ RowTypes'
           /\ \/ Goes(r, IF proc[r].prior = None THEN "Thread" ELSE "Reserve")
              \/ Goes(r, Failing(r))
<1>. DEFINE s == IF proc[r].prior = None THEN "Thread" ELSE "Reserve"
<1>1. proc[r].pc # "idle" /\ s \in Pcs \ (KeySteps \union ReplaySteps)
    BY DEF Claim, At, Pcs, Steps, EnqueueSteps, KeySteps, ReplaySteps
<1>. HIDE DEF s
<1>2. ASSUME Go(r, s) PROVE LocalStep(r) /\ Goes(r, s)
    BY <1>1, <1>2, GoStep
<1>3. ASSUME Fail(r) PROVE LocalStep(r) /\ Goes(r, Failing(r))
    BY <1>1, <1>3, FailMoves DEF Failing
<1>4. draft' \in [Drafts -> [status : DraftStatus, thread : Requests \union {None}]]
    BY DEF Claim, TypeInv, TypeOK, DraftStatus
<1>5. RowTypes'
    BY <1>4, KeysStay DEF Claim, TypeInv, TypeOK, RowTypes, historyVars
<1>. QED
    BY <1>2, <1>3, <1>5 DEF Claim, s

LEMMA ThreadActionMoves ==
    ASSUME TypeInv, NEW r \in Requests, Thread(r)
    PROVE  /\ LocalStep(r) /\ RowTypes'
           /\ Moves(r, "AssignThread") /\ KeepsRelease(r) /\ KeepsReplay(r)
           /\ KeepsDraft(r) /\ KeepsFound(r) /\ proc'[r].created = TRUE
           /\ proc'[r].prior = proc[r].prior
<1>1. proc[r].pc # "idle"
    BY DEF Thread, At
<1>2. /\ Moves(r, "AssignThread") /\ KeepsRelease(r) /\ KeepsReplay(r)
      /\ KeepsDraft(r) /\ KeepsFound(r) /\ proc'[r].created = TRUE
      /\ proc'[r].prior = proc[r].prior
    BY ThreadMoves DEF Thread, TypeInv
<1>3. LocalStep(r)
    BY <1>1, <1>2 DEF LocalStep, LocalOK, TypeInv, LocalsOK, Moves, KeepsDraft, KeepsFound, KeepsReplay,
       KeepsRelease, KeySteps, ReplaySteps, Informed, Decided
<1>4. RowTypes'
    BY KeysStay DEF Thread, TypeInv, TypeOK, RowTypes, historyVars
<1>. QED
    BY <1>2, <1>3, <1>4

LEMMA AssignThreadMoves ==
    ASSUME TypeInv, NEW r \in Requests, AssignThread(r)
    PROVE  LocalStep(r) /\ RowTypes' /\ Goes(r, "Reserve")
<1>1. proc[r].pc # "idle"
    BY DEF AssignThread, At
<1>2. LocalStep(r) /\ Goes(r, "Reserve")
    BY <1>1, GoStep DEF AssignThread, Pcs, Steps, EnqueueSteps, KeySteps, ReplaySteps
<1>3. draft' \in [Drafts -> [status : DraftStatus, thread : Requests \union {None}]]
    BY DEF AssignThread, TypeInv, TypeOK
<1>4. RowTypes'
    BY <1>3, KeysStay DEF AssignThread, TypeInv, TypeOK, RowTypes, historyVars
<1>. QED
    BY <1>2, <1>4

LEMMA ReserveActionMoves ==
    ASSUME TypeInv, NEW r \in Requests, Reserve(r)
    PROVE  /\ LocalStep(r) /\ RowTypes'
           /\ \/ /\ Moves(r, "Message") /\ KeepsRelease(r) /\ KeepsReplay(r)
                 /\ KeepsDraft(r) /\ KeepsThread(r) /\ KeepsFound(r)
              \/ Goes(r, "UndoDraft")
<1>1. proc[r].pc # "idle"
    BY DEF Reserve, At
<1>2. CASE account.available >= 1
    <2>1. /\ Moves(r, "Message") /\ KeepsRelease(r) /\ KeepsReplay(r)
          /\ KeepsDraft(r) /\ KeepsThread(r) /\ KeepsFound(r)
        BY <1>2, ReserveMoves DEF Reserve, TypeInv
    <2>2. LocalStep(r)
        BY <1>1, <2>1 DEF LocalStep, LocalOK, TypeInv, LocalsOK, Moves, KeepsDraft, KeepsFound,
           KeepsReplay, KeepsRelease, KeySteps, ReplaySteps, Informed, Decided
    <2>3. account' \in [available : Nat, reserved : Nat]
        BY <1>2 DEF Reserve, TypeInv, TypeOK
    <2>. QED
        BY <2>1, <2>2, <2>3, KeysStay DEF Reserve, TypeInv, TypeOK, RowTypes, historyVars
<1>3. CASE ~(account.available >= 1)
    <2>1. LocalStep(r) /\ Goes(r, "UndoDraft")
        BY <1>1, <1>3, GoStep DEF Reserve, Pcs, Steps, UndoSteps, KeySteps, ReplaySteps
    <2>. QED
        BY <1>3, <2>1, KeysStay DEF Reserve, TypeInv, TypeOK, RowTypes, historyVars
<1>. QED
    BY <1>2, <1>3

LEMMA InsertMessageMoves ==
    ASSUME TypeInv, NEW r \in Requests, InsertMessage(r)
    PROVE  LocalStep(r) /\ RowTypes' /\ Goes(r, "Job")
<1>1. proc[r].pc # "idle"
    BY DEF InsertMessage, At
<1>2. LocalStep(r) /\ Goes(r, "Job")
    BY <1>1, GoStep DEF InsertMessage, Pcs, Steps, EnqueueSteps, KeySteps, ReplaySteps
<1>3. proc[r].prior \in Requests \union {None}
    BY DEF TypeInv, TypeOK, ProcType
<1>4. message' \in [Requests -> Requests \union {None}]
    BY <1>3 DEF InsertMessage, TypeInv, TypeOK
<1>. QED
    BY <1>2, <1>4, KeysStay DEF InsertMessage, TypeInv, TypeOK, RowTypes, historyVars

LEMMA InsertJobMoves ==
    ASSUME TypeInv, NEW r \in Requests, InsertJob(r)
    PROVE  /\ LocalStep(r) /\ RowTypes' /\ proc[r].draft \in Drafts
           /\ \/ /\ VisibleJobs(proc[r].draft) = {} /\ Goes(r, "Queue")
                 /\ job' = [job EXCEPT ![r] = [status |-> "queued", draft |-> proc[r].draft]]
              \/ Goes(r, "UndoMessage") /\ job' = job
<1>1. proc[r].pc # "idle"
    BY DEF InsertJob, At
<1>2. proc[r].draft \in Drafts
    BY <1>1 DEF TypeInv, LocalsOK, LocalOK
<1>3. CASE VisibleJobs(proc[r].draft) = {}
    <2>1. LocalStep(r) /\ Goes(r, "Queue")
        BY <1>1, <1>3, GoStep DEF InsertJob, Pcs, Steps, EnqueueSteps, KeySteps, ReplaySteps
    <2>2. job' \in [Requests -> [status : JobStatus, draft : Drafts \union {None}]]
        BY <1>2, <1>3 DEF InsertJob, TypeInv, TypeOK, JobStatus
    <2>. QED
        BY <1>2, <1>3, <2>1, <2>2, KeysStay
           DEF InsertJob, TypeInv, TypeOK, RowTypes, historyVars
<1>4. CASE ~(VisibleJobs(proc[r].draft) = {})
    <2>1. LocalStep(r) /\ Goes(r, "UndoMessage")
        BY <1>1, <1>4, GoStep DEF InsertJob, Pcs, Steps, UndoSteps, KeySteps, ReplaySteps
    <2>. QED
        BY <1>2, <1>4, <2>1, KeysStay DEF InsertJob, TypeInv, TypeOK, RowTypes, historyVars
<1>. QED
    BY <1>3, <1>4

(* Where a request goes whose job is in the queue.                         *)
AfterQueue(r) ==
    IF proc[r].replay THEN "Reread"
    ELSE IF proc[r].key = None THEN "accepted"
    ELSE IF proc[r].kind = "create" THEN "Complete"
    ELSE IF proc[r].kind = "workflow" THEN "LinkDraft" ELSE "LinkJob"

LEMMA SendToQueueMoves ==
    ASSUME TypeInv, NEW r \in Requests, SendToQueue(r)
    PROVE  /\ LocalStep(r) /\ RowTypes' /\ Moves(r, AfterQueue(r))
           /\ KeepsReplay(r) /\ KeepsDraft(r) /\ KeepsThread(r) /\ proc'[r].job = r
           /\ proc'[r].releases = (proc[r].releases /\ proc[r].kind # "send")
<1>. DEFINE s == AfterQueue(r)
            b == proc[r].releases /\ proc[r].kind # "send"
<1>1. proc[r].pc # "idle" /\ b \in BOOLEAN
    BY DEF SendToQueue, At
<1>2. /\ s \in Pcs
      /\ s \in KeySteps \union ReplaySteps => proc[r].key # None
      /\ s \notin Informed
    BY DEF TypeInv, LocalsOK, LocalOK, AfterQueue, Pcs, Steps, KeySteps, ReplaySteps, Answers, Informed
<1>3. Enqueues(r, s, b)
    BY DEF Enqueues, SendToQueue, Enqueued, AfterQueue, TypeInv, TypeOK
<1>. HIDE DEF s, b
<1>4. /\ Moves(r, s) /\ KeepsReplay(r) /\ KeepsDraft(r) /\ KeepsThread(r)
      /\ proc'[r].releases = b /\ proc'[r].job = r /\ proc'[r].resource = proc[r].resource
    BY <1>1, <1>2, <1>3, EnqueueMoves DEF TypeInv
<1>5. r # None
    BY DraftSendAssumption DEF Drafts
<1>6. b => proc[r].key # None
    BY DEF b, TypeInv, LocalsOK, LocalOK
<1>7. LocalOK(proc'[r])
    BY <1>1, <1>2, <1>4, <1>5, <1>6 DEF LocalOK, TypeInv, LocalsOK, Moves, KeepsDraft, KeepsReplay
<1>8. LocalStep(r)
    BY <1>4, <1>7 DEF LocalStep, Moves
<1>9. RowTypes'
    BY KeysStay DEF SendToQueue, TypeInv, TypeOK, RowTypes, historyVars
<1>. QED
    BY <1>4, <1>8, <1>9 DEF s, b

LEMMA AfterUndoStep ==
    ASSUME TypeInv, NEW r \in Requests, proc[r].pc \in UndoSteps, Go(r, AfterUndo(r))
    PROVE  /\ LocalStep(r)
           /\ \E s \in UndoSteps \union {"ReleaseKey", "refused"} :
                Goes(r, s) /\ (s = "ReleaseKey" <=> proc[r].releases /\ s \notin UndoSteps)
<1>. DEFINE s == AfterUndo(r)
<1>1. /\ s \in UndoSteps \union {"ReleaseKey", "refused"}
      /\ s = "ReleaseKey" <=> proc[r].releases /\ s \notin UndoSteps
    BY DEF AfterUndo, UndoSteps
<1>. HIDE DEF s
<1>2. s \in Pcs /\ proc[r].pc # "idle"
    BY <1>1 DEF Pcs, Steps, KeySteps, Answers, UndoSteps
<1>3. /\ s \in KeySteps \union ReplaySteps => s = "ReleaseKey"
      /\ s \notin Informed \union Decided \union {"LinkDraft"}
    BY <1>1 DEF UndoSteps, KeySteps, ReplaySteps, Informed, Decided
<1>4. Goes(r, s)
    BY <1>2, GoMoves DEF TypeInv, s
<1>5. proc[r].releases => proc[r].key # None
    BY DEF TypeInv, LocalsOK, LocalOK
<1>6. LocalStep(r)
    BY <1>1, <1>2, <1>3, <1>4, <1>5, GoLocal
<1>. QED
    BY <1>1, <1>4, <1>6

LEMMA UndoMoves ==
    ASSUME TypeInv, NEW r \in Requests, Undo(r)
    PROVE  /\ proc[r].pc \in UndoSteps /\ LocalStep(r) /\ RowTypes'
           /\ \E s \in UndoSteps \union {"ReleaseKey", "refused"} :
                Goes(r, s) /\ (s = "ReleaseKey" <=> proc[r].releases /\ s \notin UndoSteps)
<1>1. proc[r].pc \in UndoSteps
    BY DEF Undo, UndoJob, UndoMessage, UndoDraft, UndoThread, UndoCredits, At, UndoSteps
<1>2. /\ LocalStep(r)
      /\ \E s \in UndoSteps \union {"ReleaseKey", "refused"} :
           Goes(r, s) /\ (s = "ReleaseKey" <=> proc[r].releases /\ s \notin UndoSteps)
    BY <1>1, AfterUndoStep DEF Undo
<1>3. proc[r].seen \in DraftStatus /\ proc[r].prior \in Requests \union {None}
    BY DEF TypeInv, TypeOK, ProcType
<1>4. job' \in [Requests -> [status : JobStatus, draft : Drafts \union {None}]]
    BY DEF Undo, UndoJob, UndoMessage, UndoDraft, UndoThread, UndoCredits, TypeInv, TypeOK, JobStatus
<1>5. message' \in [Requests -> Requests \union {None}]
    BY DEF Undo, UndoJob, UndoMessage, UndoDraft, UndoThread, UndoCredits, TypeInv, TypeOK
<1>6. draft' \in [Drafts -> [status : DraftStatus, thread : Requests \union {None}]]
    BY <1>3 DEF Undo, UndoJob, UndoMessage, UndoDraft, UndoThread, UndoCredits, TypeInv, TypeOK
<1>7. threads' \subseteq Requests
    BY DEF Undo, UndoJob, UndoMessage, UndoDraft, UndoThread, UndoCredits, TypeInv, TypeOK
<1>8. account' \in [available : Nat, reserved : Nat]
    BY DEF Undo, UndoJob, UndoMessage, UndoDraft, UndoThread, UndoCredits, TypeInv, TypeOK
<1>9. RowTypes'
    BY <1>4, <1>5, <1>6, <1>7, <1>8, KeysStay
       DEF Undo, TypeInv, TypeOK, RowTypes, historyVars
<1>. QED
    BY <1>1, <1>2, <1>9

LEMMA FindDraftMoves ==
    ASSUME TypeInv, NEW r \in Requests, FindDraft(r)
    PROVE  /\ LocalStep(r) /\ RowTypes' /\ proc[r].resource[2] \in Drafts
           /\ \/ /\ proc[r].kind \in ReplaysDraft /\ Moves(r, "FindJob")
                 /\ KeepsRelease(r) /\ KeepsReplay(r) /\ KeepsThread(r) /\ KeepsFound(r)
                 /\ proc'[r].draft = proc[r].resource[2]
              \/ /\ proc[r].kind \notin ReplaysDraft /\ Moves(r, "Load")
                 /\ KeepsRelease(r) /\ KeepsThread(r) /\ proc'[r].replay = TRUE
              \/ Goes(r, Failing(r)) /\ proc[r].kind \notin ReplaysDraft
<1>. DEFINE d == proc[r].resource[2]
            v == IF proc[r].resource[1] = "draft" THEN draft[d].status ELSE "none"
<1>1. proc[r].resource # None /\ proc[r].key # None /\ proc[r].pc # "idle"
    BY HasKey DEF FindDraft, At, ReplaySteps, TypeInv, LocalsOK, LocalOK, Informed
<1>2. proc[r].resource \in {"draft", "job"} \X Drafts
    BY <1>1 DEF TypeInv, TypeOK, ProcType
<1>3. d \in Drafts
    BY <1>2
<1>4. v \in DraftStatus
    BY <1>3 DEF TypeInv, TypeOK, DraftStatus
<1>5. RowTypes'
    BY QuietRows DEF FindDraft, Quiet
<1>6. IF proc[r].kind \in ReplaysDraft THEN Finds(r, d, v)
      ELSE TakesUp(r, d) \/ Fail(r)
    BY DEF FindDraft, Finds, TakesUp
<1>. HIDE DEF d, v
<1>7. ASSUME proc[r].kind \in ReplaysDraft
      PROVE  /\ LocalStep(r) /\ Moves(r, "FindJob")
             /\ KeepsRelease(r) /\ KeepsReplay(r) /\ KeepsThread(r) /\ KeepsFound(r)
             /\ proc'[r].draft = d
    <2>1. /\ Moves(r, "FindJob") /\ KeepsRelease(r) /\ KeepsReplay(r) /\ KeepsThread(r)
          /\ KeepsFound(r) /\ proc'[r].draft = d
        BY <1>3, <1>4, <1>6, <1>7, FindMoves DEF TypeInv
    <2>. QED
        BY <1>1, <1>3, <2>1 DEF LocalStep, LocalOK, TypeInv, LocalsOK, Moves, KeepsFound, Decided
<1>8. ASSUME TakesUp(r, d)
      PROVE  /\ LocalStep(r) /\ Moves(r, "Load") /\ KeepsRelease(r) /\ KeepsThread(r)
             /\ proc'[r].replay = TRUE
    <2>1. /\ Moves(r, "Load") /\ KeepsRelease(r) /\ KeepsThread(r) /\ KeepsFound(r)
          /\ proc'[r].draft = d /\ proc'[r].replay = TRUE
        BY <1>3, <1>8, ConsoleMoves DEF TypeInv
    <2>. QED
        BY <1>1, <1>3, <2>1
           DEF LocalStep, LocalOK, TypeInv, LocalsOK, Moves, KeepsFound, Decided, Informed
<1>9. ASSUME Fail(r) PROVE LocalStep(r) /\ Goes(r, Failing(r))
    BY <1>1, <1>9, FailMoves DEF Failing
<1>. QED
    BY <1>3, <1>5, <1>6, <1>7, <1>8, <1>9 DEF d

LEMMA FindJobMoves ==
    ASSUME TypeInv, NEW r \in Requests, FindJob(r)
    PROVE  /\ LocalStep(r) /\ RowTypes'
           /\ \/ /\ Moves(r, "FindMessage") /\ KeepsRelease(r) /\ KeepsReplay(r)
                 /\ KeepsDraft(r) /\ KeepsThread(r) /\ proc'[r].resource = proc[r].resource
              \/ /\ Moves(r, "Load") /\ KeepsRelease(r) /\ KeepsDraft(r) /\ KeepsThread(r)
                 /\ proc'[r].replay = TRUE /\ proc[r].kind \in ReplaysDraft
              \/ Goes(r, Failing(r))
              \/ proc[r].kind = "admin" /\ Goes(r, "FindDraft")
<1>. DEFINE j == proc[r].resource[2]
<1>1. proc[r].resource # None /\ proc[r].key # None /\ proc[r].pc # "idle"
    BY HasKey DEF FindJob, At, ReplaySteps, TypeInv, LocalsOK, LocalOK, Informed
<1>2. NamesJob(proc[r].resource)
    BY DEF TypeInv, LocalsOK, LocalOK
<1>3. RowTypes'
    BY QuietRows DEF FindJob, Quiet
<1>4. ASSUME NEW q \in Requests, Found(r, q)
      PROVE  /\ LocalStep(r) /\ Moves(r, "FindMessage") /\ KeepsRelease(r) /\ KeepsReplay(r)
             /\ KeepsDraft(r) /\ KeepsThread(r) /\ proc'[r].resource = proc[r].resource
    <2>1. /\ Moves(r, "FindMessage") /\ KeepsRelease(r) /\ KeepsReplay(r) /\ KeepsDraft(r)
          /\ KeepsThread(r) /\ proc'[r].job = q /\ proc'[r].resource = proc[r].resource
        BY <1>4, FoundMoves DEF TypeInv
    <2>2. q # None
        BY DraftSendAssumption DEF Drafts
    <2>. QED
        BY <1>1, <2>1, <2>2 DEF LocalStep, LocalOK, TypeInv, LocalsOK, Moves, KeepsDraft
<1>5. ASSUME Fail(r) PROVE LocalStep(r) /\ Goes(r, Failing(r))
    BY <1>1, <1>5, FailMoves DEF Failing
<1>6. ASSUME Resume(r), ~Fail(r)
      PROVE  /\ LocalStep(r) /\ Moves(r, "Load") /\ KeepsRelease(r) /\ KeepsDraft(r)
             /\ KeepsThread(r) /\ proc'[r].replay = TRUE
    <2>1. proc' = [proc EXCEPT ![r].pc = "Load", ![r].replay = TRUE]
        BY <1>6 DEF Resume
    <2>2. /\ Moves(r, "Load") /\ KeepsRelease(r) /\ KeepsDraft(r) /\ KeepsThread(r)
          /\ KeepsFound(r) /\ proc'[r].replay = TRUE
        BY <2>1, ResumeMoves DEF TypeInv
    <2>. QED
        BY <1>1, <2>2 DEF LocalStep, LocalOK, TypeInv, LocalsOK, Moves, KeepsDraft, KeepsFound,
           Informed, Decided
<1>7. ASSUME Go(r, "FindDraft") PROVE LocalStep(r) /\ Goes(r, "FindDraft")
    <2>1. Goes(r, "FindDraft")
        BY <1>7, GoMoves DEF TypeInv, Pcs, Steps, ReplaySteps
    <2>. QED
        BY <1>1, <2>1, GoLocal DEF Pcs, Steps, ReplaySteps, Decided
<1>8. CASE proc[r].kind \in ReplaysDraft
    <2>. DEFINE some == \E q \in VisibleJobs(proc[r].draft) : Found(r, q)
    <2>1. some \/ Resume(r)
        <3>1. IF Cardinality(VisibleJobs(proc[r].draft)) = 1 THEN some ELSE Resume(r)
            BY <1>8 DEF FindJob
        <3>. QED
            BY <3>1
    <2>. QED
        BY <1>3, <1>4, <1>5, <1>6, <1>8, <2>1 DEF VisibleJobs, JobsOf
<1>9. CASE proc[r].kind \notin ReplaysDraft
    <2>1. \/ proc[r].resource[1] = "job" /\ Found(r, j)
          \/ proc[r].kind = "admin" /\ Go(r, "FindDraft")
          \/ Fail(r)
        BY <1>9 DEF FindJob
    <2>2. proc[r].resource[1] = "job" => j \in Requests
        BY <1>1, <1>2 DEF NamesJob
    <2>. QED
        BY <1>3, <1>4, <1>5, <1>7, <2>1, <2>2
<1>. QED
    BY <1>8, <1>9

LEMMA FindMessageMoves ==
    ASSUME TypeInv, NEW r \in Requests, FindMessage(r)
    PROVE  /\ LocalStep(r) /\ RowTypes'
           /\ Goes(r, "CompleteReplay") \/ Goes(r, Failing(r))
<1>1. proc[r].pc # "idle" /\ proc[r].key # None /\ proc[r].job # None
    BY HasKey DEF FindMessage, At, ReplaySteps, TypeInv, LocalsOK, LocalOK, Decided
<1>2. RowTypes'
    BY QuietRows DEF FindMessage, Quiet
<1>3. CASE Go(r, "CompleteReplay")
    <2>1. Goes(r, "CompleteReplay")
        BY <1>3, GoMoves DEF TypeInv, Pcs, Steps, KeySteps
    <2>. QED
        BY <1>1, <1>2, <2>1, GoLocal DEF Pcs, Steps, KeySteps, Informed
<1>4. CASE Fail(r)
    BY <1>1, <1>2, <1>4, FailMoves DEF Failing
<1>. QED
    BY <1>3, <1>4 DEF FindMessage

LEMMA RereadMoves ==
    ASSUME TypeInv, NEW r \in Requests, Reread(r)
    PROVE  LocalStep(r) /\ RowTypes' /\ Goes(r, "CompleteReplay")
<1>1. proc[r].pc # "idle" /\ proc[r].key # None /\ proc[r].job # None
    BY HasKey DEF Reread, At, ReplaySteps, TypeInv, LocalsOK, LocalOK, Decided
<1>2. RowTypes'
    BY QuietRows DEF Reread, Quiet
<1>3. Goes(r, "CompleteReplay")
    BY GoMoves DEF Reread, TypeInv, Pcs, Steps, KeySteps
<1>. QED
    BY <1>1, <1>2, <1>3, GoLocal DEF Pcs, Steps, KeySteps, Informed

LEMMA CancelDraftMoves ==
    ASSUME TypeInv, NEW r \in Requests, CancelDraft(r)
    PROVE  LocalStep(r) /\ RowTypes' /\ Goes(r, "cancelled")
<1>1. proc[r].pc # "idle"
    BY DEF CancelDraft, At
<1>2. LocalStep(r) /\ Goes(r, "cancelled")
    BY <1>1, GoStep DEF CancelDraft, Pcs, Answers, KeySteps, ReplaySteps
<1>3. draft' \in [Drafts -> [status : DraftStatus, thread : Requests \union {None}]]
    BY DEF CancelDraft, TypeInv, TypeOK, DraftStatus
<1>. QED
    BY <1>2, <1>3, KeysStay DEF CancelDraft, TypeInv, TypeOK, RowTypes, historyVars

LEMMA ArriveTypes ==
    ASSUME TypeInv, NEW r \in Requests, Arrive(r)
    PROVE  LocalStep(r) /\ RowTypes'
<1>1. /\ proc' \in [Requests -> ProcType] /\ \A q \in Requests \ {r} : proc'[q] = proc[q]
      /\ Arrived(r)
    BY ArriveMoves DEF TypeInv
<1>2. LocalOK(proc'[r])
    BY <1>1 DEF Arrived, LocalOK, KeySteps, ReplaySteps, Informed, Decided, NamesJob
<1>. QED
    BY <1>1, <1>2, QuietRows DEF LocalStep, Arrive, Quiet

(* A failure is recorded; it changes no row but the queue.                 *)
LEMMA SufferTypes ==
    ASSUME TypeInv, NEW k, Suffer(k), UNCHANGED <<keys, draft, threads, message, job, account>>,
           queue' \subseteq Requests
    PROVE  RowTypes' /\ failed' = failed \union {k} /\ UNCHANGED <<lapsed, mailed>>
<1>1. failed' = failed \union {k} /\ faults' = faults + 1 /\ UNCHANGED <<lapsed, mailed>>
    BY DEF Suffer
<1>2. k \in FaultKinds
    BY DraftSendAssumption DEF Suffer
<1>3. keys' \in [Slots -> KeyRecords] /\ KeysOK'
    BY KeysStay
<1>4. failed' \subseteq FaultKinds /\ faults' \in Nat
    BY <1>1, <1>2 DEF TypeInv, TypeOK
<1>. QED
    BY <1>1, <1>3, <1>4 DEF TypeInv, TypeOK, RowTypes

LEMMA CrashMoves ==
    ASSUME TypeInv, NEW r \in Requests, Crash(r)
    PROVE  LocalStep(r) /\ RowTypes' /\ Goes(r, "dead")
<1>1. proc[r].pc # "idle"
    BY DEF Crash, Running, Steps, EnqueueSteps, UndoSteps, KeySteps, ReplaySteps
<1>2. LocalStep(r) /\ Goes(r, "dead")
    BY <1>1, GoStep DEF Crash, Pcs, Steps, KeySteps, ReplaySteps
<1>. QED
    BY <1>2, SufferTypes DEF Crash, sendVars, TypeInv, TypeOK

LEMMA RollbackMoves ==
    ASSUME TypeInv, NEW r \in Requests, proc[r].pc # "idle", Rollback(r)
    PROVE  LocalStep(r) /\ \E s \in {"UndoJob", "UndoMessage", "UndoDraft"} : Goes(r, s)
<1>. DEFINE s == CASE proc[r].pc = "Queue" -> "UndoJob"
                   [] proc[r].pc = "Job"   -> "UndoMessage"
                   [] OTHER                -> "UndoDraft"
<1>1. s \in {"UndoJob", "UndoMessage", "UndoDraft"} /\ Go(r, s)
    BY DEF Rollback
<1>. HIDE DEF s
<1>2. s \in Pcs \ (KeySteps \union ReplaySteps)
    BY <1>1 DEF Pcs, Steps, UndoSteps, KeySteps, ReplaySteps
<1>. QED
    BY <1>1, <1>2, GoStep

LEMMA ThrowMoves ==
    ASSUME TypeInv, NEW r \in Requests, Throw(r)
    PROVE  /\ LocalStep(r) /\ RowTypes' /\ Running(r)
           /\ proc[r].pc \notin UndoSteps \union {"Queue"}
           /\ \/ /\ proc[r].pc \in {"Thread", "AssignThread", "Reserve", "Message", "Job"}
                 /\ \E s \in {"UndoJob", "UndoMessage", "UndoDraft"} : Goes(r, s)
              \/ proc[r].pc = "CompleteReplay" /\ Goes(r, "accepted")
              \/ proc[r].pc = "ReleaseKey" /\ Goes(r, "refused")
              \/ proc[r].pc # "CompleteReplay" /\ Goes(r, Failing(r))
<1>1. proc[r].pc # "idle"
    BY DEF Throw, Running, Steps, EnqueueSteps, UndoSteps, KeySteps, ReplaySteps
<1>2. RowTypes' /\ Running(r) /\ proc[r].pc \notin UndoSteps \union {"Queue"}
    BY SufferTypes DEF Throw, sendVars, TypeInv, TypeOK
<1>3. CASE proc[r].pc \in {"Thread", "AssignThread", "Reserve", "Message", "Job"}
    BY <1>1, <1>2, <1>3, RollbackMoves DEF Throw
<1>4. CASE proc[r].pc = "CompleteReplay" /\ Go(r, "accepted")
    BY <1>1, <1>2, <1>4, GoStep DEF Pcs, Answers, KeySteps, ReplaySteps
<1>5. CASE proc[r].pc = "ReleaseKey" /\ Go(r, "refused")
    BY <1>1, <1>2, <1>5, GoStep DEF Pcs, Answers, KeySteps, ReplaySteps
<1>6. CASE proc[r].pc # "CompleteReplay" /\ Fail(r)
    BY <1>1, <1>2, <1>6, FailMoves DEF Failing
<1>. QED
    BY <1>3, <1>4, <1>5, <1>6 DEF Throw, At

LEMMA QueueFailsMoves ==
    ASSUME TypeInv, NEW r \in Requests, QueueFails(r) \/ QueueFailsLate(r)
    PROVE  /\ LocalStep(r) /\ RowTypes' /\ proc[r].pc = "Queue"
           /\ \E s \in {"UndoJob", "UndoMessage", "UndoDraft"} : Goes(r, s)
<1>1. proc[r].pc # "idle" /\ proc[r].pc = "Queue" /\ Rollback(r)
    BY DEF QueueFails, QueueFailsLate, At
<1>2. queue' \subseteq Requests /\ UNCHANGED <<keys, draft, threads, message, job, account>>
    BY DEF QueueFails, QueueFailsLate, sendVars, TypeInv, TypeOK
<1>3. RowTypes'
    BY <1>2, SufferTypes DEF QueueFails, QueueFailsLate
<1>. QED
    BY <1>1, <1>3, RollbackMoves

LEMMA UndoFailsMoves ==
    ASSUME TypeInv, NEW r \in Requests, UndoFails(r)
    PROVE  /\ proc[r].pc \in UndoSteps /\ LocalStep(r) /\ RowTypes'
           /\ \E s \in UndoSteps \union {"ReleaseKey", "refused"} :
                Goes(r, s) /\ (s = "ReleaseKey" <=> proc[r].releases /\ s \notin UndoSteps)
<1>1. RowTypes'
    BY SufferTypes DEF UndoFails, sendVars, TypeInv, TypeOK
<1>. QED
    BY <1>1, AfterUndoStep DEF UndoFails

LEMMA ConsumeTypes ==
    ASSUME TypeInv, NEW j \in Requests, Consume(j)
    PROVE  TypeInv'
<1>1. job' \in [Requests -> [status : JobStatus, draft : Drafts \union {None}]]
    BY DEF Consume, Consumed, TypeInv, TypeOK, JobStatus
<1>2. draft' \in [Drafts -> [status : DraftStatus, thread : Requests \union {None}]]
    <2>. DEFINE T == [status : DraftStatus, thread : Requests \union {None}]
    <2>1. draft \in [Drafts -> T]
        BY DEF TypeInv, TypeOK
    <2>2. ASSUME NEW v \in DraftStatus, draft' = [draft EXCEPT ![job[j].draft].status = v]
          PROVE  draft' \in [Drafts -> T]
        BY <2>1, <2>2
    <2>3. draft' = draft \/ \E v \in DraftStatus : draft' = [draft EXCEPT ![job[j].draft].status = v]
        BY DEF Consume, Consumed, DraftStatus
    <2>. QED
        BY <2>1, <2>2, <2>3
<1>3. account' \in [available : Nat, reserved : Nat]
    BY DEF Consume, Consumed, TypeInv, TypeOK
<1>4. queue' \subseteq Requests /\ mailed' \subseteq Requests
    BY DEF Consume, Consumed, TypeInv, TypeOK
<1>5. TypeOK'
    BY <1>1, <1>2, <1>3, <1>4 DEF Consume, TypeInv, TypeOK, historyVars
<1>6. KeysOK' /\ LocalsOK'
    BY DEF Consume, TypeInv, KeysOK, KeyOK, NamesJob, LocalsOK, LocalOK
<1>. QED
    BY <1>5, <1>6 DEF TypeInv

LEMMA RequestTypes ==
    ASSUME TypeInv, NEW r \in Requests, RequestStep(r)
    PROVE  LocalStep(r) /\ RowTypes'
<1>1. CASE CancelDraft(r) \/ Validate(r) \/ Create(r)
    BY <1>1, CancelDraftMoves, ValidateMoves, CreateMoves
<1>2. CASE KeyStep(r)
    <2>1. CASE CheckKey(r) \/ RecheckKey(r)
        BY <2>1, CheckKeyTypes, RecheckKeyTypes, QuietRows DEF CheckKey, RecheckKey, Quiet
    <2>2. CASE InsertKey(r) \/ LinkDraft(r) \/ LinkJob(r)
        BY <2>2, InsertKeyMoves, LinkDraftMoves, LinkJobMoves
    <2>3. CASE Complete(r) \/ CompleteReplay(r) \/ ReleaseKey(r)
        BY <2>3, CompleteMoves, CompleteReplayMoves, ReleaseKeyMoves
    <2>. QED
        BY <1>2, <2>1, <2>2, <2>3 DEF KeyStep
<1>3. CASE EnqueueStep(r)
    BY <1>3, LoadActionMoves, ClaimMoves, ThreadActionMoves, AssignThreadMoves,
       ReserveActionMoves, InsertMessageMoves, InsertJobMoves, SendToQueueMoves DEF EnqueueStep
<1>4. CASE Undo(r)
    BY <1>4, UndoMoves
<1>5. CASE ReplayStep(r)
    BY <1>5, ValidateReplayMoves, FindDraftMoves, FindJobMoves, FindMessageMoves, RereadMoves
       DEF ReplayStep
<1>. QED
    BY <1>1, <1>2, <1>3, <1>4, <1>5 DEF RequestStep

LEMMA TypeStep ==
    ASSUME TypeInv, [Next]_vars
    PROVE  TypeInv'
<1>1. ASSUME NEW r \in Requests, Arrive(r) \/ RequestStep(r) \/ Failure(r)
      PROVE  TypeInv'
    <2>1. LocalStep(r) /\ RowTypes'
        BY <1>1, ArriveTypes, RequestTypes, CrashMoves, ThrowMoves, QueueFailsMoves,
           UndoFailsMoves DEF Failure
    <2>. QED
        BY <2>1, StepTypes
<1>2. ASSUME NEW j \in Requests, Consume(j)
      PROVE  TypeInv'
    BY <1>2, ConsumeTypes
<1>3. ASSUME NEW s \in Slots, Prune(s)
      PROVE  TypeInv'
    BY <1>3, PruneTypes
<1>4. ASSUME UNCHANGED vars
      PROVE  TypeInv'
    BY <1>4 DEF vars, sendVars, historyVars, TypeInv, TypeOK, KeysOK, KeyOK, NamesJob,
       LocalsOK, LocalOK
<1>. QED
    BY <1>1, <1>2, <1>3, <1>4 DEF Next

LEMMA InitTypes ==
    ASSUME Init
    PROVE  TypeInv
<1>1. NoRecord \in KeyRecords /\ KeyOK(NoRecord)
    BY NoRecordTypes
<1>2. IdleProc \in ProcType /\ LocalOK(IdleProc)
    BY DEF IdleProc, ProcType, DraftStatus, Kinds, LocalOK, KeySteps, ReplaySteps, Informed,
       Decided, NamesJob
<1>3. \A d \in Drafts : draft[d] \in [status : DraftStatus, thread : Requests \union {None}]
    BY DEF Init, DraftStatus
<1>4. draft \in [Drafts -> [status : DraftStatus, thread : Requests \union {None}]]
    BY <1>3 DEF Init
<1>5. TypeOK
    BY <1>1, <1>2, <1>4, DraftSendAssumption DEF Init, TypeOK, JobStatus
<1>6. KeysOK /\ LocalsOK
    BY <1>1, <1>2 DEF Init, KeysOK, LocalsOK
<1>. QED
    BY <1>5, <1>6 DEF TypeInv

(* Every row and every request keeps to its type: keys, drafts, messages,  *)
(* jobs and the account hold values of their schema, and the conditional   *)
(* updates of the account take neither balance below zero.                 *)
THEOREM DraftTypes == Spec => []TypeOK
<1>1. Init => TypeInv
    BY InitTypes
<1>2. TypeInv /\ [Next]_vars => TypeInv'
    BY TypeStep
<1>3. TypeInv => TypeOK
    BY DEF TypeInv
<1>. QED
    BY <1>1, <1>2, <1>3, PTL DEF Spec

-----------------------------------------------------------------------------
(* The rows of a request.                                                  *)

RowFrame == UNCHANGED <<message, job, queue, mailed>> /\ failed \subseteq failed'

OnlyMoves(r) == \A q \in Requests \ {r} : proc'[q] = proc[q]

LEMMA RowsStay ==
    ASSUME RowsInv, NEW r \in Requests, OnlyMoves(r), RowFrame, RowsOf(r)'
    PROVE  RowsInv'
<1>1. ASSUME NEW q \in Requests, q # r
      PROVE  RowsOf(q)'
    <2>1. proc'[q] = proc[q] /\ RowsOf(q)
        BY <1>1 DEF RowsInv, OnlyMoves
    <2>. QED
        BY <2>1 DEF RowFrame, RowsOf, Early, Sure, Out, Visible
<1>2. OneJob'
    BY DEF RowsInv, OneJob, RowFrame, Visible
<1>. QED
    BY <1>1, <1>2 DEF RowsInv

(* Steps at which the rows of a request are as they are.                   *)
LateSteps == {"LinkJob", "Complete", "CompleteReplay", "ReleaseKey", "FindMessage", "Reread",
              "dead", "accepted", "cancelled", "refused"}

LEMMA RowsLate ==
    ASSUME RowsInv, NEW r \in Requests, OnlyMoves(r), RowFrame, KeepsDraft(r),
           proc'[r].pc \in LateSteps \/ (proc'[r].pc = "LinkDraft" /\ proc'[r].kind = "workflow")
    PROVE  RowsInv'
<1>1. proc'[r].pc \notin UndoSteps \union {"Reserve", "Message", "AssignThread", "Job", "Queue"}
    BY DEF LateSteps, UndoSteps
<1>2. ~Early(proc'[r])
    BY DEF LateSteps, Early, Sending
<1>3. RowsOf(r)'
    <2>1. RowsOf(r)
        BY DEF RowsInv
    <2>. QED
        BY <1>1, <1>2, <2>1 DEF RowFrame, RowsOf, Early, Sure, Out, Visible, KeepsDraft
<1>. QED
    BY <1>3, RowsStay

LEMMA RowsEarly ==
    ASSUME RowsInv, NEW r \in Requests, OnlyMoves(r), RowFrame, Early(proc[r]),
           proc'[r].pc \notin {"Job", "Queue"},
           proc'[r].pc \in {"Reserve", "Message"} => proc'[r].created \/ proc'[r].prior # None,
           proc'[r].pc = "AssignThread" => proc'[r].created
    PROVE  RowsInv'
<1>1. RowsOf(r)'
    <2>1. RowsOf(r)
        BY DEF RowsInv
    <2>. QED
        BY <2>1 DEF RowFrame, RowsOf, Early, Sure, Out, Visible
<1>. QED
    BY <1>1, RowsStay

LEMMA RowsUndo ==
    ASSUME RowsInv, NEW r \in Requests, OnlyMoves(r), RowFrame, KeepsDraft(r),
           proc[r].pc \in UndoSteps \union {"Queue"}, proc'[r].pc \in UndoSteps
    PROVE  RowsInv'
<1>1. proc'[r].pc \notin {"Reserve", "Message", "AssignThread", "Job", "Queue"}
    BY DEF UndoSteps
<1>2. ~Early(proc'[r])
    BY DEF UndoSteps, Early, Sending
<1>3. RowsOf(r)'
    <2>1. RowsOf(r)
        BY DEF RowsInv
    <2>. QED
        BY <1>1, <1>2, <2>1 DEF RowFrame, RowsOf, Early, Sure, Out, Visible, KeepsDraft
<1>. QED
    BY <1>3, RowsStay

LEMMA FailRows ==
    ASSUME RowsInv, NEW r \in Requests, OnlyMoves(r), RowFrame, Goes(r, Failing(r))
    PROVE  RowsInv'
BY RowsLate DEF Goes, Moves, Failing, LateSteps

LEMMA LocalMoves ==
    ASSUME NEW r \in Requests, LocalStep(r)
    PROVE  OnlyMoves(r)
BY DEF LocalStep, OnlyMoves

LEMMA FrameOf ==
    ASSUME UNCHANGED <<sendVars, mailed, historyVars>>
    PROVE  RowFrame
BY DEF RowFrame, sendVars, historyVars

LEMMA KeyRows ==
    ASSUME TypeInv, RowsInv, NEW r \in Requests, KeyStep(r)
    PROVE  RowsInv'
<1>. USE FrameOf, LocalMoves
<1>1. CASE CheckKey(r) \/ RecheckKey(r)
    <2>1. OnlyMoves(r) /\ RowFrame /\ Early(proc[r])
        BY <1>1, CheckKeyTypes, RecheckKeyTypes DEF CheckKey, RecheckKey, At, Early
    <2>2. proc[r].pc \in KeySteps /\ proc[r].pc # "idle" /\ proc[r].key # None
        BY <1>1, HasKey DEF CheckKey, RecheckKey, At, KeySteps
    <2>3. proc'[r].pc \in {"InsertKey", "ValidateReplay", "refused", "ReleaseKey"}
        <3>1. CASE Answer(r, keys[Slot(r)])
            BY <2>2, <3>1, SlotTypes, AnswerMoves DEF TypeInv, Moves
        <3>2. CASE Go(r, "InsertKey")
            BY <3>2, GoMoves DEF TypeInv, Pcs, Steps, KeySteps, Goes, Moves
        <3>3. CASE Fail(r)
            BY <2>2, <3>3, FailMoves DEF Goes, Moves
        <3>. QED
            BY <1>1, <3>1, <3>2, <3>3 DEF CheckKey, RecheckKey
    <2>. QED
        BY <2>1, <2>3, RowsEarly
<1>2. CASE InsertKey(r)
    <2>1. OnlyMoves(r) /\ RowFrame /\ Early(proc[r])
        <3>1. LocalStep(r)
            BY <1>2, InsertKeyMoves
        <3>2. proc[r].pc = "InsertKey" /\ UNCHANGED <<sendVars, mailed, historyVars>>
            BY <1>2 DEF InsertKey, At
        <3>. QED
            BY <3>1, <3>2 DEF Early
    <2>2. proc'[r].pc \in {"Validate", "ReleaseKey", "RecheckKey"}
        BY <1>2, InsertKeyMoves DEF Goes, Moves
    <2>. QED
        BY <2>1, <2>2, RowsEarly
<1>3. CASE LinkDraft(r)
    <2>1. OnlyMoves(r) /\ RowFrame
        BY <1>3, LinkDraftMoves DEF LinkDraft
    <2>2. CASE Goes(r, Failing(r))
        BY <2>1, <2>2, FailRows
    <2>3. CASE Goes(r, "Complete")
        BY <2>1, <2>3, RowsLate DEF Goes, Moves, LateSteps
    <2>4. CASE Goes(r, "Load") /\ proc[r].kind # "workflow"
        <3>1. Early(proc[r])
            BY <1>3, <2>4 DEF LinkDraft, At, Early
        <3>. QED
            BY <2>1, <2>4, <3>1, RowsEarly DEF Goes, Moves
    <2>. QED
        BY <1>3, <2>2, <2>3, <2>4, LinkDraftMoves
<1>4. CASE LinkJob(r) \/ Complete(r) \/ CompleteReplay(r) \/ ReleaseKey(r)
    <2>1. OnlyMoves(r) /\ RowFrame
        BY <1>4, LinkJobMoves, CompleteMoves, CompleteReplayMoves, ReleaseKeyMoves
           DEF LinkJob, Complete, CompleteReplay, ReleaseKey
    <2>2. Goes(r, "Complete") \/ Goes(r, "accepted") \/ Goes(r, "refused") \/ Goes(r, Failing(r))
        BY <1>4, LinkJobMoves, CompleteMoves, CompleteReplayMoves, ReleaseKeyMoves
    <2>. QED
        BY <2>1, <2>2, FailRows, RowsLate DEF Goes, Moves, LateSteps
<1>. QED
    BY <1>1, <1>2, <1>3, <1>4 DEF KeyStep

LEMMA EnqueueRows ==
    ASSUME TypeInv, RowsInv, NEW r \in Requests, EnqueueStep(r)
    PROVE  RowsInv'
<1>. USE LocalMoves
<1>1. RowsOf(r)
    BY DEF RowsInv
<1>2. CASE Load(r)
    <2>1. OnlyMoves(r) /\ RowFrame /\ Early(proc[r])
        <3>1. LocalStep(r)
            BY <1>2, LoadActionMoves
        <3>2. proc[r].pc = "Load" /\ UNCHANGED <<sendVars, mailed, historyVars>>
            BY <1>2 DEF Load, At
        <3>. QED
            BY <3>1, <3>2, FrameOf DEF Early, Sending
    <2>2. proc'[r].pc \in {"Claim", "ReleaseKey", "refused"}
        BY <1>2, LoadActionMoves DEF Goes, Moves, Failing
    <2>. QED
        BY <2>1, <2>2, RowsEarly
<1>3. CASE Claim(r)
    <2>1. OnlyMoves(r) /\ RowFrame /\ Early(proc[r])
        BY <1>3, ClaimMoves DEF Claim, At, Early, Sending, RowFrame, historyVars
    <2>2. CASE Goes(r, Failing(r))
        BY <2>1, <2>2, FailRows
    <2>3. CASE Goes(r, IF proc[r].prior = None THEN "Thread" ELSE "Reserve")
        BY <2>1, <2>3, RowsEarly DEF Goes, Moves, KeepsThread
    <2>. QED
        BY <1>3, <2>2, <2>3, ClaimMoves
<1>4. CASE Thread(r)
    <2>1. OnlyMoves(r) /\ RowFrame /\ Early(proc[r])
        BY <1>4, ThreadActionMoves DEF Thread, At, Early, Sending, RowFrame, historyVars
    <2>. QED
        BY <1>4, <2>1, RowsEarly, ThreadActionMoves DEF Moves
<1>5. CASE AssignThread(r)
    <2>1. OnlyMoves(r) /\ RowFrame /\ Early(proc[r])
        BY <1>5, AssignThreadMoves DEF AssignThread, At, Early, Sending, RowFrame, historyVars
    <2>2. proc[r].created
        BY <1>1, <1>5 DEF AssignThread, At, RowsOf
    <2>. QED
        BY <1>5, <2>1, <2>2, RowsEarly, AssignThreadMoves DEF Goes, Moves, KeepsThread
<1>6. CASE Reserve(r)
    <2>1. OnlyMoves(r) /\ RowFrame /\ Early(proc[r])
        BY <1>6, ReserveActionMoves DEF Reserve, At, Early, Sending, RowFrame, historyVars
    <2>2. proc[r].created \/ proc[r].prior # None
        BY <1>1, <1>6 DEF Reserve, At, RowsOf
    <2>3. /\ proc'[r].pc \in {"Message", "UndoDraft"}
          /\ KeepsThread(r)
        BY <1>6, ReserveActionMoves DEF Goes, Moves
    <2>. QED
        BY <2>1, <2>2, <2>3, RowsEarly DEF KeepsThread
<1>7. CASE InsertMessage(r)
    <2>1. OnlyMoves(r) /\ Goes(r, "Job") /\ proc'[r].draft = proc[r].draft /\ proc'[r].pc = "Job"
        BY <1>7, InsertMessageMoves DEF Goes, Moves, KeepsDraft
    <2>2. /\ job' = job /\ queue' = queue /\ mailed' = mailed /\ failed' = failed
          /\ message' = [message EXCEPT ![r] = IF proc[r].created THEN r ELSE proc[r].prior]
        BY <1>7 DEF InsertMessage, historyVars
    <2>3. r # None /\ (proc[r].created \/ proc[r].prior # None)
        BY <1>1, <1>7, DraftSendAssumption DEF InsertMessage, At, RowsOf, Drafts
    <2>4. message'[r] # None /\ \A q \in Requests \ {r} : message'[q] = message[q]
        BY <2>2, <2>3 DEF TypeInv, TypeOK
    <2>5. job[r].status = "none" /\ ~Out(r)
        BY <1>1, <1>7 DEF InsertMessage, At, RowsOf, Early, Sending
    <2>6. RowsOf(r)'
        BY <2>1, <2>2, <2>4, <2>5 DEF RowsOf, Early, Out, UndoSteps
    <2>7. ASSUME NEW q \in Requests, q # r
          PROVE  RowsOf(q)'
        <3>1. proc'[q] = proc[q] /\ RowsOf(q)
            BY <2>1, <2>7 DEF RowsInv, OnlyMoves
        <3>. QED
            BY <2>2, <2>4, <2>7, <3>1 DEF RowsOf, Early, Out, Sure, Visible
    <2>8. OneJob'
        BY <2>2, <2>4, <2>5 DEF RowsInv, OneJob, Visible
    <2>. QED
        BY <2>6, <2>7, <2>8 DEF RowsInv
<1>8. CASE InsertJob(r)
    <2>1. OnlyMoves(r) /\ proc[r].pc = "Job" /\ Early(proc[r]) /\ proc[r].draft \in Drafts
        BY <1>8, InsertJobMoves DEF InsertJob, At, Early, Sending
    <2>2. CASE Goes(r, "UndoMessage") /\ job' = job
        <3>1. RowFrame
            BY <1>8, <2>2 DEF InsertJob, RowFrame, historyVars
        <3>. QED
            BY <2>1, <2>2, <3>1, RowsEarly DEF Goes, Moves
    <2>3. CASE /\ VisibleJobs(proc[r].draft) = {} /\ Goes(r, "Queue")
               /\ job' = [job EXCEPT ![r] = [status |-> "queued", draft |-> proc[r].draft]]
        <3>1. message' = message /\ queue' = queue /\ mailed' = mailed /\ failed' = failed
            BY <1>8 DEF InsertJob, historyVars
        <3>2. /\ job'[r].status = "queued" /\ job'[r].draft = proc[r].draft
              /\ \A q \in Requests \ {r} : job'[q] = job[q]
            BY <2>3 DEF TypeInv, TypeOK
        <3>3. message[r] # None /\ ~Out(r)
            BY <1>1, <2>1 DEF RowsOf
        <3>4. proc'[r].pc = "Queue" /\ proc'[r].draft = proc[r].draft
            BY <2>3 DEF Goes, Moves, KeepsDraft
        <3>5. RowsOf(r)'
            BY <3>1, <3>2, <3>3, <3>4 DEF RowsOf, Early, Out, Sending
        <3>6. ASSUME NEW q \in Requests, q # r
              PROVE  RowsOf(q)'
            <4>1. proc'[q] = proc[q] /\ RowsOf(q)
                BY <2>1, <3>6 DEF RowsInv, OnlyMoves
            <4>. QED
                BY <3>1, <3>2, <3>6, <4>1 DEF RowsOf, Early, Out, Sure, Visible
        <3>7. \A q \in Requests : Visible(q) => job[q].draft # proc[r].draft
            BY <2>3 DEF VisibleJobs, JobsOf, Visible
        <3>8. OneJob'
            BY <3>1, <3>2, <3>7 DEF RowsInv, OneJob, Visible
        <3>. QED
            BY <3>5, <3>6, <3>8 DEF RowsInv
    <2>. QED
        BY <1>8, <2>2, <2>3, InsertJobMoves
<1>9. CASE SendToQueue(r)
    <2>1. /\ OnlyMoves(r) /\ proc[r].pc = "Queue" /\ proc'[r].pc = AfterQueue(r)
          /\ proc'[r].draft = proc[r].draft /\ proc'[r].kind = proc[r].kind
        BY <1>9, SendToQueueMoves DEF SendToQueue, At, Moves, KeepsDraft
    <2>2. /\ job' = job /\ message' = message /\ mailed' = mailed /\ failed' = failed
          /\ queue' = queue \union {r}
        BY <1>9 DEF SendToQueue, historyVars
    <2>3. message[r] # None /\ job[r].status # "none" /\ job[r].draft = proc[r].draft
        BY <1>1, <2>1 DEF RowsOf
    <2>4. ~Early(proc'[r]) /\ proc'[r].pc \notin UndoSteps \union Sending
        BY <2>1 DEF AfterQueue, Early, Sending, UndoSteps
    <2>5. RowsOf(r)'
        BY <2>1, <2>2, <2>3, <2>4 DEF RowsOf, Visible, Sending
    <2>6. ASSUME NEW q \in Requests, q # r
          PROVE  RowsOf(q)'
        <3>1. proc'[q] = proc[q] /\ RowsOf(q)
            BY <2>1, <2>6 DEF RowsInv, OnlyMoves
        <3>. QED
            BY <2>2, <2>6, <3>1 DEF RowsOf, Early, Out, Sure, Visible
    <2>7. OneJob'
        BY <2>2 DEF RowsInv, OneJob, Visible
    <2>. QED
        BY <2>5, <2>6, <2>7 DEF RowsInv
<1>. QED
    BY <1>2, <1>3, <1>4, <1>5, <1>6, <1>7, <1>8, <1>9 DEF EnqueueStep

(* A rollback takes the rows of its own request away.                      *)
LEMMA UndoRows ==
    ASSUME TypeInv, RowsInv, NEW r \in Requests, Undo(r)
    PROVE  RowsInv'
<1>1. /\ proc[r].pc \in UndoSteps /\ OnlyMoves(r)
      /\ proc'[r].pc \in UndoSteps \union {"ReleaseKey", "refused"}
      /\ proc'[r].draft = proc[r].draft
    BY UndoMoves, LocalMoves DEF Goes, Moves, KeepsDraft
<1>2. queue' = queue /\ mailed' = mailed /\ failed' = failed
    BY DEF Undo, historyVars
<1>3. /\ \A q \in Requests \ {r} : job'[q] = job[q] /\ message'[q] = message[q]
      /\ ~Visible(r) => ~Visible(r)'
      /\ Visible(r)' => job'[r] = job[r]
    BY DEF Undo, UndoJob, UndoMessage, UndoDraft, UndoThread, UndoCredits, TypeInv, TypeOK, Visible
<1>4. /\ ~Early(proc'[r])
      /\ proc'[r].pc \notin {"Reserve", "Message", "AssignThread", "Job", "Queue"}
    BY <1>1 DEF Early, Sending, UndoSteps
<1>5. Sure => ~Out(r)
    BY <1>1 DEF RowsInv, RowsOf
<1>6. RowsOf(r)'
    BY <1>2, <1>4, <1>5 DEF RowsOf, Sure, Out
<1>7. ASSUME NEW q \in Requests, q # r
      PROVE  RowsOf(q)'
    <2>1. proc'[q] = proc[q] /\ RowsOf(q)
        BY <1>1, <1>7 DEF RowsInv, OnlyMoves
    <2>. QED
        BY <1>2, <1>3, <1>7, <2>1 DEF RowsOf, Early, Out, Sure, Visible
<1>8. ASSUME NEW q \in Requests, Visible(q)'
      PROVE  Visible(q) /\ job'[q] = job[q]
    BY <1>3, <1>8 DEF Visible
<1>9. OneJob'
    BY <1>8 DEF RowsInv, OneJob
<1>. QED
    BY <1>6, <1>7, <1>9 DEF RowsInv

LEMMA ReplayRows ==
    ASSUME TypeInv, RowsInv, NEW r \in Requests, ReplayStep(r)
    PROVE  RowsInv'
<1>. USE LocalMoves, FrameOf
<1>1. CASE ValidateReplay(r)
    <2>1. OnlyMoves(r) /\ RowFrame /\ Early(proc[r])
        BY <1>1, ValidateReplayMoves DEF ValidateReplay, At, Early
    <2>2. proc'[r].pc \in {"accepted", "refused", "ReleaseKey", "FindDraft", "FindJob"}
        BY <1>1, ValidateReplayMoves DEF Goes, Moves
    <2>. QED
        BY <2>1, <2>2, RowsEarly
<1>2. CASE FindDraft(r)
    <2>1. OnlyMoves(r) /\ RowFrame /\ Early(proc[r])
        <3>1. LocalStep(r)
            BY <1>2, FindDraftMoves
        <3>2. proc[r].pc = "FindDraft" /\ UNCHANGED <<sendVars, mailed, historyVars>>
            BY <1>2 DEF FindDraft, At
        <3>. QED
            BY <3>1, <3>2 DEF Early
    <2>2. proc'[r].pc \in {"FindJob", "Load", "ReleaseKey", "refused"}
        BY <1>2, FindDraftMoves DEF Goes, Moves, Failing
    <2>. QED
        BY <2>1, <2>2, RowsEarly
<1>3. CASE FindJob(r)
    <2>1. OnlyMoves(r) /\ RowFrame /\ Early(proc[r])
        <3>1. LocalStep(r)
            BY <1>3, FindJobMoves
        <3>2. proc[r].pc = "FindJob" /\ UNCHANGED <<sendVars, mailed, historyVars>>
            BY <1>3 DEF FindJob, At
        <3>. QED
            BY <3>1, <3>2 DEF Early
    <2>2. proc'[r].pc \in {"FindMessage", "FindDraft", "Load", "ReleaseKey", "refused"}
        BY <1>3, FindJobMoves DEF Goes, Moves, Failing
    <2>. QED
        BY <2>1, <2>2, RowsEarly
<1>4. CASE FindMessage(r) \/ Reread(r)
    <2>1. OnlyMoves(r) /\ RowFrame
        BY <1>4, FindMessageMoves, RereadMoves DEF FindMessage, Reread
    <2>2. Goes(r, "CompleteReplay") \/ Goes(r, Failing(r))
        BY <1>4, FindMessageMoves, RereadMoves
    <2>. QED
        BY <2>1, <2>2, FailRows, RowsLate DEF Goes, Moves, LateSteps
<1>. QED
    BY <1>1, <1>2, <1>3, <1>4 DEF ReplayStep

LEMMA OtherRows ==
    ASSUME TypeInv, RowsInv, NEW r \in Requests,
           Arrive(r) \/ CancelDraft(r) \/ Validate(r) \/ Create(r)
    PROVE  RowsInv'
<1>. USE LocalMoves, FrameOf
<1>1. CASE Arrive(r)
    <2>1. /\ OnlyMoves(r) /\ RowFrame /\ Early(proc[r])
          /\ proc'[r].pc \in {"CheckKey", "Validate", "CancelDraft", "refused", "cancelled"}
        <3>1. LocalStep(r) /\ proc[r].pc = "idle" /\ Arrived(r)
            BY <1>1, ArriveTypes, ArriveMoves DEF TypeInv
        <3>2. UNCHANGED <<sendVars, mailed, historyVars>>
            BY <1>1 DEF Arrive
        <3>. QED
            BY <3>1, <3>2 DEF Early, Arrived
    <2>. QED
        BY <2>1, RowsEarly
<1>2. CASE CancelDraft(r)
    <2>1. OnlyMoves(r) /\ RowFrame /\ Goes(r, "cancelled")
        BY <1>2, CancelDraftMoves DEF CancelDraft, RowFrame, historyVars
    <2>. QED
        BY <2>1, RowsLate DEF Goes, Moves, LateSteps
<1>3. CASE Validate(r)
    <2>1. OnlyMoves(r) /\ RowFrame /\ Early(proc[r])
        BY <1>3, ValidateMoves DEF Validate, At, Early
    <2>2. proc'[r].pc \in {"Load", "Create", "ReleaseKey", "refused"}
        BY <1>3, ValidateMoves DEF Goes, Moves, Failing
    <2>. QED
        BY <2>1, <2>2, RowsEarly
<1>4. CASE Create(r)
    <2>1. OnlyMoves(r) /\ RowFrame /\ Early(proc[r])
        BY <1>4, CreateMoves DEF Create, At, Early, RowFrame, historyVars
    <2>2. proc'[r].pc \in {"Load", "LinkDraft"}
        BY <1>4, CreateMoves DEF Moves
    <2>. QED
        BY <2>1, <2>2, RowsEarly
<1>. QED
    BY <1>1, <1>2, <1>3, <1>4

LEMMA SufferFrame ==
    ASSUME NEW k, Suffer(k), UNCHANGED <<message, job, queue>>
    PROVE  RowFrame
BY DEF Suffer, RowFrame

LEMMA FailureRows ==
    ASSUME TypeInv, RowsInv, NEW r \in Requests, Failure(r)
    PROVE  RowsInv'
<1>. USE LocalMoves
<1>1. CASE Crash(r)
    <2>1. OnlyMoves(r) /\ RowFrame /\ Goes(r, "dead")
        BY <1>1, CrashMoves, SufferFrame DEF Crash, sendVars
    <2>. QED
        BY <2>1, RowsLate DEF Goes, Moves, LateSteps
<1>2. CASE Throw(r)
    <2>1. OnlyMoves(r) /\ RowFrame
        BY <1>2, ThrowMoves, SufferFrame DEF Throw, sendVars
    <2>2. CASE proc[r].pc \in {"Thread", "AssignThread", "Reserve", "Message", "Job"}
        <3>1. Early(proc[r])
            BY <2>2 DEF Early, Sending
        <3>2. proc'[r].pc \in {"UndoJob", "UndoMessage", "UndoDraft", "ReleaseKey", "refused"}
            BY <1>2, <2>2, ThrowMoves DEF Goes, Moves, Failing
        <3>. QED
            BY <2>1, <3>1, <3>2, RowsEarly
    <2>3. CASE proc[r].pc \notin {"Thread", "AssignThread", "Reserve", "Message", "Job"}
        <3>1. Goes(r, "accepted") \/ Goes(r, "refused") \/ Goes(r, Failing(r))
            BY <1>2, <2>3, ThrowMoves
        <3>. QED
            BY <2>1, <3>1, FailRows, RowsLate DEF Goes, Moves, LateSteps
    <2>. QED
        BY <2>2, <2>3
<1>3. CASE QueueFails(r)
    <2>1. /\ OnlyMoves(r) /\ RowFrame /\ proc[r].pc = "Queue" /\ KeepsDraft(r)
          /\ proc'[r].pc \in {"UndoJob", "UndoMessage", "UndoDraft"}
        BY <1>3, QueueFailsMoves, SufferFrame DEF QueueFails, sendVars, Goes, Moves
    <2>. QED
        BY <2>1, RowsUndo DEF UndoSteps
<1>4. CASE QueueFailsLate(r)
    <2>1. /\ OnlyMoves(r) /\ proc[r].pc = "Queue"
          /\ proc'[r].pc \in {"UndoJob", "UndoMessage", "UndoDraft"}
        BY <1>4, QueueFailsMoves DEF Goes, Moves
    <2>2. /\ message' = message /\ job' = job /\ queue' = queue \union {r} /\ mailed' = mailed
          /\ "ambiguous" \in failed'
        BY <1>4 DEF QueueFailsLate, Suffer
    <2>3. RowsOf(r)'
        BY <2>1, <2>2 DEF RowsOf, Early, Sending, Sure
    <2>4. ASSUME NEW q \in Requests, q # r
          PROVE  RowsOf(q)'
        <3>1. proc'[q] = proc[q] /\ RowsOf(q)
            BY <2>1, <2>4 DEF RowsInv, OnlyMoves
        <3>. QED
            BY <2>2, <2>4, <3>1 DEF RowsOf, Early, Out, Sure
    <2>5. OneJob'
        BY <2>2 DEF RowsInv, OneJob, Visible
    <2>. QED
        BY <2>3, <2>4, <2>5 DEF RowsInv
<1>5. CASE UndoFails(r)
    <2>1. /\ OnlyMoves(r) /\ RowFrame /\ proc[r].pc \in UndoSteps /\ KeepsDraft(r)
          /\ proc'[r].pc \in UndoSteps \union {"ReleaseKey", "refused"}
        BY <1>5, UndoFailsMoves, SufferFrame DEF UndoFails, sendVars, Goes, Moves
    <2>. QED
        BY <2>1, RowsUndo, RowsLate DEF LateSteps
<1>. QED
    BY <1>1, <1>2, <1>3, <1>4, <1>5 DEF Failure

(* The consumer keeps the draft of a job, and mails only what was queued.  *)
LEMMA ConsumeRows ==
    ASSUME TypeInv, RowsInv, NEW j \in Requests, Consume(j)
    PROVE  RowsInv'
<1>1. /\ message' = message /\ failed' = failed /\ proc' = proc
      /\ \A q \in Requests : job'[q].draft = job[q].draft
      /\ \A q \in Requests : job'[q].status = "none" <=> job[q].status = "none"
    <2>1. message' = message /\ failed' = failed /\ proc' = proc
        BY DEF Consume, historyVars
    <2>2. CASE job' = job
        BY <2>1, <2>2
    <2>3. ASSUME NEW v \in {"sent", "failed"}, job[j].status = "queued",
                 job' = [job EXCEPT ![j].status = v]
          PROVE  /\ \A q \in Requests : job'[q].draft = job[q].draft
                 /\ \A q \in Requests : job'[q].status = "none" <=> job[q].status = "none"
        BY <2>3 DEF TypeInv, TypeOK
    <2>. QED
        BY <2>1, <2>2, <2>3 DEF Consume, Consumed
<1>2. \A q \in Requests : Out(q)' => Out(q)
    BY DEF Consume, Consumed, Out
<1>3. ASSUME NEW q \in Requests
      PROVE  RowsOf(q)'
    <2>1. RowsOf(q)
        BY DEF RowsInv
    <2>. QED
        BY <1>1, <1>2, <2>1 DEF RowsOf, Early, Sure, Visible
<1>4. OneJob'
    BY <1>1 DEF RowsInv, OneJob, Visible
<1>. QED
    BY <1>3, <1>4 DEF RowsInv

LEMMA RowsStep ==
    ASSUME TypeInv, RowsInv, [Next]_vars
    PROVE  RowsInv'
<1>1. ASSUME NEW r \in Requests, Arrive(r) \/ RequestStep(r) \/ Failure(r)
      PROVE  RowsInv'
    BY <1>1, OtherRows, KeyRows, EnqueueRows, UndoRows, ReplayRows, FailureRows DEF RequestStep
<1>2. ASSUME NEW j \in Requests, Consume(j)
      PROVE  RowsInv'
    BY <1>2, ConsumeRows
<1>3. ASSUME NEW s \in Slots, Prune(s)
      PROVE  RowsInv'
    BY <1>3 DEF Prune, sendVars, RowsInv, RowsOf, OneJob, Early, Sure, Out, Visible
<1>4. ASSUME UNCHANGED vars
      PROVE  RowsInv'
    BY <1>4 DEF vars, sendVars, historyVars, RowsInv, RowsOf, OneJob, Early, Sure, Out, Visible
<1>. QED
    BY <1>1, <1>2, <1>3, <1>4 DEF Next

-----------------------------------------------------------------------------
(* The keys.                                                               *)

KeyFrame == keys' = keys /\ lapsed' = lapsed /\ failed \subseteq failed'
OutStays(r) == \A q \in Requests \ {r} : Out(q)' <=> Out(q)

LEMMA OthersKeep ==
    ASSUME RequestsInv, NEW q \in Requests, proc'[q] = proc[q], lapsed' = lapsed,
           Out(q)' <=> Out(q), Keyed(q) => keys'[Slot(q)] = keys[Slot(q)]
    PROVE  RequestInv(q)'
<1>1. RequestInv(q)
    BY DEF RequestsInv
<1>2. Slot(q)' = Slot(q) /\ Fingerprint(q)' = Fingerprint(q)
    BY DEF Slot, Operation, Fingerprint
<1>3. Keyed(q)' <=> Keyed(q)
    BY <1>2 DEF Keyed
<1>4. (Owner(q)' <=> Owner(q)) /\ (Replayer(q)' <=> Replayer(q))
    BY DEF Owner, Replayer
<1>5. Progress(proc[q])' /\ Unsent(q)' /\ OwnDraft(q)'
    BY <1>1, <1>4 DEF RequestInv, Progress, Uncommitted, Client, Unsent, OwnDraft
<1>6. Owned(q)' /\ Replayed(q)'
    BY <1>1, <1>2, <1>3, <1>4 DEF RequestInv, Owned, FitsOwner, Replayed, FitsReplayer, KeyOf
<1>. QED
    BY <1>5, <1>6 DEF RequestInv

(* A request moves on with the key it had, and is its owner only if it was.*)
LEMMA KeysKept ==
    ASSUME KeyInv, NEW r \in Requests, OnlyMoves(r), KeyFrame, OutStays(r),
           Sure' => RequestInv(r)',
           Keyed(r)' /\ Owner(r)' => Keyed(r) /\ Owner(r) /\ Slot(r)' = Slot(r)
    PROVE  KeyInv'
<1>. SUFFICES ASSUME Sure' PROVE RequestsInv' /\ OneOwner' /\ SlotsInv'
    BY DEF KeyInv
<1>1. Sure
    BY DEF Sure, KeyFrame
<1>2. RequestsInv /\ OneOwner /\ SlotsInv
    BY <1>1 DEF KeyInv
<1>3. RequestsInv'
    <2>1. ASSUME NEW q \in Requests, q # r PROVE RequestInv(q)'
        BY <1>2, <2>1, OthersKeep DEF OnlyMoves, KeyFrame, OutStays
    <2>. QED
        BY <2>1 DEF RequestsInv
<1>4. ASSUME NEW q \in Requests, Keyed(q)', Owner(q)'
      PROVE  Keyed(q) /\ Owner(q) /\ Slot(q)' = Slot(q)
    <2>1. CASE q = r
        BY <1>4, <2>1
    <2>2. CASE q # r
        <3>1. proc'[q] = proc[q] /\ (Out(q)' <=> Out(q))
            BY <2>2 DEF OnlyMoves, OutStays
        <3>2. Slot(q)' = Slot(q)
            BY <3>1 DEF Slot, Operation
        <3>. QED
            BY <1>4, <3>1, <3>2 DEF Keyed, Owner, KeyFrame
    <2>. QED
        BY <2>1, <2>2
<1>5. OneOwner'
    BY <1>2, <1>4 DEF OneOwner
<1>6. SlotsInv'
    BY <1>2 DEF SlotsInv, NamesDraft, KeyFrame
<1>. QED
    BY <1>3, <1>5, <1>6

(* What a step that keeps kind and key keeps.                              *)
LEMMA SameSlot ==
    ASSUME NEW r \in Requests, NEW s, Moves(r, s)
    PROVE  /\ Slot(r)' = Slot(r) /\ (Client(proc[r])' <=> Client(proc[r]))
           /\ proc[r].kind # "send" \/ KeepsDraft(r) => Fingerprint(r)' = Fingerprint(r)
           /\ lapsed' = lapsed => (Keyed(r)' <=> Keyed(r))
BY DEF Moves, Slot, Operation, Client, Fingerprint, KeepsDraft, Keyed

(* The console and cancellations have nothing to do with a client's key.   *)
LEMMA ForeignKeys ==
    ASSUME KeyInv, NEW r \in Requests, NEW s, OnlyMoves(r), Moves(r, s), ~Client(proc[r]),
           KeyFrame, OutStays(r)
    PROVE  KeyInv'
<1>1. ~Client(proc[r])' /\ proc'[r].kind \notin ReplaysDraft
    BY DEF Moves, Client, ReplaysDraft
<1>2. RequestInv(r)'
    BY <1>1 DEF RequestInv, Progress, Unsent, OwnDraft, Owned, FitsOwner, Replayed, FitsReplayer, Keyed
<1>3. ~Keyed(r)'
    BY <1>1 DEF Keyed
<1>. QED
    BY <1>2, <1>3, KeysKept

(* It is enough to look at clients, while the queue is sure.               *)
LEMMA ClientKeys ==
    ASSUME KeyInv, NEW r \in Requests, NEW s, OnlyMoves(r), Moves(r, s), KeyFrame, OutStays(r),
           Client(proc[r]) /\ Sure /\ RequestInv(r) =>
             RequestInv(r)' /\ (Owner(r)' => Owner(r))
    PROVE  KeyInv'
<1>1. CASE ~Client(proc[r])
    BY <1>1, ForeignKeys
<1>2. CASE ~Sure'
    BY <1>2 DEF KeyInv
<1>3. CASE Client(proc[r]) /\ Sure'
    <2>1. Sure
        BY <1>3 DEF Sure, KeyFrame
    <2>2. RequestInv(r)' /\ (Owner(r)' => Owner(r))
        BY <1>3, <2>1 DEF KeyInv, RequestsInv
    <2>3. Slot(r)' = Slot(r) /\ (Keyed(r)' <=> Keyed(r))
        BY SameSlot DEF KeyFrame
    <2>. QED
        BY <2>2, <2>3, KeysKept
<1>. QED
    BY <1>1, <1>2, <1>3

(* A request that is done keeps what it has in the queue.                  *)
Ends == {"dead", "refused", "accepted", "cancelled"}
Stands(r) == Out(r)' <=> Out(r)

LEMMA StopKeys ==
    ASSUME KeyInv, NEW r \in Requests, NEW s \in Ends, OnlyMoves(r), Goes(r, s),
           KeyFrame, OutStays(r), Stands(r),
           proc[r].pc \in {"ValidateReplay", "FindDraft"} => ~Out(r)
    PROVE  KeyInv'
<1>1. ASSUME Client(proc[r]), Sure, RequestInv(r)
      PROVE  RequestInv(r)' /\ (Owner(r)' => Owner(r))
    <2>1. /\ Slot(r)' = Slot(r) /\ Fingerprint(r)' = Fingerprint(r)
          /\ (Keyed(r)' <=> Keyed(r)) /\ KeyOf(r)' = KeyOf(r)
        BY SameSlot DEF Goes, KeyFrame, KeyOf
    <2>2. /\ proc'[r].pc = s /\ proc'[r].kind = proc[r].kind /\ proc'[r].draft = proc[r].draft
          /\ proc'[r].releases = proc[r].releases /\ proc'[r].replay = proc[r].replay
        BY DEF Goes, Moves, KeepsRelease, KeepsReplay, KeepsDraft
    <2>3. Owner(r)' => Owner(r)
        BY <2>2 DEF Owner, OwnSteps, Sending, UndoSteps, Stands, Ends
    <2>4. Replayer(r)' => Replayer(r) /\ proc[r].pc \notin {"ValidateReplay", "FindDraft"}
        BY <2>2 DEF Replayer, Informed, Sending, UndoSteps, Stands, Ends
    <2>5. Progress(proc[r])'
        BY <1>1, <2>2 DEF RequestInv, Progress, Client, Unowned, OwnSteps, Ends, Steps, EnqueueSteps,
           UndoSteps, KeySteps, ReplaySteps
    <2>6. Unsent(r)' /\ OwnDraft(r)'
        BY <1>1, <2>2, <2>3 DEF RequestInv, Unsent, OwnDraft, Stands, Client, Unowned, Ends
    <2>7. Owned(r)' /\ Replayed(r)'
        BY <1>1, <2>1, <2>2, <2>3, <2>4 DEF RequestInv, Owned, FitsOwner, Replayed, FitsReplayer, Ends
    <2>. QED
        BY <2>3, <2>5, <2>6, <2>7 DEF RequestInv
<1>. QED
    BY <1>1, ClientKeys DEF Goes

(* The steps of a send, forward or back.                                   *)
LEMMA SendKeys ==
    ASSUME KeyInv, NEW r \in Requests, NEW s \in Sending \union UndoSteps, OnlyMoves(r),
           proc[r].pc \in Sending \union UndoSteps, Moves(r, s), KeepsRelease(r),
           KeepsReplay(r), KeepsDraft(r), KeyFrame, OutStays(r), Stands(r)
    PROVE  KeyInv'
<1>1. ASSUME Client(proc[r]), Sure, RequestInv(r)
      PROVE  RequestInv(r)' /\ (Owner(r)' => Owner(r))
    <2>1. /\ Slot(r)' = Slot(r) /\ Fingerprint(r)' = Fingerprint(r)
          /\ (Keyed(r)' <=> Keyed(r)) /\ KeyOf(r)' = KeyOf(r)
        BY SameSlot DEF KeyFrame, KeyOf
    <2>2. /\ proc'[r].pc = s /\ proc'[r].kind = proc[r].kind /\ proc'[r].draft = proc[r].draft
          /\ proc'[r].releases = proc[r].releases /\ proc'[r].replay = proc[r].replay
        BY DEF Moves, KeepsRelease, KeepsReplay, KeepsDraft
    <2>3. /\ s \notin Informed \union {"Reread", "CompleteReplay", "Create", "LinkDraft", "FindDraft"}
          /\ s \notin Unowned \union OwnSteps /\ s \notin {"LinkJob", "ReleaseKey"}
          /\ proc[r].pc \in Steps
          /\ proc[r].pc \notin {"ValidateReplay", "FindDraft", "Validate", "ReleaseKey", "Create"}
        BY DEF Informed, Sending, UndoSteps, Unowned, OwnSteps, Steps, EnqueueSteps
    <2>4. Owner(r)' => Owner(r)
        BY <2>2 DEF Owner
    <2>5. Replayer(r)' => Replayer(r)
        BY <2>2, <2>3 DEF Replayer
    <2>6. Progress(proc[r])'
        <3>1. /\ proc[r].replay => proc[r].kind # "send"
              /\ proc[r].releases => Uncommitted(proc[r])
            BY <1>1, <2>3 DEF RequestInv, Progress
        <3>2. proc[r].releases => ~proc[r].replay /\ proc[r].kind = "send"
            BY <2>3, <3>1 DEF Uncommitted
        <3>. QED
            BY <2>2, <2>3, <3>1, <3>2 DEF Progress, Uncommitted
    <2>7. Unsent(r)' /\ OwnDraft(r)'
        BY <1>1, <2>2, <2>3, <2>4 DEF RequestInv, Unsent, OwnDraft, Stands, Client
    <2>8. Owned(r)' /\ Replayed(r)'
        BY <1>1, <2>1, <2>2, <2>3, <2>4, <2>5 DEF RequestInv, Owned,
           FitsOwner, Replayed, FitsReplayer, Informed
    <2>. QED
        BY <2>4, <2>6, <2>7, <2>8 DEF RequestInv
<1>. QED
    BY <1>1, ClientKeys

(* A request that throws gives its key back only while nothing is sent.    *)
LEMMA FailKeys ==
    ASSUME KeyInv, NEW r \in Requests, OnlyMoves(r), Goes(r, Failing(r)), proc[r].pc \in Steps,
           KeyFrame, OutStays(r), Stands(r),
           proc[r].pc \in {"ValidateReplay", "FindDraft"} => ~Out(r)
    PROVE  KeyInv'
<1>1. CASE ~proc[r].releases
    BY <1>1, StopKeys DEF Failing, Ends
<1>2. ASSUME proc[r].releases, Client(proc[r]), Sure, RequestInv(r)
      PROVE  RequestInv(r)' /\ (Owner(r)' => Owner(r))
    <2>1. /\ Slot(r)' = Slot(r) /\ Fingerprint(r)' = Fingerprint(r)
          /\ (Keyed(r)' <=> Keyed(r)) /\ KeyOf(r)' = KeyOf(r)
        BY SameSlot DEF Goes, KeyFrame, KeyOf
    <2>2. /\ proc'[r].pc = "ReleaseKey" /\ proc'[r].kind = proc[r].kind
          /\ proc'[r].draft = proc[r].draft
          /\ proc'[r].releases = proc[r].releases /\ proc'[r].replay = proc[r].replay
        BY <1>2 DEF Goes, Moves, KeepsRelease, KeepsReplay, KeepsDraft, Failing
    <2>3. Uncommitted(proc[r])
        BY <1>2 DEF RequestInv, Progress
    <2>4. Owner(r) /\ ~proc[r].replay
        BY <2>3 DEF Uncommitted, Owner, OwnSteps
    <2>5. ~Replayer(r)'
        BY <2>2, <2>4 DEF Replayer, Informed
    <2>6. Progress(proc[r])'
        BY <1>2, <2>2, <2>4 DEF Progress, Uncommitted
    <2>7. Unsent(r)' /\ OwnDraft(r)'
        BY <1>2, <2>2, <2>4 DEF RequestInv, Unsent, OwnDraft, Stands, Client
    <2>8. Owned(r)' /\ Replayed(r)'
        BY <1>2, <2>1, <2>2, <2>4, <2>5 DEF RequestInv, Owned, FitsOwner, Replayed, FitsReplayer
    <2>. QED
        BY <2>4, <2>6, <2>7, <2>8 DEF RequestInv
<1>. QED
    BY <1>1, <1>2, ClientKeys DEF Goes

(* An undo, or the failure of one.                                         *)
LEMMA BackKeys ==
    ASSUME KeyInv, NEW r \in Requests, OnlyMoves(r), proc[r].pc \in Sending \union UndoSteps,
           NEW s \in UndoSteps \union {"ReleaseKey", "refused"}, Goes(r, s),
           s = "ReleaseKey" => proc[r].releases, KeyFrame, OutStays(r), Stands(r)
    PROVE  KeyInv'
<1>1. CASE s \in UndoSteps
    BY <1>1, SendKeys DEF Goes
<1>2. CASE s = "refused"
    BY <1>2, StopKeys DEF Ends, Sending, UndoSteps
<1>3. CASE s = "ReleaseKey"
    BY <1>3, FailKeys DEF Failing, Steps, EnqueueSteps, Sending, UndoSteps
<1>. QED
    BY <1>1, <1>2, <1>3

LEMMA EarlyOut ==
    ASSUME RowsInv, NEW r \in Requests, Early(proc[r])
    PROVE  ~Out(r)
BY DEF RowsInv, RowsOf

LEMMA QuietFrame ==
    ASSUME UNCHANGED <<keys, queue, mailed, lapsed>>, failed \subseteq failed', NEW r \in Requests
    PROVE  KeyFrame /\ OutStays(r) /\ Stands(r)
BY DEF KeyFrame, OutStays, Stands, Out

LEMMA QuietIs ==
    ASSUME Quiet
    PROVE  UNCHANGED <<keys, queue, mailed, lapsed>> /\ failed \subseteq failed'
BY DEF Quiet, sendVars, historyVars

(* A step before the send or at its end, which keeps the request's roles.  *)
LEMMA EnqueueKeys ==
    ASSUME TypeInv, RowsInv, KeyInv, NEW r \in Requests, EnqueueStep(r), ~SendToQueue(r)
    PROVE  KeyInv'
<1>. DEFINE steps == {"Load", "Claim", "Thread", "AssignThread", "Reserve", "Message", "Job"}
<1>1. LocalStep(r)
    BY RequestTypes DEF RequestStep
<1>2. proc[r].pc \in steps
    BY DEF EnqueueStep, Load, Claim, Thread, AssignThread, Reserve, InsertMessage, InsertJob, At
<1>3. UNCHANGED <<keys, queue, mailed, lapsed>> /\ failed \subseteq failed'
    <2>1. CASE Load(r)
        BY <2>1, QuietIs DEF Load, Quiet
    <2>. QED
        BY <2>1 DEF EnqueueStep, Claim, Thread, AssignThread, Reserve, InsertMessage, InsertJob,
           historyVars
<1>4. KeyFrame /\ OutStays(r) /\ Stands(r) /\ OnlyMoves(r)
    BY <1>1, <1>3, QuietFrame, LocalMoves
<1>5. \/ Goes(r, Failing(r))
      \/ \E s \in Sending \union UndoSteps :
           Moves(r, s) /\ KeepsRelease(r) /\ KeepsReplay(r) /\ KeepsDraft(r)
    <2>1. CASE Load(r) \/ Claim(r)
        BY <2>1, LoadActionMoves, ClaimMoves DEF Goes, Sending
    <2>2. CASE Thread(r) \/ AssignThread(r) \/ Reserve(r)
        BY <2>2, ThreadActionMoves, AssignThreadMoves, ReserveActionMoves
           DEF Goes, Sending, UndoSteps
    <2>3. CASE InsertMessage(r) \/ InsertJob(r)
        BY <2>3, InsertMessageMoves, InsertJobMoves DEF Goes, Sending, UndoSteps
    <2>. QED
        BY <2>1, <2>2, <2>3 DEF EnqueueStep
<1>6. /\ proc[r].pc \in Sending /\ proc[r].pc \in Steps
      /\ proc[r].pc \notin {"ValidateReplay", "FindDraft"}
    BY <1>2 DEF Sending, Steps, EnqueueSteps
<1>. QED
    BY <1>4, <1>5, <1>6, FailKeys, SendKeys

(* What is in the queue does not change who owns a key; a send no longer   *)
(* releases it.                                                            *)
LEMMA SendToQueueKeys ==
    ASSUME TypeInv, RowsInv, KeyInv, NEW r \in Requests, SendToQueue(r)
    PROVE  KeyInv'
<1>1. /\ Moves(r, AfterQueue(r)) /\ KeepsReplay(r) /\ KeepsDraft(r) /\ OnlyMoves(r)
      /\ proc'[r].releases = (proc[r].releases /\ proc[r].kind # "send")
      /\ proc[r].pc = "Queue"
    BY SendToQueueMoves, LocalMoves DEF SendToQueue, At
<1>2. KeyFrame /\ OutStays(r)
    BY DEF SendToQueue, historyVars, KeyFrame, OutStays, Out
<1>3. ASSUME Client(proc[r]), Sure, RequestInv(r)
      PROVE  RequestInv(r)' /\ (Owner(r)' => Owner(r))
    <2>1. /\ Slot(r)' = Slot(r) /\ Fingerprint(r)' = Fingerprint(r)
          /\ (Keyed(r)' <=> Keyed(r)) /\ KeyOf(r)' = KeyOf(r)
        BY <1>1, <1>2, SameSlot DEF KeyFrame, KeyOf
    <2>2. /\ proc'[r].pc = AfterQueue(r) /\ proc'[r].kind = proc[r].kind
          /\ proc'[r].draft = proc[r].draft /\ proc'[r].replay = proc[r].replay
          /\ proc'[r].key = proc[r].key
        BY <1>1 DEF Moves, KeepsReplay, KeepsDraft
    <2>3. /\ proc[r].replay => proc[r].kind # "send"
          /\ proc[r].releases => Uncommitted(proc[r])
        BY <1>1, <1>3 DEF RequestInv, Progress, Steps, EnqueueSteps
    <2>4. ~proc'[r].releases
        BY <1>1, <2>3 DEF Uncommitted
    <2>5. IF proc[r].replay THEN AfterQueue(r) = "Reread"
          ELSE AfterQueue(r) \in {"accepted", "Complete", "LinkDraft", "LinkJob"}
        BY DEF AfterQueue
    <2>6. /\ AfterQueue(r) = "LinkJob" => proc[r].kind = "send"
          /\ AfterQueue(r) = "LinkDraft" => proc[r].kind = "workflow"
        BY <1>3 DEF AfterQueue, Client
    <2>7. (Owner(r) <=> ~proc[r].replay) /\ (Replayer(r) <=> proc[r].replay)
        BY <1>1 DEF Owner, Replayer, Sending, Informed
    <2>8. Owner(r)' => Owner(r)
        BY <2>2, <2>7 DEF Owner
    <2>9. Replayer(r)' => Replayer(r)
        BY <2>2, <2>5, <2>7 DEF Replayer, Informed
    <2>10. Progress(proc[r])'
        BY <2>2, <2>3, <2>4, <2>5, <2>6 DEF Progress, Unowned, OwnSteps
    <2>11. Unsent(r)' /\ OwnDraft(r)'
        BY <1>3, <2>2, <2>4, <2>5, <2>8 DEF RequestInv, Unsent, OwnDraft, Unowned
    <2>12. Owned(r)'
        BY <1>3, <2>1, <2>2, <2>4, <2>8 DEF RequestInv, Owned, FitsOwner
    <2>13. Replayed(r)'
        BY <1>1, <1>3, <2>1, <2>2, <2>5, <2>9 DEF RequestInv, Replayed, FitsReplayer
    <2>. QED
        BY <2>8, <2>10, <2>11, <2>12, <2>13 DEF RequestInv
<1>. QED
    BY <1>1, <1>2, <1>3, ClientKeys

LEMMA FailureKeys ==
    ASSUME TypeInv, RowsInv, KeyInv, NEW r \in Requests, Failure(r)
    PROVE  KeyInv'
<1>1. CASE QueueFailsLate(r)
    BY <1>1 DEF QueueFailsLate, Suffer, KeyInv, Sure
<1>2. CASE Crash(r) \/ Throw(r) \/ QueueFails(r) \/ UndoFails(r)
    <2>1. LocalStep(r)
        BY <1>2, CrashMoves, ThrowMoves, QueueFailsMoves, UndoFailsMoves
    <2>2. UNCHANGED <<keys, queue, mailed, lapsed>> /\ failed \subseteq failed'
        BY <1>2 DEF Crash, Throw, QueueFails, UndoFails, Suffer, sendVars
    <2>3. KeyFrame /\ OutStays(r) /\ Stands(r) /\ OnlyMoves(r)
        BY <2>1, <2>2, QuietFrame, LocalMoves
    <2>4. proc[r].pc \in {"ValidateReplay", "FindDraft"} => ~Out(r)
        BY EarlyOut DEF Early
    <2>5. CASE Crash(r)
        BY <2>3, <2>4, <2>5, CrashMoves, StopKeys DEF Ends
    <2>6. CASE QueueFails(r) \/ UndoFails(r)
        <3>1. proc[r].pc \in Sending \union UndoSteps
            BY <2>6, QueueFailsMoves, UndoFailsMoves DEF Sending
        <3>2. \E s \in UndoSteps \union {"ReleaseKey", "refused"} :
                Goes(r, s) /\ (s = "ReleaseKey" <=> proc[r].releases /\ s \notin UndoSteps)
            BY <2>6, QueueFailsMoves, UndoFailsMoves DEF UndoSteps
        <3>. QED
            BY <2>3, <3>1, <3>2, BackKeys
    <2>7. CASE Throw(r)
        <3>1. CASE proc[r].pc \in {"Thread", "AssignThread", "Reserve", "Message", "Job"}
            <4>1. \/ \E s \in UndoSteps : Goes(r, s)
                  \/ Goes(r, Failing(r))
                BY <2>7, <3>1, ThrowMoves DEF UndoSteps
            <4>2. proc[r].pc \in Sending \union UndoSteps /\ proc[r].pc \in Steps
                BY <3>1 DEF Sending, Steps, EnqueueSteps
            <4>. QED
                BY <2>3, <2>4, <4>1, <4>2, BackKeys, FailKeys DEF UndoSteps
        <3>2. CASE Goes(r, "accepted") \/ Goes(r, "refused")
            BY <2>3, <2>4, <3>2, StopKeys DEF Ends
        <3>3. CASE Goes(r, Failing(r))
            BY <2>3, <2>4, <2>7, <3>3, ThrowMoves, FailKeys DEF Running
        <3>. QED
            BY <2>7, <3>1, <3>2, <3>3, ThrowMoves
    <2>. QED
        BY <1>2, <2>5, <2>6, <2>7
<1>. QED
    BY <1>1, <1>2 DEF Failure

LEMMA UndoKeys ==
    ASSUME TypeInv, RowsInv, KeyInv, NEW r \in Requests, Undo(r)
    PROVE  KeyInv'
<1>1. /\ proc[r].pc \in Sending \union UndoSteps /\ OnlyMoves(r)
      /\ \E s \in UndoSteps \union {"ReleaseKey", "refused"} :
           Goes(r, s) /\ (s = "ReleaseKey" <=> proc[r].releases /\ s \notin UndoSteps)
    BY UndoMoves, LocalMoves
<1>2. UNCHANGED <<keys, queue, mailed, lapsed>> /\ failed \subseteq failed'
    BY DEF Undo, historyVars
<1>. QED
    BY <1>1, <1>2, QuietFrame, BackKeys

(* Clients that share a key whose record is both of theirs are of one kind.*)
LEMMA SameKind ==
    ASSUME TypeInv, NEW q \in Requests, NEW r \in Requests, Client(proc[q]), Client(proc[r]),
           Fingerprint(q) = Fingerprint(r)
    PROVE  proc[q].kind \in ReplaysDraft <=> proc[r].kind \in ReplaysDraft
<1>1. \A u \in Requests : proc[u].draft \notin Kinds
    BY DraftSendAssumption DEF TypeInv, TypeOK, ProcType
<1>2. \A u \in Requests : Client(proc[u]) =>
        /\ proc[u].kind \in ReplaysDraft <=> proc[u].kind # "send"
        /\ proc[u].kind \in Kinds
    BY DEF Client, ReplaysDraft, Kinds
<1>. QED
    BY <1>1, <1>2 DEF Fingerprint

(* A client writes the record of its key: every other request under it     *)
(* finds there what it relied on.                                          *)
Fits(q, k) == (Owner(q) => FitsOwner(q, k)) /\ (Replayer(q) => FitsReplayer(q, k))
Shares(q, r) == q # r /\ Keyed(q) /\ Slot(q) = Slot(r)

LEMMA OtherWritten ==
    ASSUME RequestsInv, NEW q \in Requests, proc'[q] = proc[q], lapsed' = lapsed,
           Out(q)' <=> Out(q), NEW k, Fits(q, k), keys'[Slot(q)] = k
    PROVE  RequestInv(q)'
<1>1. RequestInv(q)
    BY DEF RequestsInv
<1>2. Slot(q)' = Slot(q) /\ Fingerprint(q)' = Fingerprint(q)
    BY DEF Slot, Operation, Fingerprint
<1>3. (Owner(q)' <=> Owner(q)) /\ (Replayer(q)' <=> Replayer(q)) /\ KeyOf(q)' = k
    BY <1>2 DEF Owner, Replayer, KeyOf
<1>4. Progress(proc[q])' /\ Unsent(q)' /\ OwnDraft(q)'
    BY <1>1, <1>3 DEF RequestInv, Progress, Uncommitted, Client, Unsent, OwnDraft
<1>5. Owned(q)' /\ Replayed(q)'
    BY <1>2, <1>3 DEF Fits, Owned, FitsOwner, Replayed, FitsReplayer
<1>. QED
    BY <1>4, <1>5 DEF RequestInv

LEMMA KeyWritten ==
    ASSUME TypeInv, KeyInv, NEW r \in Requests, NEW s, OnlyMoves(r), Moves(r, s),
           proc[r].key # None, NEW k, Writes(Slot(r), k), lapsed' = lapsed, failed' = failed,
           OutStays(r),
           Client(proc[r]) /\ Sure /\ RequestInv(r) =>
             /\ RequestInv(r)'
             /\ \A q \in Requests : Shares(q, r) => Fits(q, k)
             /\ Owner(r)' => Owner(r) \/ \A q \in Requests : Shares(q, r) => ~Owner(q)
             /\ Keyed(r) /\ k.what \in ReplaysDraft /\ k.resource # None => k.resource[1] = "draft"
    PROVE  KeyInv'
<1>. SUFFICES ASSUME Sure' PROVE RequestsInv' /\ OneOwner' /\ SlotsInv'
    BY DEF KeyInv
<1>1. Sure /\ RequestsInv /\ OneOwner /\ SlotsInv /\ RequestInv(r)
    BY DEF Sure, KeyInv, RequestsInv
<1>2. Slot(r)' = Slot(r) /\ (Keyed(r)' <=> Keyed(r)) /\ (Client(proc[r])' <=> Client(proc[r]))
    BY SameSlot
<1>3. \A q \in Requests \ {r} : Slot(q)' = Slot(q) /\ (Keyed(q)' <=> Keyed(q)) /\ (Owner(q)' <=> Owner(q))
    BY DEF OnlyMoves, OutStays, Slot, Operation, Keyed, Owner
<1>4. Slot(r) \in Slots
    BY SlotTypes
<1>5. CASE ~Client(proc[r])
    <2>1. Slot(r)[1] # "draft_send"
        <3>1. proc[r].kind = "admin"
            BY <1>5 DEF Client, TypeInv, TypeOK, ProcType, Kinds, LocalsOK, LocalOK
        <3>. QED
            BY <3>1 DEF Slot, Operation
    <2>2. ASSUME NEW q \in Requests, Keyed(q)
          PROVE  keys'[Slot(q)] = keys[Slot(q)]
        <3>1. Slot(q)[1] = "draft_send" /\ Slot(q) \in Slots
            BY <2>2, SlotTypes DEF Keyed, Client, Slot, Operation
        <3>. QED
            BY <2>1, <3>1 DEF Writes
    <2>3. ASSUME NEW q \in Requests PROVE RequestInv(q)'
        <3>1. CASE q = r
            <4>1. ~Client(proc[r])' /\ proc'[r].kind \notin ReplaysDraft
                BY <1>5 DEF Moves, Client, ReplaysDraft
            <4>. QED
                BY <3>1, <4>1 DEF RequestInv, Progress, Unsent, OwnDraft, Owned, Replayed, Keyed
        <3>2. CASE q # r
            BY <1>1, <2>2, <3>2, OthersKeep DEF OnlyMoves, OutStays
        <3>. QED
            BY <3>1, <3>2
    <2>4. OneOwner'
        BY <1>1, <1>2, <1>3, <1>5 DEF OneOwner, Keyed
    <2>5. \A j \in Keys : keys'[<<"draft_send", j>>] = keys[<<"draft_send", j>>]
        BY <2>1 DEF Writes, Slots, Operations
    <2>6. SlotsInv'
        BY <1>1, <2>5 DEF SlotsInv, NamesDraft
    <2>. QED
        BY <2>3, <2>4, <2>6 DEF RequestsInv
<1>6. CASE Client(proc[r])
    <2>1. /\ RequestInv(r)'
          /\ \A q \in Requests : Shares(q, r) => Fits(q, k)
          /\ Owner(r)' => Owner(r) \/ \A q \in Requests : Shares(q, r) => ~Owner(q)
          /\ Keyed(r) /\ k.what \in ReplaysDraft /\ k.resource # None => k.resource[1] = "draft"
        BY <1>1, <1>6
    <2>2. ASSUME NEW q \in Requests, q # r PROVE RequestInv(q)'
        <3>1. proc'[q] = proc[q] /\ (Out(q)' <=> Out(q))
            BY <2>2 DEF OnlyMoves, OutStays
        <3>2. CASE Shares(q, r)
            <4>1. keys'[Slot(q)] = k /\ Fits(q, k)
                BY <2>1, <3>2 DEF Shares, Writes
            <4>. QED
                BY <1>1, <3>1, <4>1, OtherWritten
        <3>3. CASE ~Shares(q, r)
            <4>1. Keyed(q) => keys'[Slot(q)] = keys[Slot(q)]
                BY <2>2, <3>3, SlotTypes DEF Shares, Keyed, Writes
            <4>. QED
                BY <1>1, <3>1, <4>1, OthersKeep
        <3>. QED
            BY <3>2, <3>3
    <2>3. OneOwner'
        <3>1. ASSUME NEW q \in Requests, q # r, Keyed(q)', Owner(q)', Keyed(r)', Owner(r)',
                     Slot(q)' = Slot(r)'
              PROVE  FALSE
            <4>1. Shares(q, r) /\ Owner(q) /\ Keyed(q) /\ Keyed(r)
                BY <1>2, <1>3, <3>1 DEF Shares
            <4>2. Owner(r)
                BY <2>1, <3>1, <4>1
            <4>. QED
                BY <1>1, <3>1, <4>1, <4>2 DEF OneOwner, Shares
        <3>. QED
            BY <1>1, <1>3, <3>1 DEF OneOwner
    <2>4. SlotsInv'
        <3>1. ASSUME NEW j \in Keys, <<"draft_send", j>> \notin lapsed'
              PROVE  NamesDraft(<<"draft_send", j>>)'
            <4>1. <<"draft_send", j>> \in Slots
                BY DEF Slots, Operations
            <4>2. CASE <<"draft_send", j>> = Slot(r)
                <5>1. Keyed(r) /\ keys'[<<"draft_send", j>>] = k
                    BY <1>6, <3>1, <4>2 DEF Keyed, Writes
                <5>. QED
                    BY <2>1, <5>1 DEF NamesDraft
            <4>3. CASE <<"draft_send", j>> # Slot(r)
                BY <1>1, <3>1, <4>1, <4>3 DEF SlotsInv, NamesDraft, Writes
            <4>. QED
                BY <4>2, <4>3
        <3>. QED
            BY <3>1 DEF SlotsInv
    <2>. QED
        BY <2>1, <2>2, <2>3, <2>4 DEF RequestsInv
<1>. QED
    BY <1>5, <1>6

LEMMA CheckKeys ==
    ASSUME TypeInv, RowsInv, KeyInv, NEW r \in Requests, CheckKey(r) \/ RecheckKey(r)
    PROVE  KeyInv'
<1>1. /\ proc[r].pc \in {"CheckKey", "RecheckKey"} /\ proc[r].pc \in KeySteps
      /\ proc[r].pc \in Steps /\ proc[r].key # None
    BY HasKey DEF CheckKey, RecheckKey, At, KeySteps, Steps
<1>2. OnlyMoves(r)
    BY CheckKeyTypes, RecheckKeyTypes, LocalMoves
<1>3. UNCHANGED <<keys, queue, mailed, lapsed>> /\ failed \subseteq failed'
    BY QuietIs DEF CheckKey, RecheckKey, Quiet
<1>4. KeyFrame /\ OutStays(r) /\ Stands(r)
    BY <1>3, QuietFrame
<1>5. ~Out(r)
    BY <1>1, EarlyOut DEF Early
<1>6. ASSUME RequestInv(r), Client(proc[r])
      PROVE  ~proc[r].releases /\ ~proc[r].replay
    BY <1>1, <1>6 DEF RequestInv, Progress, Uncommitted, Unowned, Sending, UndoSteps
<1>7. CASE Go(r, "InsertKey")
    <2>1. Goes(r, "InsertKey")
        BY <1>7, GoMoves DEF TypeInv, Pcs, Steps, KeySteps
    <2>2. ASSUME Client(proc[r]), Sure, RequestInv(r)
          PROVE  RequestInv(r)' /\ (Owner(r)' => Owner(r))
        <3>1. /\ proc'[r].pc = "InsertKey" /\ proc'[r].kind = proc[r].kind
              /\ proc'[r].draft = proc[r].draft /\ ~proc'[r].releases /\ ~proc'[r].replay
            BY <1>6, <2>1, <2>2 DEF Goes, Moves, KeepsRelease, KeepsReplay, KeepsDraft
        <3>2. ~Out(r)'
            BY <1>4, <1>5 DEF Stands
        <3>3. ~Owner(r)' /\ ~Replayer(r)'
            BY <3>1, <3>2 DEF Owner, Replayer, OwnSteps, Sending, UndoSteps, Informed
        <3>4. OwnDraft(r)'
            BY <1>1, <2>2, <3>1 DEF RequestInv, OwnDraft, Unowned
        <3>. QED
            BY <3>1, <3>2, <3>3, <3>4 DEF RequestInv, Progress, Unsent, Owned, Replayed
    <2>. QED
        BY <1>2, <1>4, <2>1, <2>2, ClientKeys DEF Goes
<1>8. CASE Fail(r)
    <2>1. Goes(r, Failing(r))
        BY <1>1, <1>8, FailMoves DEF Failing
    <2>. QED
        BY <1>1, <1>2, <1>4, <2>1, FailKeys
<1>9. CASE keys[Slot(r)].status # "none" /\ Answer(r, keys[Slot(r)])
    <2>. DEFINE k == keys[Slot(r)]
    <2>0. k \in KeyRecords /\ KeyOK(k)
        BY <1>1, SlotTypes
    <2>1. PICK s \in {"ValidateReplay", "refused"} :
            /\ Moves(r, s)
            /\ s = "ValidateReplay" => /\ k.what = Fingerprint(r)
                                       /\ k.status = "completed" \/ k.resource # None
            /\ KeepsRelease(r) /\ KeepsReplay(r) /\ KeepsDraft(r)
            /\ proc'[r].resource = k.resource
        BY <1>9, <2>0, AnswerMoves DEF TypeInv
    <2>2. ASSUME Client(proc[r]), Sure, RequestInv(r)
          PROVE  RequestInv(r)' /\ (Owner(r)' => Owner(r))
        <3>1. /\ proc'[r].pc = s /\ proc'[r].kind = proc[r].kind
              /\ proc'[r].draft = proc[r].draft /\ ~proc'[r].releases /\ ~proc'[r].replay
            BY <1>6, <2>1, <2>2 DEF Moves, KeepsRelease, KeepsReplay, KeepsDraft
        <3>2. ~Out(r)'
            BY <1>4, <1>5 DEF Stands
        <3>3. ~Owner(r)' /\ (Replayer(r)' => s = "ValidateReplay")
            BY <3>1, <3>2 DEF Owner, Replayer, OwnSteps, Sending, UndoSteps, Informed
        <3>4. Progress(proc[r])' /\ Unsent(r)' /\ OwnDraft(r)' /\ Owned(r)'
            BY <3>1, <3>2, <3>3 DEF Progress, Unsent, OwnDraft, Owned, Unowned
        <3>5. Fingerprint(r)' = Fingerprint(r) /\ KeyOf(r)' = k
            BY <1>4, <2>1, SameSlot DEF KeyFrame, KeyOf
        <3>6. s = "ValidateReplay" => FitsReplayer(r, KeyOf(r))'
            BY <1>9, <2>0, <2>1, <3>1, <3>5 DEF FitsReplayer, KeyOK
        <3>7. Replayed(r)'
            BY <3>3, <3>6 DEF Replayed
        <3>. QED
            BY <3>3, <3>4, <3>7 DEF RequestInv
    <2>. QED
        BY <1>2, <1>4, <2>1, <2>2, ClientKeys
<1>. QED
    BY <1>7, <1>8, <1>9 DEF CheckKey, RecheckKey

(* A key is reserved by one request: its record was not there.             *)
LEMMA InsertKeys ==
    ASSUME TypeInv, RowsInv, KeyInv, NEW r \in Requests, InsertKey(r)
    PROVE  KeyInv'
<1>1. /\ proc[r].pc = "InsertKey" /\ proc[r].key # None
      /\ UNCHANGED <<sendVars, mailed, historyVars>>
    BY HasKey DEF InsertKey, At, KeySteps
<1>2. OnlyMoves(r)
    BY InsertKeyMoves, LocalMoves
<1>3. /\ queue' = queue /\ mailed' = mailed /\ lapsed' = lapsed /\ failed' = failed
      /\ OutStays(r) /\ Stands(r) /\ ~Out(r)
    BY <1>1, EarlyOut DEF sendVars, historyVars, OutStays, Stands, Out, Early
<1>4. ASSUME RequestInv(r), Client(proc[r])
      PROVE  /\ ~proc[r].releases /\ ~proc[r].replay
             /\ proc[r].kind \in ReplaysDraft => proc[r].draft = r
    BY <1>1, <1>4 DEF RequestInv, Progress, OwnDraft, Uncommitted, Unowned, Steps, KeySteps,
       Sending, UndoSteps
<1>5. CASE keys' = keys /\ Goes(r, "RecheckKey")
    <2>1. ASSUME Client(proc[r]), Sure, RequestInv(r)
          PROVE  RequestInv(r)' /\ (Owner(r)' => Owner(r))
        <3>1. /\ proc'[r].pc = "RecheckKey" /\ proc'[r].kind = proc[r].kind
              /\ proc'[r].draft = proc[r].draft /\ ~proc'[r].releases /\ ~proc'[r].replay
            BY <1>4, <1>5, <2>1 DEF Goes, Moves, KeepsRelease, KeepsReplay, KeepsDraft
        <3>2. ~Out(r)'
            BY <1>3 DEF Stands
        <3>3. ~Owner(r)' /\ ~Replayer(r)'
            BY <3>1, <3>2 DEF Owner, Replayer, OwnSteps, Sending, UndoSteps, Informed
        <3>. QED
            BY <1>4, <2>1, <3>1, <3>2, <3>3 DEF RequestInv, Progress, Unsent, OwnDraft, Owned, Replayed
    <2>. QED
        BY <1>2, <1>3, <1>5, <2>1, ClientKeys DEF Goes, KeyFrame
<1>6. ASSUME NEW s \in {"Validate", "ReleaseKey"}, keys[Slot(r)].status = "none",
             Writes(Slot(r), Reserved(r)), Moves(r, s), proc'[r].releases = TRUE,
             KeepsReplay(r), KeepsDraft(r)
      PROVE  KeyInv'
    <2>. DEFINE k == Reserved(r)
    <2>1. k.status = "pending" /\ k.what = Fingerprint(r) /\ k.resource = None
        BY DEF Reserved, NoRecord
    <2>2. ASSUME Client(proc[r]), Sure, RequestInv(r)
          PROVE  RequestInv(r)'
        <3>1. /\ proc'[r].pc = s /\ proc'[r].kind = proc[r].kind
              /\ proc'[r].draft = proc[r].draft /\ ~proc'[r].replay
            BY <1>4, <1>6, <2>2 DEF Moves, KeepsReplay, KeepsDraft
        <3>2. ~Out(r)'
            BY <1>3 DEF Stands
        <3>3. ~Replayer(r)'
            BY <3>1, <3>2 DEF Replayer, Informed
        <3>4. Progress(proc[r])' /\ Unsent(r)' /\ OwnDraft(r)'
            BY <1>4, <1>6, <2>2, <3>1, <3>2 DEF Progress, Uncommitted, Unsent, OwnDraft
        <3>5. Fingerprint(r)' = Fingerprint(r) /\ KeyOf(r)' = k
            BY <1>6, SameSlot DEF Writes, KeyOf
        <3>6. Owned(r)'
            BY <2>1, <3>5 DEF Owned, FitsOwner
        <3>. QED
            BY <3>3, <3>4, <3>6 DEF RequestInv, Replayed
    <2>3. ASSUME Sure, NEW q \in Requests, Shares(q, r)
          PROVE  ~Owner(q) /\ ~Replayer(q)
        <3>1. RequestInv(q) /\ Keyed(q) /\ KeyOf(q).status = "none"
            BY <1>6, <2>3 DEF KeyInv, RequestsInv, Shares, KeyOf
        <3>. QED
            BY <3>1 DEF RequestInv, Owned, FitsOwner, Replayed, FitsReplayer
    <2>. HIDE DEF k
    <2>. QED
        BY <1>1, <1>2, <1>3, <1>6, <2>1, <2>2, <2>3, KeyWritten DEF Fits, k
<1>. QED
    BY <1>5, <1>6, InsertKeyMoves

(* The owner of a key may write to it what the replays under it found.     *)
LEMMA OwnerFits ==
    ASSUME TypeInv, KeyInv, Sure, NEW r \in Requests, Keyed(r), Owner(r), NEW k,
           k.status # "none", k.what = KeyOf(r).what, k.resource # None,
           proc[r].kind \in ReplaysDraft => k.resource = <<"draft", r>>,
           NEW q \in Requests, Shares(q, r)
    PROVE  Fits(q, k)
<1>1. RequestInv(q) /\ RequestInv(r) /\ KeyOf(q) = KeyOf(r) /\ Keyed(q) /\ Slot(q) = Slot(r)
    BY DEF KeyInv, RequestsInv, Shares, KeyOf
<1>2. ~Owner(q)
    BY <1>1 DEF KeyInv, OneOwner, Shares
<1>3. FitsOwner(r, KeyOf(r))
    BY <1>1 DEF RequestInv, Owned
<1>4. ASSUME Replayer(q) PROVE FitsReplayer(q, k)
    <2>1. FitsReplayer(q, KeyOf(r))
        BY <1>1, <1>4 DEF RequestInv, Replayed
    <2>2. Fingerprint(q) = Fingerprint(r)
        BY <1>3, <2>1 DEF FitsOwner, FitsReplayer
    <2>3. proc[q].kind \in ReplaysDraft <=> proc[r].kind \in ReplaysDraft
        BY <1>1, <2>2, SameKind DEF Keyed
    <2>. QED
        BY <1>3, <2>1, <2>3 DEF FitsOwner, FitsReplayer
<1>. QED
    BY <1>2, <1>4 DEF Fits

LEMMA OwnerWrites ==
    ASSUME TypeInv, KeyInv, NEW r \in Requests, proc[r].pc \in {"LinkDraft", "LinkJob", "Complete"},
           NEW s \in {"Load", "Complete", "accepted"}, Goes(r, s), OnlyMoves(r),
           NEW k, Writes(Slot(r), k), k.status # "none", k.what = KeyOf(r).what,
           k.resource # None,
           proc[r].kind \in ReplaysDraft => k.resource = <<"draft", proc[r].draft>>,
           lapsed' = lapsed, failed' = failed, OutStays(r), Stands(r)
    PROVE  KeyInv'
<1>1. proc[r].key # None
    BY HasKey DEF KeySteps
<1>2. ASSUME Client(proc[r]), Sure, RequestInv(r)
      PROVE  /\ RequestInv(r)' /\ (Owner(r)' => Owner(r))
             /\ \A q \in Requests : Shares(q, r) => Fits(q, k)
             /\ Keyed(r) /\ k.what \in ReplaysDraft => k.resource[1] = "draft"
    <2>1. ~proc[r].replay /\ ~proc[r].releases /\ Owner(r)
        BY <1>2 DEF RequestInv, Progress, OwnSteps, Owner, Uncommitted, Sending, UndoSteps, Steps,
           KeySteps
    <2>2. proc[r].kind \in ReplaysDraft => proc[r].draft = r
        BY <1>2, <2>1 DEF RequestInv, OwnDraft
    <2>3. /\ proc'[r].pc = s /\ proc'[r].kind = proc[r].kind /\ proc'[r].draft = proc[r].draft
          /\ ~proc'[r].releases /\ ~proc'[r].replay
        BY <2>1 DEF Goes, Moves, KeepsRelease, KeepsReplay, KeepsDraft
    <2>4. ~Replayer(r)'
        BY <2>3 DEF Replayer, Informed
    <2>5. Progress(proc[r])' /\ Unsent(r)' /\ OwnDraft(r)'
        BY <2>2, <2>3 DEF Progress, Unsent, OwnDraft
    <2>6. /\ Fingerprint(r)' = Fingerprint(r) /\ KeyOf(r)' = k
          /\ (Keyed(r)' <=> Keyed(r))
        BY SameSlot DEF Goes, Writes, KeyOf
    <2>7. Keyed(r) => KeyOf(r).what = Fingerprint(r)
        BY <1>2, <2>1 DEF RequestInv, Owned, FitsOwner
    <2>8. Keyed(r)' => FitsOwner(r, KeyOf(r))'
        BY <2>2, <2>3, <2>6, <2>7 DEF FitsOwner
    <2>9. RequestInv(r)'
        BY <2>4, <2>5, <2>8 DEF RequestInv, Owned, Replayed
    <2>10. ASSUME NEW q \in Requests, Shares(q, r) PROVE Fits(q, k)
        <3>1. Keyed(r)
            BY <1>1, <1>2, <2>10 DEF Shares, Keyed
        <3>. QED
            BY <1>2, <2>1, <2>2, <2>10, <3>1, OwnerFits
    <2>11. Keyed(r) /\ k.what \in ReplaysDraft => k.resource[1] = "draft"
        <3>1. proc[r].draft \notin Kinds
            BY DraftSendAssumption DEF TypeInv, TypeOK, ProcType
        <3>2. proc[r].kind \in ReplaysDraft \/ proc[r].kind = "send"
            BY <1>2 DEF Client, ReplaysDraft
        <3>3. proc[r].kind = "send" /\ Keyed(r) => k.what \notin ReplaysDraft
            BY <2>7, <3>1 DEF Fingerprint, Kinds, ReplaysDraft
        <3>4. proc[r].kind \in ReplaysDraft => k.resource[1] = "draft"
            OBVIOUS
        <3>. QED
            BY <3>2, <3>3, <3>4
    <2>. QED
        BY <2>1, <2>9, <2>10, <2>11
<1>. QED
    BY <1>1, <1>2, KeyWritten DEF Goes

LEMMA WriteFrame ==
    ASSUME UNCHANGED <<sendVars, mailed, historyVars>>, NEW r \in Requests
    PROVE  lapsed' = lapsed /\ failed' = failed /\ OutStays(r) /\ Stands(r)
BY DEF sendVars, historyVars, OutStays, Stands, Out

LEMMA LinkKeys ==
    ASSUME TypeInv, KeyInv, NEW r \in Requests, LinkDraft(r) \/ LinkJob(r) \/ Complete(r)
    PROVE  KeyInv'
<1>1. /\ proc[r].pc \in {"LinkDraft", "LinkJob", "Complete"} /\ proc[r].pc # "idle"
      /\ proc[r].pc \in Steps /\ UNCHANGED <<sendVars, mailed, historyVars>>
      /\ proc[r].pc = "LinkJob" <=> LinkJob(r)
    BY DEF LinkDraft, LinkJob, Complete, At, Steps, KeySteps
<1>2. OnlyMoves(r) /\ lapsed' = lapsed /\ failed' = failed /\ OutStays(r) /\ Stands(r)
    BY <1>1, LinkDraftMoves, LinkJobMoves, CompleteMoves, LocalMoves, WriteFrame
<1>3. Slot(r) \in Slots /\ keys[Slot(r)] \in KeyRecords
    BY <1>1, HasKey, SlotTypes DEF KeySteps
<1>4. CASE keys' = keys /\ Goes(r, Failing(r))
    BY <1>1, <1>2, <1>4, FailKeys DEF KeyFrame
<1>5. ASSUME NEW x, x # None, NEW s \in {"Load", "Complete", "accepted"}, Goes(r, s),
             NEW v \in KeyStatus \ {"none"}, NEW k, Writes(Slot(r), k),
             k.status = v, k.what = keys[Slot(r)].what, k.resource = x,
             proc[r].kind \in ReplaysDraft => x = <<"draft", proc[r].draft>>
      PROVE  KeyInv'
    BY <1>1, <1>2, <1>5, OwnerWrites DEF KeyOf
<1>6. \A d : (<<"draft", d>> # None /\ <<"job", d>> # None) \/ d \notin Drafts
    BY DraftSendAssumption
<1>7. proc[r].draft \in Drafts /\ (proc[r].pc # "LinkDraft" => proc[r].job \in Drafts)
    BY <1>1 DEF TypeInv, TypeOK, ProcType, LocalsOK, LocalOK, Decided, Drafts
<1>8. CASE LinkDraft(r)
    <2>. DEFINE x == <<"draft", proc[r].draft>>
                s == IF proc[r].kind = "workflow" THEN "Complete" ELSE "Load"
    <2>1. /\ Linked(r, x).status = keys[Slot(r)].status /\ Linked(r, x).resource = x
          /\ Linked(r, x).what = keys[Slot(r)].what
        BY <1>3 DEF Linked, KeyRecords
    <2>2. ASSUME keys[Slot(r)].status = "pending", Writes(Slot(r), Linked(r, x)), Goes(r, s)
          PROVE  KeyInv'
        <3>1. s \in {"Load", "Complete", "accepted"} /\ x # None
            BY <1>6, <1>7
        <3>. HIDE DEF s, x
        <3>. QED
            BY <1>5, <2>1, <2>2, <3>1 DEF KeyStatus, x
    <2>. QED
        BY <1>4, <1>8, <2>2, LinkDraftMoves
<1>9. CASE LinkJob(r)
    <2>. DEFINE x == <<"job", proc[r].job>>
    <2>1. /\ Linked(r, x).status = keys[Slot(r)].status /\ Linked(r, x).resource = x
          /\ Linked(r, x).what = keys[Slot(r)].what
        BY <1>3 DEF Linked, KeyRecords
    <2>2. ASSUME keys[Slot(r)].status = "pending", Writes(Slot(r), Linked(r, x)),
                 Goes(r, "Complete"), proc[r].kind \notin ReplaysDraft
          PROVE  KeyInv'
        <3>1. x # None
            BY <1>1, <1>6, <1>7, <1>9
        <3>. HIDE DEF x
        <3>. QED
            BY <1>5, <2>1, <2>2, <3>1 DEF KeyStatus
    <2>3. CASE ~Sure'
        BY <2>3 DEF KeyInv
    <2>4. ASSUME Sure PROVE proc[r].kind \notin ReplaysDraft \/ ~Client(proc[r])
        BY <1>1, <1>9, <2>4 DEF KeyInv, RequestsInv, RequestInv, Progress, ReplaysDraft, Client
    <2>5. proc[r].kind \in ReplaysDraft => Client(proc[r])
        BY DEF ReplaysDraft, Client
    <2>. QED
        BY <1>2, <1>4, <1>9, <2>2, <2>3, <2>4, <2>5, LinkJobMoves DEF Sure
<1>10. CASE Complete(r)
    <2>1. /\ Done(r).status = "completed" /\ Done(r).resource = Result(r)
          /\ Done(r).what = keys[Slot(r)].what
        BY <1>3 DEF Done, KeyRecords
    <2>2. Result(r) # None
        BY <1>6, <1>7, <1>10 DEF Result, Complete, At
    <2>3. ASSUME Writes(Slot(r), Done(r)), Goes(r, "accepted")
          PROVE  KeyInv'
        BY <1>5, <2>1, <2>2, <2>3 DEF KeyStatus, Result
    <2>. QED
        BY <1>4, <1>10, <2>3, CompleteMoves
<1>. QED
    BY <1>8, <1>9, <1>10

(* A replay completes the key with the draft it names already.             *)
LEMMA CompleteReplayKeys ==
    ASSUME TypeInv, KeyInv, NEW r \in Requests, CompleteReplay(r)
    PROVE  KeyInv'
<1>1. /\ proc[r].pc = "CompleteReplay" /\ proc[r].pc # "idle" /\ proc[r].pc \in KeySteps
      /\ UNCHANGED <<sendVars, mailed, historyVars>>
    BY DEF CompleteReplay, At, KeySteps
<1>2. /\ OnlyMoves(r) /\ lapsed' = lapsed /\ failed' = failed /\ OutStays(r) /\ Stands(r)
      /\ Goes(r, "accepted")
    BY <1>1, CompleteReplayMoves, LocalMoves, WriteFrame
<1>3. proc[r].key # None /\ Slot(r) \in Slots /\ keys[Slot(r)] \in KeyRecords
    BY <1>1, HasKey, SlotTypes
<1>4. CASE keys' = keys
    BY <1>1, <1>2, <1>4, StopKeys DEF KeyFrame, Ends
<1>5. CASE Writes(Slot(r), Done(r))
    <2>. DEFINE k == Done(r)
    <2>1. /\ k.status # "none" /\ k.what = KeyOf(r).what /\ k.resource # None
          /\ proc[r].kind \in ReplaysDraft => k.resource = <<"draft", proc[r].draft>>
        <3>1. proc[r].draft \in Drafts /\ proc[r].job \in Drafts
            BY <1>1 DEF TypeInv, TypeOK, ProcType, LocalsOK, LocalOK, Decided, Drafts
        <3>2. Result(r) # None
            BY <3>1, DraftSendAssumption DEF Result
        <3>. QED
            BY <1>3, <3>2 DEF Done, KeyRecords, KeyOf, Result
    <2>. HIDE DEF k
    <2>2. ASSUME Client(proc[r]), Sure, RequestInv(r)
          PROVE  /\ RequestInv(r)' /\ (Owner(r)' => Owner(r))
                 /\ \A q \in Requests : Shares(q, r) => Fits(q, k)
                 /\ Keyed(r) /\ k.what \in ReplaysDraft => k.resource[1] = "draft"
        <3>1. /\ proc'[r].pc = "accepted" /\ proc'[r].kind = proc[r].kind
              /\ proc'[r].draft = proc[r].draft /\ proc'[r].releases = proc[r].releases
              /\ proc'[r].replay = proc[r].replay
            BY <1>2 DEF Goes, Moves, KeepsRelease, KeepsReplay, KeepsDraft
        <3>2. ~proc[r].releases
            BY <1>1, <2>2 DEF RequestInv, Progress, Uncommitted, Sending, UndoSteps, Steps, KeySteps
        <3>3. Owner(r)' => Owner(r)
            BY <1>1, <1>2, <3>1 DEF Owner, OwnSteps, Sending, UndoSteps, Stands, Ends
        <3>4. /\ Fingerprint(r)' = Fingerprint(r) /\ KeyOf(r)' = k
              /\ (Keyed(r)' <=> Keyed(r))
            BY <1>2, <1>5, SameSlot DEF Goes, Writes, KeyOf, k
        <3>5. Progress(proc[r])' /\ Unsent(r)' /\ OwnDraft(r)'
            BY <2>2, <3>1, <3>2, <3>3 DEF RequestInv, Progress, Unsent, OwnDraft, Unowned, OwnSteps,
               Steps, EnqueueSteps, UndoSteps, KeySteps, ReplaySteps
        <3>6. Keyed(r) => FitsReplayer(r, KeyOf(r))
            BY <1>1, <2>2 DEF RequestInv, Replayed, Replayer
        <3>7. Keyed(r)' => FitsReplayer(r, KeyOf(r))'
            BY <2>1, <3>1, <3>4, <3>6 DEF FitsReplayer
        <3>8. Keyed(r)' /\ Owner(r)' => FitsOwner(r, KeyOf(r))'
            <4>1. Keyed(r)' /\ Owner(r)' => FitsOwner(r, KeyOf(r))
                BY <2>2, <3>3, <3>4 DEF RequestInv, Owned
            <4>. QED
                BY <1>1, <2>1, <3>1, <3>2, <3>4, <3>6, <4>1 DEF FitsOwner, FitsReplayer
        <3>9. RequestInv(r)'
            BY <3>5, <3>7, <3>8 DEF RequestInv, Owned, Replayed
        <3>10. ASSUME NEW q \in Requests, Shares(q, r) PROVE Fits(q, k)
            <4>1. /\ RequestInv(q) /\ KeyOf(q) = KeyOf(r) /\ Keyed(q) /\ Keyed(r)
                BY <1>3, <2>2, <3>10 DEF KeyInv, RequestsInv, Shares, KeyOf, Keyed
            <4>2. Owner(q) => FitsOwner(q, KeyOf(r))
                BY <4>1 DEF RequestInv, Owned
            <4>3. Replayer(q) => FitsReplayer(q, KeyOf(r))
                BY <4>1 DEF RequestInv, Replayed
            <4>4. Owner(q) \/ Replayer(q) => Fingerprint(q) = Fingerprint(r)
                BY <3>6, <4>1, <4>2, <4>3 DEF FitsOwner, FitsReplayer
            <4>5. Owner(q) \/ Replayer(q) =>
                    (proc[q].kind \in ReplaysDraft <=> proc[r].kind \in ReplaysDraft)
                BY <4>1, <4>4, SameKind DEF Keyed
            <4>6. Owner(q) => FitsOwner(q, k)
                BY <1>1, <2>1, <3>6, <4>1, <4>2, <4>5 DEF FitsOwner, FitsReplayer
            <4>7. Replayer(q) => FitsReplayer(q, k)
                BY <1>1, <2>1, <3>6, <4>1, <4>3, <4>5 DEF FitsReplayer
            <4>. QED
                BY <4>6, <4>7 DEF Fits
        <3>11. Keyed(r) /\ k.what \in ReplaysDraft => k.resource[1] = "draft"
            <4>1. proc[r].draft \notin Kinds
                BY DraftSendAssumption DEF TypeInv, TypeOK, ProcType
            <4>2. proc[r].kind \in ReplaysDraft \/ proc[r].kind = "send"
                BY <2>2 DEF Client, ReplaysDraft
            <4>3. proc[r].kind = "send" /\ Keyed(r) => k.what \notin ReplaysDraft
                BY <2>1, <3>6, <4>1 DEF FitsReplayer, Fingerprint, Kinds, ReplaysDraft
            <4>4. proc[r].kind \in ReplaysDraft => k.resource[1] = "draft"
                BY <2>1
            <4>. QED
                BY <4>2, <4>3, <4>4
        <3>. QED
            BY <3>3, <3>9, <3>10, <3>11
    <2>. QED
        BY <1>2, <1>3, <1>5, <2>2, KeyWritten DEF Goes, k
<1>. QED
    BY <1>4, <1>5, CompleteReplayMoves

(* A key is given back only by its owner, before anyone found a resource   *)
(* under it.                                                               *)
LEMMA ReleaseKeys ==
    ASSUME TypeInv, KeyInv, NEW r \in Requests, ReleaseKey(r)
    PROVE  KeyInv'
<1>1. /\ proc[r].pc = "ReleaseKey" /\ proc[r].pc \in KeySteps /\ proc[r].pc \in Steps
      /\ UNCHANGED <<sendVars, mailed, historyVars>>
    BY DEF ReleaseKey, At, KeySteps, Steps
<1>2. /\ OnlyMoves(r) /\ lapsed' = lapsed /\ failed' = failed /\ OutStays(r) /\ Stands(r)
      /\ Goes(r, "refused") /\ proc[r].key # None
    BY <1>1, ReleaseKeyMoves, LocalMoves, WriteFrame, HasKey
<1>3. CASE keys' = keys
    BY <1>1, <1>2, <1>3, StopKeys DEF KeyFrame, Ends
<1>4. CASE Writes(Slot(r), NoRecord)
    <2>1. ASSUME Client(proc[r]), Sure, RequestInv(r)
          PROVE  /\ RequestInv(r)' /\ ~Owner(r)'
                 /\ \A q \in Requests : Shares(q, r) => Fits(q, NoRecord)
        <3>1. /\ proc'[r].pc = "refused" /\ proc'[r].kind = proc[r].kind
              /\ proc'[r].draft = proc[r].draft /\ proc'[r].replay = proc[r].replay
            BY <1>2 DEF Goes, Moves, KeepsReplay, KeepsDraft
        <3>2. proc[r].releases /\ Uncommitted(proc[r])
            BY <1>1, <2>1 DEF RequestInv, Progress
        <3>3. Owner(r) /\ ~proc[r].replay /\ ~Out(r)
            BY <1>1, <2>1, <3>2 DEF RequestInv, Unsent, Uncommitted, Owner, OwnSteps
        <3>4. ~Owner(r)' /\ ~Replayer(r)' /\ ~Out(r)'
            BY <1>2, <3>1, <3>3 DEF Owner, Replayer, OwnSteps, Sending, UndoSteps, Informed, Stands
        <3>5. RequestInv(r)'
            BY <3>1, <3>3, <3>4 DEF RequestInv, Progress, Unsent, OwnDraft, Owned, Replayed, Unowned,
               Steps, EnqueueSteps, UndoSteps, KeySteps, ReplaySteps
        <3>6. ASSUME NEW q \in Requests, Shares(q, r) PROVE ~Owner(q) /\ ~Replayer(q)
            <4>1. /\ RequestInv(q) /\ KeyOf(q) = KeyOf(r) /\ Keyed(q) /\ Keyed(r)
                BY <1>2, <2>1, <3>6 DEF KeyInv, RequestsInv, Shares, KeyOf, Keyed
            <4>2. KeyOf(r).resource = None
                BY <2>1, <3>2, <3>3, <4>1 DEF RequestInv, Owned, FitsOwner
            <4>3. ~Owner(q)
                BY <2>1, <3>3, <3>6, <4>1 DEF KeyInv, OneOwner, Shares
            <4>. QED
                BY <4>1, <4>2, <4>3 DEF RequestInv, Replayed, FitsReplayer
        <3>. QED
            BY <3>4, <3>5, <3>6 DEF Fits
    <2>2. NoRecord.resource = None
        BY DEF NoRecord
    <2>. QED
        BY <1>2, <1>4, <2>1, <2>2, KeyWritten DEF Goes
<1>. QED
    BY <1>3, <1>4, ReleaseKeyMoves

(* A request that arrives owns no key yet.                                 *)
LEMMA ArriveKeys ==
    ASSUME TypeInv, RowsInv, KeyInv, NEW r \in Requests, Arrive(r)
    PROVE  KeyInv'
<1>1. /\ proc[r].pc = "idle" /\ OnlyMoves(r) /\ Arrived(r)
    BY ArriveMoves, ArriveTypes, LocalMoves DEF TypeInv
<1>2. UNCHANGED <<keys, queue, mailed, lapsed>> /\ failed \subseteq failed'
    BY QuietIs DEF Arrive, Quiet
<1>3. KeyFrame /\ OutStays(r) /\ Stands(r)
    BY <1>2, QuietFrame
<1>4. ~Out(r)'
    BY <1>1, <1>3, EarlyOut DEF Early, Stands
<1>5. /\ ~proc'[r].replay /\ (proc'[r].releases => proc'[r].kind = "admin")
      /\ proc'[r].kind \in ReplaysDraft => proc'[r].draft = r
      /\ proc'[r].pc \in {"CheckKey", "Validate", "CancelDraft", "refused", "cancelled"}
      /\ proc'[r].pc = "Validate" => proc'[r].key = None
    BY <1>1 DEF Arrived, ReplaysDraft
<1>6. ~(Keyed(r)' /\ Owner(r)') /\ ~Replayer(r)'
    BY <1>4, <1>5 DEF Keyed, Owner, Replayer, OwnSteps, Sending, UndoSteps, Informed
<1>7. RequestInv(r)'
    BY <1>4, <1>5, <1>6 DEF RequestInv, Progress, Unsent, OwnDraft, Owned, Replayed, Client
<1>. QED
    BY <1>1, <1>3, <1>6, <1>7, KeysKept

(* A request moves on without becoming the owner of a key.                 *)
LEMMA ValidateKeys ==
    ASSUME TypeInv, RowsInv, KeyInv, NEW r \in Requests, Validate(r)
    PROVE  KeyInv'
<1>1. /\ proc[r].pc = "Validate" /\ proc[r].pc \in Steps /\ OnlyMoves(r)
    BY ValidateMoves, LocalMoves DEF Validate, At, Steps
<1>2. UNCHANGED <<keys, queue, mailed, lapsed>> /\ failed \subseteq failed'
    BY QuietIs DEF Validate, Quiet
<1>3. KeyFrame /\ OutStays(r) /\ Stands(r)
    BY <1>2, QuietFrame
<1>4. ~Out(r) /\ ~Out(r)'
    BY <1>1, <1>3, EarlyOut DEF Early, Stands
<1>5. CASE Goes(r, Failing(r))
    BY <1>1, <1>3, <1>5, FailKeys
<1>6. CASE Goes(r, IF proc[r].kind = "send" THEN "Load" ELSE "Create")
    <2>. DEFINE s == IF proc[r].kind = "send" THEN "Load" ELSE "Create"
    <2>1. ASSUME Client(proc[r]), Sure, RequestInv(r)
          PROVE  RequestInv(r)' /\ (Owner(r)' => Owner(r))
        <3>1. /\ proc'[r].pc = s /\ proc'[r].kind = proc[r].kind /\ proc'[r].draft = proc[r].draft
              /\ proc'[r].releases = proc[r].releases /\ proc'[r].replay = proc[r].replay
            BY <1>6 DEF Goes, Moves, KeepsRelease, KeepsReplay, KeepsDraft
        <3>2. ~proc[r].replay /\ Owner(r)
            BY <1>1, <2>1 DEF RequestInv, Progress, Owner, OwnSteps
        <3>3. /\ Fingerprint(r)' = Fingerprint(r) /\ KeyOf(r)' = KeyOf(r)
              /\ (Keyed(r)' <=> Keyed(r))
            BY <1>3, <1>6, SameSlot DEF Goes, KeyFrame, KeyOf
        <3>4. ~Replayer(r)'
            BY <3>1, <3>2 DEF Replayer, Informed
        <3>5. Progress(proc[r])'
            BY <3>1, <3>2 DEF Progress, Uncommitted, Sending
        <3>6. Unsent(r)' /\ OwnDraft(r)' /\ Replayed(r)'
            BY <1>4, <2>1, <3>1, <3>2, <3>4 DEF RequestInv, Unsent, OwnDraft, Replayed
        <3>7. Owned(r)'
            BY <2>1, <3>1, <3>2, <3>3 DEF RequestInv, Owned, FitsOwner
        <3>. QED
            BY <3>2, <3>5, <3>6, <3>7 DEF RequestInv
    <2>. QED
        BY <1>1, <1>3, <1>6, <2>1, ClientKeys DEF Goes
<1>. QED
    BY <1>5, <1>6, ValidateMoves

LEMMA CreateKeys ==
    ASSUME TypeInv, RowsInv, KeyInv, NEW r \in Requests, Create(r)
    PROVE  KeyInv'
<1>. DEFINE s == IF proc[r].key = None \/ proc[r].kind = "workflow" THEN "Load" ELSE "LinkDraft"
<1>1. /\ proc[r].pc = "Create" /\ OnlyMoves(r) /\ Moves(r, s) /\ ~proc'[r].releases
      /\ KeepsReplay(r) /\ KeepsDraft(r)
    BY CreateMoves, LocalMoves DEF Create, At
<1>2. UNCHANGED <<keys, queue, mailed, lapsed>> /\ failed \subseteq failed'
    BY DEF Create, historyVars
<1>3. KeyFrame /\ OutStays(r) /\ Stands(r)
    BY <1>2, QuietFrame
<1>4. ASSUME Client(proc[r]), Sure, RequestInv(r)
      PROVE  RequestInv(r)' /\ (Owner(r)' => Owner(r))
    <2>1. /\ proc'[r].pc = s /\ proc'[r].kind = proc[r].kind /\ proc'[r].draft = proc[r].draft
          /\ proc'[r].replay = proc[r].replay
        BY <1>1 DEF Moves, KeepsReplay, KeepsDraft
    <2>2. ~proc[r].replay /\ Owner(r) /\ proc[r].kind # "send"
        BY <1>1, <1>4 DEF RequestInv, Progress, Owner, OwnSteps
    <2>3. /\ Fingerprint(r)' = Fingerprint(r) /\ KeyOf(r)' = KeyOf(r)
          /\ (Keyed(r)' <=> Keyed(r))
        BY <1>1, <1>3, SameSlot DEF KeyFrame, KeyOf
    <2>4. ~Replayer(r)'
        BY <2>1, <2>2 DEF Replayer, Informed
    <2>5. Progress(proc[r])'
        BY <1>1, <2>1, <2>2 DEF Progress
    <2>6. Unsent(r)' /\ OwnDraft(r)' /\ Replayed(r)'
        BY <1>1, <1>4, <2>1, <2>2, <2>4 DEF RequestInv, Unsent, OwnDraft, Replayed
    <2>7. Owned(r)'
        BY <1>1, <1>4, <2>1, <2>2, <2>3 DEF RequestInv, Owned, FitsOwner
    <2>. QED
        BY <2>2, <2>5, <2>6, <2>7 DEF RequestInv
<1>. QED
    BY <1>1, <1>3, <1>4, ClientKeys

LEMMA CancelKeys ==
    ASSUME TypeInv, RowsInv, KeyInv, NEW r \in Requests, CancelDraft(r)
    PROVE  KeyInv'
<1>1. /\ OnlyMoves(r) /\ Goes(r, "cancelled") /\ proc[r].pc = "CancelDraft"
    BY CancelDraftMoves, LocalMoves DEF CancelDraft, At
<1>2. KeyFrame /\ OutStays(r) /\ Stands(r)
    BY QuietFrame DEF CancelDraft, historyVars
<1>. QED
    BY <1>1, <1>2, StopKeys DEF Ends

(* What a replay step leaves alone.                                        *)
LEMMA ReplayFrame ==
    ASSUME TypeInv, RowsInv, NEW r \in Requests, ReplayStep(r)
    PROVE  /\ OnlyMoves(r) /\ KeyFrame /\ OutStays(r) /\ Stands(r)
           /\ proc[r].pc \in ReplaySteps /\ proc[r].pc \in Steps
           /\ proc[r].pc \in {"ValidateReplay", "FindDraft", "FindJob"} => ~Out(r)
<1>1. OnlyMoves(r)
    BY RequestTypes, LocalMoves DEF RequestStep
<1>2. UNCHANGED <<keys, queue, mailed, lapsed>> /\ failed \subseteq failed'
    <2>1. Quiet
        BY DEF ReplayStep, ValidateReplay, FindDraft, FindJob, FindMessage, Reread, Quiet
    <2>. QED
        BY <2>1, QuietIs
<1>3. proc[r].pc \in ReplaySteps /\ proc[r].pc \in Steps
    BY DEF ReplayStep, ValidateReplay, FindDraft, FindJob, FindMessage, Reread, At, ReplaySteps,
       Steps
<1>. QED
    BY <1>1, <1>2, <1>3, QuietFrame, EarlyOut DEF Early

(* A replay holds no key and gives none back.                              *)
LEMMA ReplayHolds ==
    ASSUME NEW r \in Requests, RequestInv(r), Client(proc[r]), proc[r].pc \in ReplaySteps
    PROVE  /\ ~proc[r].releases
           /\ Keyed(r) => FitsReplayer(r, KeyOf(r))
<1>1. proc[r].pc \in Steps /\ ~Uncommitted(proc[r])
    BY DEF Steps, ReplaySteps, Uncommitted, Sending, UndoSteps
<1>2. Replayer(r)
    BY DEF ReplaySteps, Replayer, Informed
<1>. QED
    BY <1>1, <1>2 DEF RequestInv, Progress, Replayed

(* Once the draft is known, the replay stays with it.                      *)
LEMMA ReplayOn ==
    ASSUME TypeInv, KeyInv, NEW r \in Requests, proc[r].pc \in ReplaySteps,
           OnlyMoves(r), KeyFrame, OutStays(r), Stands(r),
           NEW s \in {"FindDraft", "FindJob", "FindMessage", "CompleteReplay", "Load"}, Moves(r, s),
           KeepsRelease(r),
           Client(proc[r]) /\ Sure /\ RequestInv(r) =>
             /\ proc[r].kind = "send" => KeepsDraft(r) /\ s \notin {"FindDraft", "Load"}
             /\ proc'[r].replay = IF s = "Load" THEN TRUE ELSE proc[r].replay
             /\ ~proc[r].replay => ~Out(r) \/ KeepsDraft(r)
             /\ Keyed(r) /\ proc[r].kind \in ReplaysDraft =>
                  KeyOf(r).resource = IF s = "FindDraft" THEN proc'[r].resource
                                      ELSE <<"draft", proc'[r].draft>>
    PROVE  KeyInv'
<1>1. ASSUME Client(proc[r]), Sure, RequestInv(r)
      PROVE  RequestInv(r)' /\ (Owner(r)' => Owner(r))
    <2>1. /\ proc'[r].pc = s /\ proc'[r].kind = proc[r].kind /\ proc'[r].releases = proc[r].releases
          /\ proc'[r].replay = IF s = "Load" THEN TRUE ELSE proc[r].replay
        BY <1>1 DEF Moves, KeepsRelease
    <2>2. ~proc[r].releases /\ (Keyed(r) => FitsReplayer(r, KeyOf(r)))
        BY <1>1, ReplayHolds
    <2>3. /\ Fingerprint(r)' = Fingerprint(r) /\ KeyOf(r)' = KeyOf(r)
          /\ (Keyed(r)' <=> Keyed(r))
        BY <1>1, SameSlot DEF KeyFrame, KeyOf
    <2>4. /\ s \notin Unowned \union OwnSteps /\ s \notin {"ReleaseKey", "LinkJob", "Create", "LinkDraft", "Reread"}
          /\ s # "ValidateReplay"
        BY DEF Unowned, OwnSteps
    <2>5. Owner(r)' => Owner(r) /\ KeepsDraft(r)
        <3>1. ASSUME Owner(r)' PROVE ~proc[r].replay /\ Out(r) /\ KeepsDraft(r)
            <4>1. s # "Load" /\ ~proc[r].replay
                BY <2>1, <3>1 DEF Owner
            <4>2. Out(r)
                BY <2>1, <2>4, <3>1, <4>1 DEF Owner, Sending, UndoSteps, Stands
            <4>. QED
                BY <1>1, <4>1, <4>2
        <3>. QED
            BY <3>1 DEF Owner
    <2>6. Progress(proc[r])'
        BY <1>1, <2>1, <2>2, <2>4 DEF RequestInv, Progress
    <2>7. Unsent(r)'
        BY <2>1, <2>2 DEF Unsent
    <2>8. OwnDraft(r)'
        BY <1>1, <2>1, <2>4, <2>5 DEF RequestInv, OwnDraft, KeepsDraft
    <2>9. Owned(r)'
        BY <1>1, <2>1, <2>3, <2>5 DEF RequestInv, Owned, FitsOwner
    <2>10. Replayed(r)'
        BY <1>1, <2>1, <2>2, <2>3, <2>4 DEF Replayed, FitsReplayer
    <2>. QED
        BY <2>5, <2>6, <2>7, <2>8, <2>9, <2>10 DEF RequestInv
<1>. QED
    BY <1>1, ClientKeys

LEMMA ValidateReplayKeys ==
    ASSUME TypeInv, RowsInv, KeyInv, NEW r \in Requests, ValidateReplay(r)
    PROVE  KeyInv'
<1>1. /\ OnlyMoves(r) /\ KeyFrame /\ OutStays(r) /\ Stands(r) /\ ~Out(r)
      /\ proc[r].pc = "ValidateReplay" /\ proc[r].pc \in ReplaySteps /\ proc[r].pc \in Steps
    BY ReplayFrame DEF ReplayStep, ValidateReplay, At
<1>2. PICK s \in {"accepted", "refused", "ReleaseKey", "FindDraft", "FindJob"} :
        /\ Goes(r, s)
        /\ s = "FindDraft" => proc[r].kind \in ReplaysDraft
        /\ s = "FindJob" => proc[r].kind \notin ReplaysDraft
        /\ s = "ReleaseKey" => proc[r].releases
    BY ValidateReplayMoves
<1>3. CASE s \in {"accepted", "refused"}
    BY <1>1, <1>2, <1>3, StopKeys DEF Ends
<1>4. CASE s = "ReleaseKey"
    BY <1>1, <1>2, <1>4, FailKeys DEF Failing
<1>5. CASE s \in {"FindDraft", "FindJob"}
    <2>1. /\ Moves(r, s) /\ KeepsRelease(r) /\ KeepsDraft(r) /\ proc'[r].replay = proc[r].replay
          /\ proc'[r].resource = proc[r].resource
        BY <1>2 DEF Goes, KeepsReplay, KeepsFound
    <2>2. ASSUME Client(proc[r]), Sure, RequestInv(r), Keyed(r), proc[r].kind \in ReplaysDraft
          PROVE  s = "FindDraft" /\ KeyOf(r).resource = proc'[r].resource
        BY <1>1, <1>2, <1>5, <2>1, <2>2, ReplayHolds DEF FitsReplayer
    <2>3. proc[r].kind = "send" => s # "FindDraft"
        BY <1>2 DEF ReplaysDraft
    <2>. QED
        BY <1>1, <1>5, <2>1, <2>2, <2>3, ReplayOn
<1>. QED
    BY <1>3, <1>4, <1>5

(* The draft found is the one the key names.                               *)
LEMMA FindDraftKeys ==
    ASSUME TypeInv, RowsInv, KeyInv, NEW r \in Requests, FindDraft(r)
    PROVE  KeyInv'
<1>1. /\ OnlyMoves(r) /\ KeyFrame /\ OutStays(r) /\ Stands(r) /\ ~Out(r)
      /\ proc[r].pc \in ReplaySteps /\ proc[r].pc \in Steps
    <2>1. proc[r].pc = "FindDraft"
        BY DEF FindDraft, At
    <2>. QED
        BY <2>1, ReplayFrame DEF ReplayStep
<1>2. proc[r].pc = "FindDraft"
    BY DEF FindDraft, At
<1>3. CASE Goes(r, Failing(r))
    BY <1>1, <1>3, FailKeys
<1>4. CASE /\ proc[r].kind \in ReplaysDraft /\ Moves(r, "FindJob")
           /\ KeepsRelease(r) /\ KeepsReplay(r) /\ KeepsThread(r) /\ KeepsFound(r)
           /\ proc'[r].draft = proc[r].resource[2]
    <2>1. ASSUME Client(proc[r]), Sure, RequestInv(r), Keyed(r)
          PROVE  KeyOf(r).resource = <<"draft", proc'[r].draft>>
        <3>1. /\ KeyOf(r).what = Fingerprint(r) /\ KeyOf(r).resource # None
              /\ KeyOf(r).resource = proc[r].resource
            BY <1>1, <1>2, <1>4, <2>1, ReplayHolds DEF FitsReplayer
        <3>2. Fingerprint(r) \in ReplaysDraft
            BY <1>4 DEF Fingerprint, ReplaysDraft
        <3>3. proc[r].key \in Keys /\ Slot(r) = <<"draft_send", proc[r].key>>
            BY <1>1, <1>4, HasKey, SlotTypes DEF Slot, Operation, ReplaysDraft
        <3>4. NamesDraft(Slot(r))
            BY <2>1, <3>3 DEF KeyInv, SlotsInv, Keyed
        <3>5. proc[r].resource \in {"draft", "job"} \X Drafts
            BY <3>1 DEF TypeInv, TypeOK, ProcType
        <3>6. proc[r].resource[1] = "draft"
            BY <3>1, <3>2, <3>4 DEF NamesDraft, KeyOf
        <3>7. proc[r].resource = <<"draft", proc[r].resource[2]>>
            BY <3>5, <3>6
        <3>. QED
            BY <1>4, <3>1, <3>7
    <2>2. proc[r].kind # "send"
        BY <1>4 DEF ReplaysDraft
    <2>. QED
        BY <1>1, <1>4, <2>1, <2>2, ReplayOn DEF KeepsReplay
<1>5. CASE proc[r].kind \notin ReplaysDraft /\ Moves(r, "Load")
    <2>1. Client(proc[r]) /\ RequestInv(r) /\ Sure => FALSE
        BY <1>2, <1>5 DEF RequestInv, Progress, Client, ReplaysDraft
    <2>. QED
        BY <1>1, <1>5, <2>1, ClientKeys
<1>. QED
    <2>1. \/ /\ proc[r].kind \in ReplaysDraft /\ Moves(r, "FindJob")
             /\ KeepsRelease(r) /\ KeepsReplay(r) /\ KeepsThread(r) /\ KeepsFound(r)
             /\ proc'[r].draft = proc[r].resource[2]
          \/ proc[r].kind \notin ReplaysDraft /\ Moves(r, "Load")
          \/ Goes(r, Failing(r))
        BY FindDraftMoves
    <2>. QED
        BY <1>3, <1>4, <1>5, <2>1

LEMMA FindJobKeys ==
    ASSUME TypeInv, RowsInv, KeyInv, NEW r \in Requests, FindJob(r)
    PROVE  KeyInv'
<1>1. /\ OnlyMoves(r) /\ KeyFrame /\ OutStays(r) /\ Stands(r) /\ ~Out(r)
      /\ proc[r].pc \in ReplaySteps /\ proc[r].pc \in Steps
    <2>1. proc[r].pc = "FindJob"
        BY DEF FindJob, At
    <2>. QED
        BY <2>1, ReplayFrame DEF ReplayStep
<1>2. proc[r].pc = "FindJob"
    BY DEF FindJob, At
<1>3. CASE Goes(r, Failing(r))
    BY <1>1, <1>3, FailKeys
<1>4. ASSUME Client(proc[r]), Sure, RequestInv(r), Keyed(r), proc[r].kind \in ReplaysDraft
      PROVE  KeyOf(r).resource = <<"draft", proc[r].draft>>
    BY <1>1, <1>2, <1>4, ReplayHolds DEF FitsReplayer
<1>5. CASE Moves(r, "FindMessage") /\ KeepsRelease(r) /\ KeepsReplay(r) /\ KeepsDraft(r)
    BY <1>1, <1>4, <1>5, ReplayOn DEF KeepsReplay, KeepsDraft
<1>6. CASE /\ Moves(r, "Load") /\ KeepsRelease(r) /\ KeepsDraft(r)
           /\ proc'[r].replay = TRUE /\ proc[r].kind \in ReplaysDraft
    <2>1. proc[r].kind # "send"
        BY <1>6 DEF ReplaysDraft
    <2>. QED
        BY <1>1, <1>4, <1>6, <2>1, ReplayOn DEF KeepsDraft
<1>7. CASE proc[r].kind = "admin" /\ Goes(r, "FindDraft")
    BY <1>1, <1>7, ForeignKeys DEF Client, Goes
<1>. QED
    BY <1>3, <1>5, <1>6, <1>7, FindJobMoves

LEMMA ReplayKeys ==
    ASSUME TypeInv, RowsInv, KeyInv, NEW r \in Requests, ReplayStep(r)
    PROVE  KeyInv'
<1>1. CASE FindMessage(r) \/ Reread(r)
    <2>1. /\ OnlyMoves(r) /\ KeyFrame /\ OutStays(r) /\ Stands(r)
          /\ proc[r].pc \in ReplaySteps /\ proc[r].pc \in Steps
        BY ReplayFrame
    <2>2. proc[r].pc \notin {"ValidateReplay", "FindDraft"}
        BY <1>1 DEF FindMessage, Reread, At
    <2>3. CASE Goes(r, Failing(r))
        BY <2>1, <2>2, <2>3, FailKeys
    <2>4. CASE Goes(r, "CompleteReplay")
        <3>1. ASSUME Client(proc[r]), Sure, RequestInv(r), Keyed(r), proc[r].kind \in ReplaysDraft
              PROVE  KeyOf(r).resource = <<"draft", proc[r].draft>>
            BY <2>1, <2>2, <3>1, ReplayHolds DEF FitsReplayer
        <3>2. /\ Moves(r, "CompleteReplay") /\ KeepsRelease(r) /\ KeepsDraft(r)
              /\ proc'[r].replay = proc[r].replay /\ proc'[r].draft = proc[r].draft
            BY <2>4 DEF Goes, KeepsReplay, KeepsDraft
        <3>. QED
            BY <2>1, <3>1, <3>2, ReplayOn
    <2>. QED
        BY <1>1, <2>3, <2>4, FindMessageMoves, RereadMoves
<1>. QED
    BY <1>1, ValidateReplayKeys, FindDraftKeys, FindJobKeys DEF ReplayStep

(* The consumer takes messages away, and the cron job keys nobody uses.    *)
LEMMA ConsumeKeys ==
    ASSUME TypeInv, KeyInv, NEW j \in Requests, Consume(j)
    PROVE  KeyInv'
<1>. SUFFICES ASSUME Sure' PROVE RequestsInv' /\ OneOwner' /\ SlotsInv'
    BY DEF KeyInv
<1>1. /\ proc' = proc /\ keys' = keys /\ lapsed' = lapsed /\ failed' = failed
      /\ \A q \in Requests : Out(q)' => Out(q)
    BY DEF Consume, Consumed, Out, historyVars
<1>2. RequestsInv /\ OneOwner /\ SlotsInv
    BY <1>1 DEF KeyInv, Sure
<1>3. ASSUME NEW q \in Requests
      PROVE  /\ Slot(q)' = Slot(q) /\ Fingerprint(q)' = Fingerprint(q) /\ KeyOf(q)' = KeyOf(q)
             /\ Keyed(q)' <=> Keyed(q)
             /\ (Owner(q)' => Owner(q)) /\ (Replayer(q)' => Replayer(q))
    BY <1>1 DEF Slot, Operation, Fingerprint, KeyOf, Keyed, Owner, Replayer
<1>4. ASSUME NEW q \in Requests
      PROVE  RequestInv(q)'
    <2>1. RequestInv(q)
        BY <1>2 DEF RequestsInv
    <2>2. Progress(proc[q])' /\ Unsent(q)' /\ OwnDraft(q)'
        BY <1>1, <1>3, <2>1 DEF RequestInv, Progress, Uncommitted, Client, Unsent, OwnDraft
    <2>3. Owned(q)' /\ Replayed(q)'
        BY <1>1, <1>3, <2>1 DEF RequestInv, Owned, FitsOwner, Replayed, FitsReplayer
    <2>. QED
        BY <2>2, <2>3 DEF RequestInv
<1>5. OneOwner'
    BY <1>2, <1>3 DEF OneOwner
<1>6. SlotsInv'
    BY <1>1, <1>2 DEF SlotsInv, NamesDraft
<1>. QED
    BY <1>4, <1>5, <1>6 DEF RequestsInv

LEMMA PruneKeys ==
    ASSUME TypeInv, KeyInv, NEW s \in Slots, Prune(s)
    PROVE  KeyInv'
<1>. SUFFICES ASSUME Sure' PROVE RequestsInv' /\ OneOwner' /\ SlotsInv'
    BY DEF KeyInv
<1>1. /\ proc' = proc /\ lapsed' = lapsed \union {s} /\ failed' = failed
      /\ queue' = queue /\ mailed' = mailed
      /\ \A u \in Slots \ {s} : keys'[u] = keys[u]
    BY DEF Prune, sendVars, TypeInv, TypeOK
<1>2. RequestsInv /\ OneOwner /\ SlotsInv
    BY <1>1 DEF KeyInv, Sure
<1>3. ASSUME NEW q \in Requests
      PROVE  /\ Slot(q)' = Slot(q) /\ Fingerprint(q)' = Fingerprint(q)
             /\ Keyed(q)' => Keyed(q) /\ KeyOf(q)' = KeyOf(q)
             /\ (Owner(q)' <=> Owner(q)) /\ (Replayer(q)' <=> Replayer(q))
    <2>1. Slot(q)' = Slot(q) /\ Fingerprint(q)' = Fingerprint(q)
        BY <1>1 DEF Slot, Operation, Fingerprint
    <2>2. (Owner(q)' <=> Owner(q)) /\ (Replayer(q)' <=> Replayer(q))
        BY <1>1 DEF Owner, Replayer, Out
    <2>3. ASSUME Keyed(q)' PROVE Keyed(q) /\ KeyOf(q)' = KeyOf(q)
        <3>1. Keyed(q) /\ Slot(q) # s
            BY <1>1, <2>1, <2>3 DEF Keyed
        <3>2. Slot(q) \in Slots
            BY <3>1, SlotTypes DEF Keyed
        <3>. QED
            BY <1>1, <2>1, <3>1, <3>2 DEF KeyOf
    <2>. QED
        BY <2>1, <2>2, <2>3
<1>4. ASSUME NEW q \in Requests
      PROVE  RequestInv(q)'
    <2>1. RequestInv(q)
        BY <1>2 DEF RequestsInv
    <2>2. Progress(proc[q])' /\ Unsent(q)' /\ OwnDraft(q)'
        BY <1>1, <1>3, <2>1 DEF RequestInv, Progress, Uncommitted, Client, Unsent, Out, OwnDraft
    <2>3. Owned(q)' /\ Replayed(q)'
        BY <1>1, <1>3, <2>1 DEF RequestInv, Owned, FitsOwner, Replayed, FitsReplayer
    <2>. QED
        BY <2>2, <2>3 DEF RequestInv
<1>5. OneOwner'
    BY <1>2, <1>3 DEF OneOwner
<1>6. SlotsInv'
    BY <1>1, <1>2 DEF SlotsInv, NamesDraft, Slots, Operations
<1>. QED
    BY <1>4, <1>5, <1>6 DEF RequestsInv

LEMMA StutterKeys ==
    ASSUME KeyInv, UNCHANGED vars
    PROVE  KeyInv'
BY DEF vars, sendVars, historyVars, KeyInv, Sure, RequestsInv, RequestInv, Progress, Uncommitted,
       Client, Unsent, Out, OwnDraft, Owned, Keyed, Slot, Operation, Owner, FitsOwner, Fingerprint,
       KeyOf, Replayed, Replayer, FitsReplayer, OneOwner, SlotsInv, NamesDraft

LEMMA KeysStep ==
    ASSUME TypeInv, RowsInv, KeyInv, [Next]_vars
    PROVE  KeyInv'
<1>1. ASSUME NEW r \in Requests, RequestStep(r)
      PROVE  KeyInv'
    <2>1. CASE CancelDraft(r) \/ Validate(r) \/ Create(r)
        BY <2>1, CancelKeys, ValidateKeys, CreateKeys
    <2>2. CASE KeyStep(r)
        BY <2>2, CheckKeys, InsertKeys, LinkKeys, CompleteReplayKeys, ReleaseKeys DEF KeyStep
    <2>3. CASE EnqueueStep(r)
        BY <2>3, EnqueueKeys, SendToQueueKeys
    <2>. QED
        BY <1>1, <2>1, <2>2, <2>3, UndoKeys, ReplayKeys DEF RequestStep
<1>2. ASSUME NEW r \in Requests, Arrive(r) \/ Failure(r)
      PROVE  KeyInv'
    BY <1>2, ArriveKeys, FailureKeys
<1>3. ASSUME NEW j \in Requests, Consume(j)
      PROVE  KeyInv'
    BY <1>3, ConsumeKeys
<1>4. ASSUME NEW s \in Slots, Prune(s)
      PROVE  KeyInv'
    BY <1>4, PruneKeys
<1>. QED
    BY <1>1, <1>2, <1>3, <1>4, StutterKeys DEF Next

-----------------------------------------------------------------------------
(* One email.                                                              *)

LEMMA InitSends ==
    ASSUME Init
    PROVE  SendInv
<1>1. \A r \in Requests : proc[r] = IdleProc /\ job[r].status = "none" /\ message[r] = None /\ ~Out(r)
    BY DEF Init, Out
<1>2. IdleProc.pc = "idle" /\ IdleProc.kind = "cancel" /\ ~IdleProc.replay /\ ~IdleProc.releases
    BY DEF IdleProc
<1>3. RowsInv
    BY <1>1, <1>2 DEF RowsInv, RowsOf, OneJob, Visible, UndoSteps
<1>4. \A r \in Requests : ~Owner(r) /\ ~Replayer(r) /\ ~Keyed(r)
    BY <1>1, <1>2 DEF Owner, Replayer, Keyed, Client, OwnSteps, Sending, UndoSteps, Informed
<1>5. \A r \in Requests : RequestInv(r)
    BY <1>1, <1>2, <1>4 DEF RequestInv, Progress, Client, Unsent, OwnDraft, ReplaysDraft, Owned, Replayed
<1>6. \A s \in Slots : keys[s].resource = None
    BY DEF Init, NoRecord
<1>7. SlotsInv
    BY <1>6 DEF SlotsInv, NamesDraft, Slots, Operations
<1>8. KeyInv
    BY <1>4, <1>5, <1>7 DEF KeyInv, RequestsInv, OneOwner
<1>. QED
    BY <1>3, <1>8, InitTypes DEF SendInv

(* Two requests that were mailed under one key work on one draft.          *)
LEMMA KeyedOnce ==
    ASSUME SendInv, Sure, NEW i \in mailed, NEW j \in mailed, SameKey(i, j),
           Operation(i) = "draft_send"
    PROVE  i = j \/ proc[i].draft = proc[j].draft
<1>1. /\ TypeInv /\ RowsInv /\ KeyInv /\ i \in Requests /\ j \in Requests /\ Out(i) /\ Out(j)
    BY DEF SendInv, TypeInv, TypeOK, Out
<1>2. Slot(i) = Slot(j) /\ proc[i].key # None /\ proc[j].key # None /\ Slot(i) \notin lapsed
      /\ Operation(j) = "draft_send"
    BY DEF SameKey, Slot
<1>3. ASSUME NEW q \in {i, j}
      PROVE  Keyed(q) /\ Client(proc[q])
    <2>1. proc[q].kind \in Kinds /\ proc[q].kind # "admin" /\ proc[q].kind # "cancel"
        BY <1>1, <1>2 DEF TypeInv, TypeOK, ProcType, LocalsOK, LocalOK, Operation
    <2>. QED
        BY <1>2, <2>1 DEF Keyed, Client, Kinds
<1>. DEFINE k == KeyOf(i)
<1>4. ASSUME NEW q \in {i, j}
      PROVE  /\ Owner(q) \/ Replayer(q)
             /\ Owner(q) => FitsOwner(q, k) /\ OwnDraft(q)
             /\ Replayer(q) => FitsReplayer(q, k)
             /\ proc[q].pc \notin {"ValidateReplay", "FindDraft"}
    <2>1. RequestInv(q) /\ KeyOf(q) = k /\ Out(q)
        BY <1>1, <1>2 DEF KeyInv, RequestsInv, KeyOf
    <2>2. Owner(q) \/ Replayer(q)
        BY <2>1 DEF Owner, Replayer
    <2>3. proc[q].pc \notin {"ValidateReplay", "FindDraft"}
        BY <1>1, <2>1, EarlyOut DEF Early
    <2>. QED
        BY <1>3, <2>1, <2>2, <2>3 DEF RequestInv, Owned, Replayed
<1>5. Owner(i) /\ Owner(j) => i = j
    BY <1>1, <1>2, <1>3 DEF KeyInv, OneOwner
<1>6. Fingerprint(i) = Fingerprint(j)
    BY <1>4 DEF FitsOwner, FitsReplayer
<1>7. proc[i].kind \in ReplaysDraft <=> proc[j].kind \in ReplaysDraft
    BY <1>1, <1>3, <1>6, SameKind
<1>8. CASE proc[i].kind \notin ReplaysDraft
    <2>1. proc[i].kind = "send" /\ proc[j].kind = "send"
        BY <1>3, <1>7, <1>8 DEF Client, ReplaysDraft
    <2>. QED
        BY <1>6, <2>1 DEF Fingerprint
<1>9. CASE proc[i].kind \in ReplaysDraft /\ ~(Owner(i) /\ Owner(j))
    <2>1. Replayer(i) \/ Replayer(j)
        BY <1>4, <1>9
    <2>2. k.resource # None
        BY <1>4, <2>1 DEF FitsReplayer
    <2>3. ASSUME NEW q \in {i, j}
          PROVE  k.resource = <<"draft", proc[q].draft>>
        <3>1. proc[q].kind \in ReplaysDraft
            BY <1>7, <1>9
        <3>2. CASE Replayer(q)
            BY <1>4, <3>1, <3>2 DEF FitsReplayer
        <3>3. CASE Owner(q)
            BY <1>4, <2>2, <3>1, <3>3 DEF FitsOwner, OwnDraft
        <3>. QED
            BY <1>4, <3>2, <3>3
    <2>. QED
        BY <2>3
<1>. QED
    BY <1>5, <1>8, <1>9

LEMMA SendsOnce == SendInv => MailedOnce
<1>. SUFFICES ASSUME SendInv, NEW i \in mailed, NEW j \in mailed, "ambiguous" \notin failed,
                     \/ proc[i].draft = proc[j].draft
                     \/ SameKey(i, j) /\ Operation(i) = "draft_send"
              PROVE  i = j
    BY DEF MailedOnce
<1>1. Sure
    BY DEF Sure
<1>2. i = j \/ proc[i].draft = proc[j].draft
    BY <1>1, KeyedOnce
<1>3. i \in Requests /\ j \in Requests /\ Out(i) /\ Out(j) /\ RowsInv
    BY DEF SendInv, TypeInv, TypeOK, Out
<1>4. Visible(i) /\ Visible(j) /\ job[i].draft = proc[i].draft /\ job[j].draft = proc[j].draft
    BY <1>1, <1>3 DEF RowsInv, RowsOf
<1>. QED
    BY <1>2, <1>3, <1>4 DEF RowsInv, OneJob

(* However many requests send a draft, directly or under an idempotency    *)
(* key, and whatever crashes, throws or is retried, one email goes out:    *)
(* the claim of the draft, the insertion of a job where none is visible,   *)
(* and the key that is released only by who reserved it see to it.         *)
THEOREM DraftMailedOnce == Spec => []MailedOnce
<1>1. Init => SendInv
    BY InitSends
<1>2. SendInv /\ [Next]_vars => SendInv'
    BY TypeStep, RowsStep, KeysStep DEF SendInv
<1>. QED
    BY <1>1, <1>2, SendsOnce, PTL DEF Spec

-----------------------------------------------------------------------------
(* Keys that can be retried.                                               *)

(* Until it is answered, no request goes on with the draft of another one. *)
Fresh == Unowned \union {"Validate"}
FreshInv == \A r \in Requests : proc[r].pc \in Fresh => ~proc[r].replay

(* A pending key without a resource is still in the hands of a request     *)
(* that will record one, or release the key.                               *)
Keeps(p) ==
    /\ p.key # None /\ p.kind # "workflow"
    /\ \/ p.pc \in {"Create", "LinkDraft", "ReleaseKey"}
       \/ p.pc = "Validate" /\ p.releases
       \/ p.kind = "send" /\ p.pc = "LinkJob"
       \/ p.kind = "send" /\ p.pc \in Sending \union UndoSteps /\ p.releases /\ ~p.replay

Awaited(s) ==
    keys[s].status = "pending" /\ keys[s].what # "workflow" /\ keys[s].resource = None
Unbroken == {"crash", "throw"} \intersect failed = {}
KeepersInv ==
    Unbroken => \A s \in Slots :
      Awaited(s) => \E r \in Requests : Slot(r) = s /\ Keeps(proc[r])

ResumeInv == FreshInv /\ KeepersInv

(* r moves; what it does to its key, and what it still does for it.        *)
KeeperFrame(r) ==
    /\ OnlyMoves(r) /\ failed \subseteq failed'
    /\ proc'[r].kind = proc[r].kind /\ proc'[r].key = proc[r].key
    /\ \A s \in Slots : s # Slot(r) => keys'[s] = keys[s]

LEMMA KeepersMove ==
    ASSUME TypeInv, KeepersInv, NEW r \in Requests, KeeperFrame(r),
           \/ \A s \in Slots : Unbroken' /\ s = Slot(r) => ~Awaited(s)'
           \/ Keeps(proc'[r])
           \/ keys' = keys /\ ~Keeps(proc[r])
    PROVE  KeepersInv'
<1>. SUFFICES ASSUME Unbroken', NEW s \in Slots, Awaited(s)'
              PROVE  \E q \in Requests : Slot(q)' = s /\ Keeps(proc'[q])
    BY DEF KeepersInv, Keeps
<1>1. Slot(r)' = Slot(r)
    BY DEF KeeperFrame, Slot, Operation
<1>2. \A q \in Requests \ {r} : Slot(q)' = Slot(q) /\ (Keeps(proc[q]) => Keeps(proc'[q]))
    BY DEF KeeperFrame, OnlyMoves, Slot, Operation
<1>3. Unbroken
    BY DEF KeeperFrame, Unbroken
<1>4. CASE s = Slot(r) /\ Keeps(proc'[r])
    BY <1>1, <1>4
<1>5. CASE ~(s = Slot(r) /\ Keeps(proc'[r]))
    <2>1. keys'[s] = keys[s] /\ (s = Slot(r) => ~Keeps(proc[r]))
        BY <1>5 DEF KeeperFrame
    <2>2. Awaited(s)
        BY <2>1 DEF Awaited
    <2>3. PICK q \in Requests : Slot(q) = s /\ Keeps(proc[q])
        BY <1>3, <2>2 DEF KeepersInv
    <2>. QED
        BY <1>2, <2>1, <2>3
<1>. QED
    BY <1>4, <1>5

LEMMA FreshMoves ==
    ASSUME FreshInv, NEW r \in Requests, OnlyMoves(r), proc'[r].pc \in Fresh => ~proc'[r].replay
    PROVE  FreshInv'
BY DEF FreshInv, OnlyMoves

(* A step that leaves the keys alone.                                      *)
LEMMA QuietKeepers ==
    ASSUME TypeInv, ResumeInv, NEW r \in Requests, NEW s, Moves(r, s),
           keys' = keys, failed \subseteq failed', Keeps(proc[r]) => Keeps(proc'[r]),
           s \in Fresh => ~proc'[r].replay
    PROVE  ResumeInv'
<1>1. KeeperFrame(r) /\ proc'[r].pc = s
    BY DEF Moves, KeeperFrame, OnlyMoves
<1>2. FreshInv'
    BY <1>1, FreshMoves DEF ResumeInv, KeeperFrame
<1>. QED
    BY <1>1, <1>2, KeepersMove DEF ResumeInv

(* A step that records a resource or deletes the record.                   *)
LEMMA SettledKeepers ==
    ASSUME TypeInv, ResumeInv, NEW r \in Requests, NEW s, s \notin Fresh, Moves(r, s), NEW k,
           Writes(Slot(r), k), failed' = failed, k.status = "none" \/ k.resource # None
    PROVE  ResumeInv'
<1>1. KeeperFrame(r) /\ proc'[r].pc = s
    BY DEF Moves, KeeperFrame, OnlyMoves, Writes
<1>2. FreshInv'
    BY <1>1, FreshMoves DEF ResumeInv, KeeperFrame
<1>3. \A u \in Slots : u = Slot(r) => ~Awaited(u)'
    BY DEF Awaited, Writes
<1>. QED
    BY <1>1, <1>2, <1>3, KeepersMove DEF ResumeInv

LEMMA CheckKeyKeepers ==
    ASSUME TypeInv, ResumeInv, NEW r \in Requests, CheckKey(r) \/ RecheckKey(r)
    PROVE  ResumeInv'
<1>1. /\ proc[r].pc \in {"CheckKey", "RecheckKey"} /\ proc[r].key # None /\ proc[r].pc # "idle"
      /\ keys' = keys /\ failed' = failed
    BY HasKey DEF CheckKey, RecheckKey, At, KeySteps, historyVars
<1>2. ~Keeps(proc[r]) /\ ~proc[r].replay
    BY <1>1 DEF Keeps, Sending, UndoSteps, ResumeInv, FreshInv, Fresh, Unowned
<1>3. keys[Slot(r)] \in KeyRecords
    BY <1>1, SlotTypes
<1>4. CASE Answer(r, keys[Slot(r)])
    <2>1. \E s \in {"ValidateReplay", "refused"} : Moves(r, s)
        BY <1>3, <1>4, AnswerMoves DEF TypeInv
    <2>. QED
        BY <1>1, <1>2, <2>1, QuietKeepers DEF Fresh, Unowned
<1>5. CASE Go(r, "InsertKey")
    <2>1. Goes(r, "InsertKey")
        BY <1>5, GoMoves DEF TypeInv, Pcs, Steps, KeySteps
    <2>. QED
        BY <1>1, <1>2, <2>1, QuietKeepers DEF Goes, KeepsReplay
<1>6. CASE Fail(r)
    <2>1. \E s \in {"ReleaseKey", "refused"} : Goes(r, s)
        BY <1>1, <1>6, FailMoves
    <2>. QED
        BY <1>1, <1>2, <2>1, QuietKeepers DEF Fresh, Unowned, Goes
<1>. QED
    BY <1>4, <1>5, <1>6 DEF CheckKey, RecheckKey

(* The request that reserves a key records its own fingerprint.            *)
LEMMA InsertKeyKeepers ==
    ASSUME TypeInv, ResumeInv, NEW r \in Requests, InsertKey(r)
    PROVE  ResumeInv'
<1>1. /\ proc[r].pc = "InsertKey" /\ proc[r].key # None /\ proc[r].pc # "idle"
      /\ failed' = failed
    BY HasKey DEF InsertKey, At, KeySteps, historyVars
<1>2. ~Keeps(proc[r]) /\ ~proc[r].replay
    BY <1>1 DEF Keeps, Sending, UndoSteps, ResumeInv, FreshInv, Fresh, Unowned
<1>3. CASE keys' = keys /\ Goes(r, "RecheckKey")
    BY <1>1, <1>2, <1>3, QuietKeepers DEF Goes, KeepsReplay
<1>4. ASSUME NEW s \in {"Validate", "ReleaseKey"}, Moves(r, s), proc'[r].releases = TRUE,
             KeepsReplay(r), Writes(Slot(r), Reserved(r))
      PROVE  ResumeInv'
    <2>1. KeeperFrame(r) /\ proc'[r].pc = s
        BY <1>1, <1>4 DEF Moves, KeeperFrame, OnlyMoves, Writes
    <2>2. FreshInv'
        BY <1>2, <1>4, <2>1, FreshMoves DEF ResumeInv, KeeperFrame, KeepsReplay
    <2>3. CASE proc[r].kind = "workflow"
        <3>1. Fingerprint(r) = "workflow"
            BY <2>3 DEF Fingerprint
        <3>2. Reserved(r).what = "workflow"
            BY <3>1 DEF Reserved, NoRecord
        <3>3. \A u \in Slots : u = Slot(r) => ~Awaited(u)'
            BY <1>4, <3>2 DEF Awaited, Writes
        <3>. QED
            BY <2>1, <2>2, <3>3, KeepersMove DEF ResumeInv
    <2>4. CASE proc[r].kind # "workflow"
        <3>1. Keeps(proc'[r])
            BY <1>1, <1>4, <2>1, <2>4 DEF Keeps, KeeperFrame
        <3>. QED
            BY <2>1, <2>2, <3>1, KeepersMove DEF ResumeInv
    <2>. QED
        BY <2>3, <2>4
<1>. QED
    BY <1>3, <1>4, InsertKeyMoves

LEMMA LinkKeepers ==
    ASSUME TypeInv, ResumeInv, NEW r \in Requests, NEW x, x # None, NEW s, s \notin Fresh,
           proc[r].pc \in {"LinkDraft", "LinkJob"}, proc[r].key # None, failed' = failed,
           \/ Writes(Slot(r), Linked(r, x)) /\ Goes(r, s)
           \/ keys[Slot(r)].status # "pending" /\ keys' = keys /\ Goes(r, Failing(r))
    PROVE  ResumeInv'
<1>1. CASE Writes(Slot(r), Linked(r, x)) /\ Goes(r, s)
    <2>1. Linked(r, x).resource = x
        BY SlotTypes DEF Linked, KeyRecords
    <2>. QED
        BY <1>1, <2>1, SettledKeepers DEF Goes
<1>2. CASE keys[Slot(r)].status # "pending" /\ keys' = keys /\ Goes(r, Failing(r))
    <2>1. KeeperFrame(r) /\ proc'[r].pc \in {"ReleaseKey", "refused"}
        BY <1>2 DEF Goes, Moves, KeeperFrame, OnlyMoves, Failing
    <2>2. FreshInv'
        BY <2>1, FreshMoves DEF ResumeInv, KeeperFrame, Fresh, Unowned
    <2>3. \A u \in Slots : u = Slot(r) => ~Awaited(u)'
        BY <1>2 DEF Awaited
    <2>. QED
        BY <2>1, <2>2, <2>3, KeepersMove DEF ResumeInv
<1>. QED
    BY <1>1, <1>2

LEMMA KeyKeepers ==
    ASSUME TypeInv, ResumeInv, NEW r \in Requests, KeyStep(r)
    PROVE  ResumeInv'
<1>1. proc[r].key # None /\ proc[r].pc # "idle" /\ failed' = failed
    BY HasKey DEF KeyStep, CheckKey, InsertKey, RecheckKey, LinkDraft, LinkJob, Complete,
       CompleteReplay, ReleaseKey, At, KeySteps, historyVars
<1>2. CASE LinkDraft(r)
    <2>1. <<"draft", proc[r].draft>> # None
        BY <1>1, DraftSendAssumption DEF TypeInv, LocalsOK, LocalOK
    <2>. DEFINE s == IF proc[r].kind = "workflow" THEN "Complete" ELSE "Load"
    <2>2. s \notin Fresh
        BY DEF Fresh, Unowned
    <2>3. \/ Writes(Slot(r), Linked(r, <<"draft", proc[r].draft>>)) /\ Goes(r, s)
          \/ keys[Slot(r)].status # "pending" /\ keys' = keys /\ Goes(r, Failing(r))
        BY <1>2, LinkDraftMoves
    <2>. HIDE DEF s
    <2>. QED
        BY <1>1, <1>2, <2>1, <2>2, <2>3, LinkKeepers DEF LinkDraft, At
<1>3. CASE LinkJob(r)
    <2>1. proc[r].job \in Requests
        BY <1>3 DEF LinkJob, At, TypeInv, TypeOK, ProcType, LocalsOK, LocalOK, Decided
    <2>2. <<"job", proc[r].job>> # None /\ "Complete" \notin Fresh
        BY <2>1, DraftSendAssumption DEF Drafts, Fresh, Unowned
    <2>3. \/ Writes(Slot(r), Linked(r, <<"job", proc[r].job>>)) /\ Goes(r, "Complete")
          \/ keys[Slot(r)].status # "pending" /\ keys' = keys /\ Goes(r, Failing(r))
        BY <1>3, LinkJobMoves
    <2>. QED
        BY <1>1, <1>3, <2>2, <2>3, LinkKeepers DEF LinkJob, At
<1>4. CASE Complete(r) \/ CompleteReplay(r)
    <2>1. ~Keeps(proc[r]) /\ proc[r].pc \in {"Complete", "CompleteReplay"}
        BY <1>4 DEF Complete, CompleteReplay, At, Keeps, Sending, UndoSteps
    <2>2. Result(r) # None
        <3>1. proc[r].job \in Requests /\ proc[r].draft \in Drafts
            BY <2>1 DEF TypeInv, TypeOK, ProcType, LocalsOK, LocalOK, Decided
        <3>. QED
            BY <3>1, DraftSendAssumption DEF Drafts, Result
    <2>3. Done(r).resource # None
        BY <1>1, <2>2, SlotTypes DEF Done, KeyRecords
    <2>4. \E s \in {"accepted", "ReleaseKey", "refused"} :
            Goes(r, s) /\ (Writes(Slot(r), Done(r)) \/ keys' = keys)
        BY <1>4, CompleteMoves, CompleteReplayMoves DEF Failing
    <2>. QED
        BY <1>1, <2>1, <2>3, <2>4, SettledKeepers, QuietKeepers DEF Goes, Fresh, Unowned
<1>5. CASE ReleaseKey(r)
    <2>1. KeeperFrame(r) /\ proc'[r].pc = "refused"
        BY <1>1, <1>5, ReleaseKeyMoves DEF KeeperFrame, Goes, Moves, OnlyMoves, Writes
    <2>2. FreshInv'
        BY <2>1, FreshMoves DEF ResumeInv, KeeperFrame, Fresh, Unowned
    <2>3. Slot(r) \in Slots
        BY <1>1, SlotTypes
    <2>4. \A u \in Slots : u = Slot(r) => ~Awaited(u)'
        BY <1>5, <2>3 DEF ReleaseKey, Awaited, NoRecord, TypeInv, TypeOK
    <2>. QED
        BY <2>1, <2>2, <2>4, KeepersMove DEF ResumeInv
<1>. QED
    BY <1>2, <1>3, <1>4, <1>5, CheckKeyKeepers, InsertKeyKeepers DEF KeyStep

LEMMA SendKeepers ==
    ASSUME TypeInv, ResumeInv, NEW r \in Requests,
           Validate(r) \/ Create(r) \/ CancelDraft(r) \/ EnqueueStep(r)
    PROVE  ResumeInv'
<1>0. keys' = keys /\ failed' = failed
    BY DEF Validate, Create, CancelDraft, EnqueueStep, Load, Claim, Thread, AssignThread,
       Reserve, InsertMessage, InsertJob, SendToQueue, historyVars
<1>a. \A s \in Sending \union UndoSteps \union {"ReleaseKey", "Create", "LinkDraft", "refused"} :
        s \notin Fresh
    BY DEF Sending, UndoSteps, Fresh, Unowned
<1>b. \A s \in Sending \union UndoSteps :
        s \notin {"Create", "LinkDraft", "ReleaseKey", "Validate", "LinkJob"}
    BY DEF Sending, UndoSteps
<1>1. CASE Validate(r)
    <2>1. proc[r].pc = "Validate" /\ ~proc[r].replay
        BY <1>1 DEF Validate, At, ResumeInv, FreshInv, Fresh
    <2>2. CASE Goes(r, IF proc[r].kind = "send" THEN "Load" ELSE "Create")
        <3>. DEFINE s == IF proc[r].kind = "send" THEN "Load" ELSE "Create"
        <3>1. Keeps(proc[r]) => Keeps(proc'[r])
            BY <2>1, <2>2 DEF Keeps, Goes, Moves, KeepsRelease, KeepsReplay, Sending, UndoSteps
        <3>2. s \notin Fresh
            BY <1>a DEF Sending
        <3>. HIDE DEF s
        <3>3. Moves(r, s)
            BY <2>2 DEF s, Goes
        <3>. QED
            BY <1>0, <3>1, <3>2, <3>3, QuietKeepers
    <2>3. CASE Goes(r, Failing(r))
        <3>1. Keeps(proc[r]) => Keeps(proc'[r])
            BY <2>1, <2>3 DEF Keeps, Goes, Moves, Failing, Sending, UndoSteps
        <3>. QED
            BY <1>0, <1>a, <2>3, <3>1, QuietKeepers DEF Goes, Failing
    <2>. QED
        BY <1>1, <2>2, <2>3, ValidateMoves
<1>2. CASE Create(r)
    <2>. DEFINE s == IF proc[r].key = None \/ proc[r].kind = "workflow"
                     THEN "Load" ELSE "LinkDraft"
    <2>1. Moves(r, s)
        BY <1>2, CreateMoves
    <2>2. s \notin Fresh
        BY <1>a DEF Sending
    <2>3. Keeps(proc[r]) => Keeps(proc'[r])
        BY <2>1 DEF Keeps, Moves
    <2>. HIDE DEF s
    <2>. QED
        BY <1>0, <2>1, <2>2, <2>3, QuietKeepers
<1>3. CASE CancelDraft(r)
    <2>1. Goes(r, "cancelled") /\ ~Keeps(proc[r]) /\ "cancelled" \notin Fresh
        BY <1>3, CancelDraftMoves
           DEF CancelDraft, At, Keeps, Sending, UndoSteps, Fresh, Unowned
    <2>. QED
        BY <1>0, <2>1, QuietKeepers DEF Goes
<1>4. CASE SendToQueue(r)
    <2>1. Moves(r, AfterQueue(r)) /\ KeepsReplay(r) /\ proc[r].pc = "Queue"
        BY <1>4, SendToQueueMoves DEF SendToQueue, At
    <2>2. AfterQueue(r) \notin Fresh
        BY DEF AfterQueue, Fresh, Unowned
    <2>3. Keeps(proc[r]) => AfterQueue(r) = "LinkJob" /\ proc[r].kind = "send"
        BY <2>1 DEF Keeps, AfterQueue
    <2>4. Keeps(proc[r]) => Keeps(proc'[r])
        BY <2>1, <2>3 DEF Keeps, Moves
    <2>. QED
        BY <1>0, <2>1, <2>2, <2>4, QuietKeepers
<1>5. CASE Load(r) \/ Claim(r) \/ Thread(r) \/ AssignThread(r) \/ Reserve(r)
             \/ InsertMessage(r) \/ InsertJob(r)
    <2>1. proc[r].pc \in Sending
        BY <1>5 DEF Load, Claim, Thread, AssignThread, Reserve, InsertMessage, InsertJob, At,
           Sending
    <2>2. \/ \E s \in Sending \union UndoSteps : Moves(r, s) /\ KeepsRelease(r) /\ KeepsReplay(r)
          \/ Goes(r, Failing(r))
        <3>1. {"Load", "Claim", "Thread", "AssignThread", "Reserve", "Message", "Job", "Queue",
               "UndoDraft", "UndoMessage"} \subseteq Sending \union UndoSteps
            BY DEF Sending, UndoSteps
        <3>. QED
            BY <1>5, <3>1, LoadActionMoves, ClaimMoves, ThreadActionMoves, AssignThreadMoves,
               ReserveActionMoves, InsertMessageMoves, InsertJobMoves DEF Goes
    <2>3. CASE Goes(r, Failing(r))
        <3>1. Keeps(proc[r]) => Keeps(proc'[r])
            BY <1>b, <2>1, <2>3 DEF Keeps, Goes, Moves, Failing
        <3>. QED
            BY <1>0, <1>a, <2>3, <3>1, QuietKeepers DEF Goes, Failing
    <2>4. ASSUME NEW s \in Sending \union UndoSteps, Moves(r, s), KeepsRelease(r), KeepsReplay(r)
          PROVE  ResumeInv'
        <3>1. Keeps(proc[r]) => Keeps(proc'[r])
            BY <1>b, <2>1, <2>4 DEF Keeps, Moves, KeepsRelease, KeepsReplay
        <3>. QED
            BY <1>0, <1>a, <2>4, <3>1, QuietKeepers
    <2>. QED
        BY <2>2, <2>3, <2>4
<1>. QED
    BY <1>1, <1>2, <1>3, <1>4, <1>5 DEF EnqueueStep

LEMMA BackKeepers ==
    ASSUME TypeInv, ResumeInv, NEW r \in Requests,
           proc[r].pc \in Sending \union UndoSteps, keys' = keys, failed \subseteq failed',
           NEW s \in UndoSteps \union {"ReleaseKey", "refused"}, Goes(r, s),
           s = "ReleaseKey" <=> proc[r].releases /\ s \notin UndoSteps
    PROVE  ResumeInv'
<1>1. s \notin Fresh
    BY DEF UndoSteps, Fresh, Unowned
<1>2. Keeps(proc[r]) => Keeps(proc'[r])
    BY DEF Keeps, Goes, Moves, KeepsRelease, KeepsReplay, Sending, UndoSteps
<1>. QED
    BY <1>1, <1>2, QuietKeepers DEF Goes

LEMMA ReplayKeepers ==
    ASSUME TypeInv, ResumeInv, NEW r \in Requests, ReplayStep(r)
    PROVE  ResumeInv'
<1>1. keys' = keys /\ failed' = failed
    BY DEF ReplayStep, ValidateReplay, FindDraft, FindJob, FindMessage, Reread, historyVars
<1>2. proc[r].pc \in ReplaySteps
    BY DEF ReplayStep, ValidateReplay, FindDraft, FindJob, FindMessage, Reread, At, ReplaySteps
<1>3. ~Keeps(proc[r])
    BY <1>2 DEF ReplaySteps, Keeps, Sending, UndoSteps
<1>4. \E s \in {"accepted", "refused", "ReleaseKey", "FindDraft", "FindJob", "Load",
                "FindMessage", "CompleteReplay"} : Moves(r, s)
    BY ValidateReplayMoves, FindDraftMoves, FindJobMoves, FindMessageMoves, RereadMoves
       DEF ReplayStep, Goes, Failing
<1>. QED
    BY <1>1, <1>3, <1>4, QuietKeepers DEF Fresh, Unowned

(* A crash or a throw is what the promise excepts; a queue or a rollback   *)
(* that fails still gives the key back.                                    *)
LEMMA FailureKeepers ==
    ASSUME TypeInv, ResumeInv, NEW r \in Requests, Failure(r)
    PROVE  ResumeInv'
<1>1. keys' = keys /\ failed \subseteq failed'
    BY DEF Failure, Crash, Throw, QueueFails, QueueFailsLate, UndoFails, Suffer
<1>2. CASE Crash(r) \/ Throw(r)
    <2>1. \E s \in UndoSteps \union {"dead", "accepted", "refused", "ReleaseKey"} : Goes(r, s)
        BY <1>2, CrashMoves, ThrowMoves DEF Failing, UndoSteps
    <2>2. OnlyMoves(r) /\ proc'[r].pc \notin Fresh
        BY <2>1 DEF Goes, Moves, OnlyMoves, UndoSteps, Fresh, Unowned
    <2>3. ~Unbroken'
        BY <1>2 DEF Crash, Throw, Suffer, Unbroken
    <2>. QED
        BY <2>2, <2>3, FreshMoves DEF ResumeInv, KeepersInv
<1>3. CASE QueueFails(r) \/ QueueFailsLate(r)
    <2>1. /\ proc[r].pc \in Sending
          /\ \E s \in UndoSteps : Goes(r, s)
        BY <1>3, QueueFailsMoves DEF Sending, UndoSteps
    <2>2. "ReleaseKey" \notin UndoSteps
        BY DEF UndoSteps
    <2>. QED
        BY <1>1, <2>1, <2>2, BackKeepers
<1>4. CASE UndoFails(r)
    BY <1>1, <1>4, UndoFailsMoves, BackKeepers
<1>. QED
    BY <1>2, <1>3, <1>4 DEF Failure

LEMMA ArriveKeepers ==
    ASSUME TypeInv, ResumeInv, NEW r \in Requests, Arrive(r)
    PROVE  ResumeInv'
<1>1. OnlyMoves(r) /\ ~proc'[r].replay /\ keys' = keys /\ failed' = failed
    BY ArriveMoves DEF Arrive, OnlyMoves, Arrived, historyVars, TypeInv
<1>2. FreshInv'
    BY <1>1, FreshMoves DEF ResumeInv
<1>3. ~Keeps(proc[r])
    BY DEF Arrive, At, Keeps, Sending, UndoSteps
<1>4. ASSUME Unbroken, NEW s \in Slots, Awaited(s)
      PROVE  \E q \in Requests : Slot(q)' = s /\ Keeps(proc'[q])
    <2>1. PICK q \in Requests : Slot(q) = s /\ Keeps(proc[q])
        BY <1>4 DEF ResumeInv, KeepersInv
    <2>2. proc'[q] = proc[q]
        BY <1>1, <1>3, <2>1 DEF OnlyMoves
    <2>. QED
        BY <2>1, <2>2 DEF Slot, Operation
<1>5. KeepersInv'
    BY <1>1, <1>4 DEF KeepersInv, Keeps, Unbroken, Awaited
<1>. QED
    BY <1>2, <1>5 DEF ResumeInv

(* The cron job deletes a record, or nothing of this happens.              *)
LEMMA OtherKeepers ==
    ASSUME TypeInv, ResumeInv, proc' = proc, failed' = failed,
           \/ keys' = keys
           \/ \E s \in Slots : Writes(s, NoRecord)
    PROVE  ResumeInv'
<1>1. FreshInv'
    BY DEF ResumeInv, FreshInv
<1>2. \A s \in Slots : Awaited(s)' => Awaited(s)
    BY DEF Awaited, Writes, NoRecord
<1>3. \A q \in Requests : Slot(q)' = Slot(q) /\ proc'[q] = proc[q]
    BY DEF Slot, Operation
<1>4. KeepersInv'
    <2>. SUFFICES ASSUME Unbroken', NEW s \in Slots, Awaited(s)'
                  PROVE  \E q \in Requests : Slot(q)' = s /\ Keeps(proc'[q])
        BY DEF KeepersInv, Keeps
    <2>1. PICK q \in Requests : Slot(q) = s /\ Keeps(proc[q])
        BY <1>2 DEF ResumeInv, KeepersInv, Unbroken
    <2>. QED
        BY <1>3, <2>1
<1>. QED
    BY <1>1, <1>4 DEF ResumeInv

LEMMA KeepersStep ==
    ASSUME TypeInv, ResumeInv, [Next]_vars
    PROVE  ResumeInv'
<1>1. ASSUME NEW r \in Requests, RequestStep(r)
      PROVE  ResumeInv'
    <2>1. CASE Undo(r)
        <3>1. keys' = keys /\ failed' = failed
            BY <2>1 DEF Undo, historyVars
        <3>. QED
            BY <2>1, <3>1, UndoMoves, BackKeepers
    <2>. QED
        BY <1>1, <2>1, KeyKeepers, SendKeepers, ReplayKeepers DEF RequestStep
<1>2. ASSUME NEW r \in Requests, Arrive(r) \/ Failure(r)
      PROVE  ResumeInv'
    BY <1>2, ArriveKeepers, FailureKeepers
<1>3. ASSUME NEW j \in Requests, Consume(j)
      PROVE  ResumeInv'
    BY <1>3, OtherKeepers DEF Consume, historyVars
<1>4. ASSUME NEW s \in Slots, Prune(s)
      PROVE  ResumeInv'
    BY <1>4, PruneTypes, OtherKeepers DEF Prune
<1>5. CASE UNCHANGED vars
    BY <1>5, OtherKeepers DEF vars, historyVars
<1>. QED
    BY <1>1, <1>2, <1>3, <1>4, <1>5 DEF Next

LEMMA InitKeepers ==
    ASSUME Init
    PROVE  ResumeInv
BY DEF Init, ResumeInv, FreshInv, KeepersInv, Awaited, IdleProc, NoRecord, Slots

(* A request that failed under a key can be retried under it: unless it    *)
(* died or a statement failed, no key stays pending without the draft or   *)
(* job that updateIdempotencyKeyResource records for the retry. Whoever    *)
(* reserved the key records one, or the catch block deletes the key.       *)
THEOREM DraftKeysResume == Spec => []PendingKeysResume
<1>1. Init => TypeInv /\ ResumeInv
    BY InitTypes, InitKeepers
<1>2. TypeInv /\ ResumeInv /\ [Next]_vars => TypeInv' /\ ResumeInv'
    BY TypeStep, KeepersStep
<1>3. TypeInv /\ ResumeInv => PendingKeysResume
    <2>. SUFFICES ASSUME TypeInv, ResumeInv, AtRest, Unbroken, NEW s \in Slots, Awaited(s)
                  PROVE  FALSE
        BY DEF PendingKeysResume, Unbroken, Awaited
    <2>1. PICK r \in Requests : Keeps(proc[r])
        BY DEF ResumeInv, KeepersInv
    <2>2. proc[r].pc \in Steps
        BY <2>1 DEF Keeps, Steps, EnqueueSteps, UndoSteps, KeySteps, Sending
    <2>. QED
        BY <2>2 DEF AtRest, Running
<1>. QED
    BY <1>1, <1>2, <1>3, PTL DEF Spec

-----------------------------------------------------------------------------
(* Answers under one key.                                                  *)

Calm == {"queue", "ambiguous"} \intersect failed = {}

(* While the queue takes what it is sent, a job stays with its message.    *)
Draws(j, d) == j \in Requests /\ job[j].status # "none" /\ job[j].draft = d
Firm(r) ==
    /\ proc[r].pc # "UndoJob"
    /\ proc[r].pc = "UndoMessage" => job[r].status = "none"
    /\ job[r].status # "none" => message[r] # None
FirmInv == Calm => \A r \in Requests : Firm(r)

(* What a record with fingerprint f names: a send's job, or the draft of a *)
(* create-and-send, and the job that it was answered with.                 *)
ResourceOK(f, x) == f \in Drafts /\ x # None => x[1] = "job" /\ Draws(x[2], f)
ResponseOK(f, x, j) ==
    /\ f \in ReplaysDraft => Draws(j, x[2])
    /\ f \in Drafts => Draws(j, f)
RecordOK(k) ==
    /\ ResourceOK(k.what, k.resource)
    /\ k.response # None => k.status = "completed" /\ ResponseOK(k.what, k.resource, k.response)

(* What a request goes on with, and what it has answered.                  *)
Answered(r, k) ==
    /\ k.status # "none" /\ k.what = Fingerprint(r) /\ k.resource # None
    /\ proc[r].job # None /\ ResponseOK(k.what, k.resource, proc[r].job)
Knows(r) ==
    LET p == proc[r] IN
    /\ p.pc \in Informed => ResourceOK(Fingerprint(r), p.resource)
    /\ p.pc = "ValidateReplay" /\ p.job # None => ResponseOK(Fingerprint(r), p.resource, p.job)
    /\ p.pc \in Decided \/ (p.pc = "LinkDraft" /\ p.kind = "workflow") => Draws(p.job, p.draft)
    /\ p.pc = "accepted" => Answered(r, KeyOf(r))

KnowsInv == \A r \in Requests : Keyed(r) => Knows(r)
RecordsInv == \A k \in Keys : <<"draft_send", k>> \notin lapsed => RecordOK(keys[<<"draft_send", k>>])
AnswersInv == FirmInv /\ (Calm => KnowsInv /\ RecordsInv)

LEMMA FirmMoves ==
    ASSUME FirmInv, NEW r \in Requests, OnlyMoves(r), failed \subseteq failed',
           \A q \in Requests \ {r} : job'[q] = job[q] /\ message'[q] = message[q],
           Calm' /\ Calm /\ Firm(r) => Firm(r)'
    PROVE  FirmInv'
<1>. SUFFICES ASSUME Calm' PROVE \A q \in Requests : Firm(q)'
    BY DEF FirmInv
<1>1. Calm /\ \A q \in Requests : Firm(q)
    BY DEF Calm, FirmInv
<1>2. \A q \in Requests \ {r} : Firm(q)'
    BY <1>1 DEF OnlyMoves, Firm
<1>. QED
    BY <1>1, <1>2

(* A step that leaves the rows alone and starts no rollback of them.       *)
LEMMA FirmQuiet ==
    ASSUME FirmInv, NEW r \in Requests, OnlyMoves(r), failed \subseteq failed',
           job' = job, message' = message, proc'[r].pc \notin {"UndoJob", "UndoMessage"}
    PROVE  FirmInv'
BY FirmMoves DEF Firm

LEMMA RequestFails ==
    ASSUME NEW r \in Requests, RequestStep(r)
    PROVE  failed' = failed
<1>1. CASE CancelDraft(r) \/ Validate(r) \/ Create(r) \/ Undo(r)
    BY <1>1 DEF CancelDraft, Validate, Create, Undo, historyVars
<1>2. CASE KeyStep(r)
    BY <1>2 DEF KeyStep, CheckKey, InsertKey, RecheckKey, LinkDraft, LinkJob, Complete,
       CompleteReplay, ReleaseKey, historyVars
<1>3. CASE EnqueueStep(r)
    BY <1>3 DEF EnqueueStep, Load, Claim, Thread, AssignThread, Reserve, InsertMessage,
       InsertJob, SendToQueue, historyVars
<1>4. CASE ReplayStep(r)
    BY <1>4 DEF ReplayStep, ValidateReplay, FindDraft, FindJob, FindMessage, Reread, historyVars
<1>. QED
    BY <1>1, <1>2, <1>3, <1>4 DEF RequestStep

LEMMA FirmRequest ==
    ASSUME TypeInv, RowsInv, FirmInv, NEW r \in Requests, RequestStep(r)
    PROVE  FirmInv'
<1>1. OnlyMoves(r) /\ failed' = failed
    BY RequestFails, RequestTypes, LocalMoves
<1>2. RowsOf(r) /\ proc[r] \in ProcType
    BY DEF RowsInv, TypeInv, TypeOK
<1>3. CASE InsertMessage(r)
    <2>1. proc[r].pc = "Message" /\ job' = job /\ proc'[r].pc = "Job"
        BY <1>3, InsertMessageMoves DEF InsertMessage, At, Goes, Moves
    <2>2. \A q \in Requests \ {r} : message'[q] = message[q]
        BY <1>3 DEF InsertMessage, TypeInv, TypeOK
    <2>3. job[r].status = "none"
        BY <1>2, <2>1 DEF RowsOf, Early, Sending
    <2>. QED
        BY <1>1, <2>1, <2>2, <2>3, FirmMoves DEF Firm
<1>4. CASE InsertJob(r)
    <2>1. proc[r].pc = "Job" /\ message' = message
        BY <1>4 DEF InsertJob, At
    <2>2. message[r] # None /\ job[r].status = "none"
        BY <1>2, <2>1 DEF RowsOf, Early, Sending
    <2>3. /\ \A q \in Requests \ {r} : job'[q] = job[q]
          /\ \/ proc'[r].pc = "Queue"
             \/ proc'[r].pc = "UndoMessage" /\ job' = job
        BY <1>4, InsertJobMoves DEF Goes, Moves, TypeInv, TypeOK
    <2>. QED
        BY <1>1, <2>1, <2>2, <2>3, FirmMoves DEF Firm
<1>5. CASE Undo(r)
    <2>1. \A q \in Requests \ {r} : job'[q] = job[q] /\ message'[q] = message[q]
        BY <1>5 DEF Undo, UndoJob, UndoMessage, UndoDraft, UndoThread, UndoCredits, TypeInv, TypeOK
    <2>2. proc[r].pc # "UndoJob" =>
            /\ job' = job
            /\ message' = message \/ proc[r].pc = "UndoMessage"
            /\ AfterUndo(r) \notin {"UndoJob", "UndoMessage"}
        BY <1>5 DEF Undo, UndoJob, UndoMessage, UndoDraft, UndoThread, UndoCredits, At, AfterUndo
    <2>3. proc'[r].pc = AfterUndo(r)
        BY <1>5, <1>2 DEF Undo, Go, TypeInv, TypeOK, ProcType
    <2>. QED
        BY <1>1, <2>1, <2>2, <2>3, FirmMoves DEF Firm
<1>6. CASE CancelDraft(r) \/ Validate(r) \/ Create(r) \/ KeyStep(r) \/ ReplayStep(r)
    <2>1. job' = job /\ message' = message
        BY <1>6 DEF CancelDraft, Validate, Create, KeyStep, CheckKey, InsertKey, RecheckKey,
           LinkDraft, LinkJob, Complete, CompleteReplay, ReleaseKey, ReplayStep,
           ValidateReplay, FindDraft, FindJob, FindMessage, Reread, sendVars
    <2>2. CASE CheckKey(r) \/ RecheckKey(r)
        <3>1. proc[r].pc # "idle" /\ keys[Slot(r)] \in KeyRecords
            BY <2>2, HasKey, SlotTypes DEF CheckKey, RecheckKey, At, KeySteps
        <3>2. Answer(r, keys[Slot(r)]) => \E s \in {"ValidateReplay", "refused"} : Moves(r, s)
            BY <3>1, AnswerMoves DEF TypeInv
        <3>3. Go(r, "InsertKey") => Moves(r, "InsertKey")
            BY GoMoves DEF TypeInv, Pcs, Steps, KeySteps, Goes
        <3>4. Fail(r) => Moves(r, Failing(r))
            BY <3>1, FailMoves DEF Goes, Failing
        <3>. QED
            BY <1>1, <2>1, <2>2, <3>2, <3>3, <3>4, FirmQuiet
               DEF CheckKey, RecheckKey, Moves, Failing
    <2>3. CASE CancelDraft(r) \/ Validate(r) \/ Create(r)
        BY <1>1, <2>1, <2>3, CancelDraftMoves, ValidateMoves, CreateMoves, FirmQuiet
           DEF Goes, Moves, Failing
    <2>4. CASE InsertKey(r) \/ LinkDraft(r) \/ LinkJob(r)
        BY <1>1, <2>1, <2>4, InsertKeyMoves, LinkDraftMoves, LinkJobMoves, FirmQuiet
           DEF Goes, Moves, Failing
    <2>5. CASE Complete(r) \/ CompleteReplay(r) \/ ReleaseKey(r)
        BY <1>1, <2>1, <2>5, CompleteMoves, CompleteReplayMoves, ReleaseKeyMoves, FirmQuiet
           DEF Goes, Moves, Failing
    <2>6. CASE ReplayStep(r)
        <3>1. \E s \in {"accepted", "refused", "ReleaseKey", "FindDraft", "FindJob", "Load",
                        "FindMessage", "CompleteReplay"} : Moves(r, s)
            BY <2>6, ValidateReplayMoves, FindDraftMoves, FindJobMoves, FindMessageMoves,
               RereadMoves DEF ReplayStep, Goes, Failing
        <3>. QED
            BY <1>1, <2>1, <3>1, FirmQuiet DEF Moves
    <2>. QED
        BY <1>6, <2>2, <2>3, <2>4, <2>5, <2>6 DEF KeyStep
<1>7. CASE Load(r) \/ Claim(r) \/ Thread(r) \/ AssignThread(r) \/ Reserve(r) \/ SendToQueue(r)
    <2>1. job' = job /\ message' = message
        BY <1>7 DEF Load, Claim, Thread, AssignThread, Reserve, SendToQueue, sendVars
    <2>2. AfterQueue(r) \notin {"UndoJob", "UndoMessage"}
        BY DEF AfterQueue
    <2>. QED
        BY <1>1, <1>7, <2>1, <2>2, LoadActionMoves, ClaimMoves, ThreadActionMoves,
           AssignThreadMoves, ReserveActionMoves, SendToQueueMoves, FirmQuiet
           DEF Goes, Moves, Failing
<1>. QED
    BY <1>3, <1>4, <1>5, <1>6, <1>7 DEF RequestStep, EnqueueStep

LEMMA FirmFailure ==
    ASSUME TypeInv, RowsInv, FirmInv, NEW r \in Requests, Failure(r)
    PROVE  FirmInv'
<1>1. OnlyMoves(r)
    BY CrashMoves, ThrowMoves, QueueFailsMoves, UndoFailsMoves, LocalMoves DEF Failure
<1>2. job' = job /\ message' = message /\ failed \subseteq failed'
    BY DEF Failure, Crash, Throw, QueueFails, QueueFailsLate, UndoFails, Suffer, sendVars
<1>3. RowsOf(r) /\ proc[r] \in ProcType
    BY DEF RowsInv, TypeInv, TypeOK
<1>4. CASE QueueFails(r) \/ QueueFailsLate(r)
    <2>1. ~Calm'
        BY <1>4 DEF QueueFails, QueueFailsLate, Suffer, Calm
    <2>. QED
        BY <2>1 DEF FirmInv
<1>5. CASE Throw(r)
    <2>1. /\ proc'[r].pc # "UndoJob"
          /\ proc'[r].pc = "UndoMessage" => proc[r].pc = "Job"
        <3>1. proc[r].pc \notin UndoSteps \union {"Queue"}
            BY <1>5 DEF Throw
        <3>2. CASE proc[r].pc \in {"Thread", "AssignThread", "Reserve", "Message", "Job"}
            <4>1. Rollback(r)
                BY <1>5, <3>2 DEF Throw
            <4>. QED
                BY <1>3, <3>1, <4>1 DEF Rollback, Go, TypeInv, TypeOK, ProcType
        <3>3. CASE proc[r].pc \notin {"Thread", "AssignThread", "Reserve", "Message", "Job"}
            <4>1. Fail(r) \/ Go(r, "accepted") \/ Go(r, "refused")
                BY <1>5, <3>3 DEF Throw
            <4>. QED
                BY <1>3, <4>1 DEF Fail, Go, TypeInv, TypeOK, ProcType
        <3>. QED
            BY <3>2, <3>3
    <2>2. proc[r].pc = "Job" => job[r].status = "none"
        BY <1>3 DEF RowsOf, Early, Sending
    <2>. QED
        BY <1>1, <1>2, <2>1, <2>2, FirmMoves DEF Firm
<1>6. CASE Crash(r)
    BY <1>1, <1>2, <1>6, CrashMoves, FirmQuiet DEF Goes, Moves
<1>7. CASE UndoFails(r)
    <2>1. proc'[r].pc = AfterUndo(r) /\ proc[r].pc \in UndoSteps
        BY <1>3, <1>7 DEF UndoFails, Go, TypeInv, TypeOK, ProcType
    <2>2. proc[r].pc # "UndoJob" => AfterUndo(r) \notin {"UndoJob", "UndoMessage"}
        BY DEF AfterUndo
    <2>. QED
        BY <1>1, <1>2, <2>1, <2>2, FirmMoves DEF Firm
<1>. QED
    BY <1>4, <1>5, <1>6, <1>7 DEF Failure

LEMMA FirmStep ==
    ASSUME TypeInv, RowsInv, FirmInv, [Next]_vars
    PROVE  FirmInv'
<1>1. ASSUME NEW r \in Requests, Arrive(r)
      PROVE  FirmInv'
    <2>1. OnlyMoves(r) /\ proc'[r].pc \notin {"UndoJob", "UndoMessage"}
        BY <1>1, ArriveMoves DEF OnlyMoves, Arrived, TypeInv
    <2>2. job' = job /\ message' = message /\ failed' = failed
        BY <1>1 DEF Arrive, sendVars, historyVars
    <2>. QED
        BY <2>1, <2>2, FirmQuiet
<1>2. ASSUME NEW j \in Requests, Consume(j)
      PROVE  FirmInv'
    <2>1. message' = message /\ failed' = failed /\ proc' = proc
        BY <1>2 DEF Consume, historyVars
    <2>2. \A q \in Requests : job'[q].status = "none" <=> job[q].status = "none"
        <3>1. CASE job' = job
            BY <3>1
        <3>2. ASSUME NEW v \in {"sent", "failed"}, job[j].status = "queued",
                     job' = [job EXCEPT ![j].status = v]
              PROVE  \A q \in Requests : job'[q].status = "none" <=> job[q].status = "none"
            BY <3>2 DEF TypeInv, TypeOK
        <3>. QED
            BY <1>2, <3>1, <3>2 DEF Consume, Consumed
    <2>. QED
        BY <2>1, <2>2 DEF FirmInv, Firm, Calm
<1>3. ASSUME NEW s \in Slots, Prune(s)
      PROVE  FirmInv'
    BY <1>3 DEF Prune, sendVars, FirmInv, Firm, Calm
<1>4. CASE UNCHANGED vars
    BY <1>4 DEF vars, sendVars, historyVars, FirmInv, Firm, Calm
<1>. QED
    BY <1>1, <1>2, <1>3, <1>4, FirmRequest, FirmFailure DEF Next

(* While the queue takes what it is sent, no job is taken back.            *)
DrawsGrow == \A j, d : Draws(j, d) => Draws(j, d)'

LEMMA SameDraws ==
    ASSUME job' = job
    PROVE  DrawsGrow
BY DEF DrawsGrow, Draws

LEMMA DrawsStay ==
    ASSUME TypeInv, RowsInv, FirmInv, Calm', [Next]_vars
    PROVE  DrawsGrow
<1>0. Calm
    <2>1. failed \subseteq failed'
        BY RequestFails DEF Next, Arrive, Failure, Crash, Throw, QueueFails, QueueFailsLate,
           UndoFails, Suffer, Consume, Prune, vars, historyVars
    <2>. QED
        BY <2>1 DEF Calm
<1>1. ASSUME NEW r \in Requests, InsertJob(r)
      PROVE  DrawsGrow
    <2>1. job[r].status = "none"
        BY <1>1 DEF RowsInv, RowsOf, Early, Sending, InsertJob, At
    <2>2. \A q \in Requests \ {r} : job'[q] = job[q]
        BY <1>1 DEF InsertJob, TypeInv, TypeOK
    <2>. QED
        BY <2>1, <2>2 DEF DrawsGrow, Draws
<1>2. ASSUME NEW r \in Requests, Undo(r)
      PROVE  DrawsGrow
    <2>1. proc[r].pc # "UndoJob"
        BY <1>0 DEF FirmInv, Firm
    <2>2. job' = job
        BY <1>2, <2>1 DEF Undo, UndoJob, UndoMessage, UndoDraft, UndoThread, UndoCredits, At
    <2>. QED
        BY <2>2, SameDraws
<1>3. ASSUME NEW j \in Requests, Consume(j)
      PROVE  DrawsGrow
    <2>1. CASE job' = job
        BY <2>1, SameDraws
    <2>2. ASSUME NEW v \in {"sent", "failed"}, job[j].status = "queued",
                 job' = [job EXCEPT ![j].status = v]
          PROVE  DrawsGrow
        <3>1. \A q \in Requests : /\ job'[q].status = "none" <=> job[q].status = "none"
                                  /\ job'[q].draft = job[q].draft
            BY <2>2 DEF TypeInv, TypeOK
        <3>. QED
            BY <3>1 DEF DrawsGrow, Draws
    <2>. QED
        BY <1>3, <2>1, <2>2 DEF Consume, Consumed
<1>4. ASSUME NEW r \in Requests, RequestStep(r)
      PROVE  DrawsGrow
    <2>1. CASE CancelDraft(r) \/ Validate(r) \/ Create(r) \/ KeyStep(r) \/ ReplayStep(r)
        <3>1. job' = job
            BY <2>1 DEF CancelDraft, Validate, Create, KeyStep, CheckKey, InsertKey, RecheckKey,
               LinkDraft, LinkJob, Complete, CompleteReplay, ReleaseKey, ReplayStep,
               ValidateReplay, FindDraft, FindJob, FindMessage, Reread, sendVars
        <3>. QED
            BY <3>1, SameDraws
    <2>2. CASE EnqueueStep(r) /\ ~InsertJob(r)
        <3>1. job' = job
            BY <2>2 DEF EnqueueStep, Load, Claim, Thread, AssignThread, Reserve, InsertMessage,
               SendToQueue, sendVars
        <3>. QED
            BY <3>1, SameDraws
    <2>. QED
        BY <1>1, <1>2, <1>4, <2>1, <2>2 DEF RequestStep, EnqueueStep
<1>5. CASE job' = job
    BY <1>5, SameDraws
<1>6. ASSUME NEW r \in Requests, Arrive(r) \/ Failure(r)
      PROVE  job' = job
    BY <1>6 DEF Arrive, Failure, Crash, Throw, QueueFails, QueueFailsLate, UndoFails, sendVars
<1>7. ASSUME NEW s \in Slots, Prune(s)
      PROVE  job' = job
    BY <1>7 DEF Prune, sendVars
<1>8. UNCHANGED vars => job' = job
    BY DEF vars, sendVars
<1>. QED
    BY <1>3, <1>4, <1>5, <1>6, <1>7, <1>8 DEF Next

(* What another request may do to a record that was answered from.         *)
Reanswers(k, l) ==
    /\ l.status # "none" /\ l.what = k.what /\ l.resource # None
    /\ k.what \in ReplaysDraft => l.resource = k.resource

LEMMA SharedKeyed ==
    ASSUME TypeInv, NEW q \in Requests, NEW r \in Requests, Keyed(q), Slot(q) = Slot(r)
    PROVE  Keyed(r)
<1>1. Operation(r) = "draft_send" /\ proc[r].key = proc[q].key
    BY DEF Keyed, Client, Slot, Operation
<1>2. proc[r].kind \in Kinds /\ (proc[r].kind = "cancel" => proc[r].key = None)
    BY DEF TypeInv, TypeOK, ProcType, LocalsOK, LocalOK
<1>. QED
    BY <1>1, <1>2 DEF Keyed, Client, Operation, Kinds

LEMMA RecordGrows ==
    ASSUME DrawsGrow, NEW f, NEW x, NEW j
    PROVE  /\ ResourceOK(f, x) => ResourceOK(f, x)'
           /\ ResponseOK(f, x, j) => ResponseOK(f, x, j)'
BY DEF DrawsGrow, ResourceOK, ResponseOK

LEMMA RecordStays ==
    ASSUME DrawsGrow, NEW k, RecordOK(k)
    PROVE  RecordOK(k)'
BY RecordGrows DEF RecordOK

LEMMA KnowsKept ==
    ASSUME DrawsGrow, NEW q \in Requests, proc'[q] = proc[q], Knows(q),
           NEW k, NEW l, KeyOf(q) = k, keys'[Slot(q)] = l,
           l = k \/ (proc[q].pc = "accepted" => Reanswers(k, l))
    PROVE  Knows(q)'
<1>1. Slot(q)' = Slot(q) /\ Fingerprint(q)' = Fingerprint(q) /\ KeyOf(q)' = l
    BY DEF Slot, Operation, Fingerprint, KeyOf
<1>2. /\ proc[q].pc \in Informed => ResourceOK(Fingerprint(q), proc[q].resource)'
      /\ proc[q].pc = "ValidateReplay" /\ proc[q].job # None =>
           ResponseOK(Fingerprint(q), proc[q].resource, proc[q].job)'
    BY <1>1, RecordGrows DEF Knows
<1>3. Draws(proc[q].job, proc[q].draft) => Draws(proc[q].job, proc[q].draft)'
    BY DEF DrawsGrow
<1>4. ASSUME proc[q].pc = "accepted"
      PROVE  Answered(q, KeyOf(q))'
    <2>1. Answered(q, k)
        BY <1>4 DEF Knows
    <2>2. l.status # "none" /\ l.what = k.what /\ l.resource # None
        BY <1>4, <2>1 DEF Answered, Reanswers
    <2>3. l.what \in ReplaysDraft => l.resource = k.resource
        BY <1>4, <2>2 DEF Reanswers
    <2>4. ResponseOK(k.what, k.resource, proc[q].job)'
        BY <2>1, RecordGrows DEF Answered
    <2>5. ResponseOK(l.what, l.resource, proc[q].job)'
        BY <2>2, <2>3, <2>4 DEF ResponseOK
    <2>. QED
        BY <1>1, <2>1, <2>2, <2>5 DEF Answered
<1>. QED
    BY <1>1, <1>2, <1>3, <1>4 DEF Knows

(* It is enough to look at the request that moves, and at those that were  *)
(* answered under the key it writes.                                       *)
LEMMA AnswersMove ==
    ASSUME TypeInv, DrawsGrow, KnowsInv, RecordsInv, NEW r \in Requests, OnlyMoves(r),
           lapsed' = lapsed, Keyed(r)' => Knows(r)',
           \A u \in Slots : u # Slot(r) => keys'[u] = keys[u], NEW l, keys'[Slot(r)] = l,
           keys' # keys /\ Keyed(r) =>
             /\ RecordOK(l)'
             /\ \A q \in Requests : Shares(q, r) /\ proc[q].pc = "accepted" =>
                  Reanswers(KeyOf(r), l)
    PROVE  KnowsInv' /\ RecordsInv'
<1>1. ASSUME NEW q \in Requests, q # r, Keyed(q)'
      PROVE  Knows(q)'
    <2>1. proc'[q] = proc[q] /\ Slot(q)' = Slot(q)
        BY <1>1 DEF OnlyMoves, Slot, Operation
    <2>2. Keyed(q)
        BY <1>1, <2>1 DEF Keyed
    <2>3. Slot(q) \in Slots /\ Knows(q)
        BY <2>2, SlotTypes DEF Keyed, KnowsInv
    <2>4. CASE Slot(q) # Slot(r) \/ keys' = keys
        <3>1. PICK k : KeyOf(q) = k
            OBVIOUS
        <3>2. keys'[Slot(q)] = k
            BY <2>3, <2>4, <3>1 DEF KeyOf
        <3>. QED
            BY <2>1, <2>3, <3>1, <3>2, KnowsKept
    <2>5. CASE Slot(q) = Slot(r) /\ keys' # keys
        <3>1. Keyed(r) /\ Shares(q, r)
            BY <1>1, <2>2, <2>5, SharedKeyed DEF Shares
        <3>2. PICK k : KeyOf(q) = k
            OBVIOUS
        <3>3. (proc[q].pc = "accepted" => Reanswers(k, l)) /\ keys'[Slot(q)] = l
            BY <2>5, <3>1, <3>2 DEF KeyOf
        <3>. QED
            BY <2>1, <2>3, <3>2, <3>3, KnowsKept
    <2>. QED
        BY <2>4, <2>5
<1>2. KnowsInv'
    BY <1>1 DEF KnowsInv
<1>3. ASSUME NEW k \in Keys, <<"draft_send", k>> \notin lapsed'
      PROVE  RecordOK(keys[<<"draft_send", k>>])'
    <2>. DEFINE u == <<"draft_send", k>>
    <2>1. u \in Slots /\ u \notin lapsed
        BY <1>3 DEF Slots, Operations
    <2>2. RecordOK(keys[u])
        BY <2>1 DEF RecordsInv
    <2>0. ASSUME NEW v, keys'[u] = v, RecordOK(v)'
          PROVE  RecordOK(keys[u])'
        BY <2>0 DEF RecordOK, ResourceOK, ResponseOK, Draws
    <2>3. CASE keys'[u] = keys[u]
        <3>1. PICK v : keys[u] = v
            OBVIOUS
        <3>2. RecordOK(v)'
            BY <2>2, <3>1, RecordStays
        <3>. QED
            BY <2>0, <2>3, <3>1, <3>2
    <2>4. CASE keys'[u] # keys[u]
        <3>1. u = Slot(r) /\ keys' # keys
            BY <2>1, <2>4
        <3>2. proc[r].key = k /\ k # None /\ Operation(r) = "draft_send"
            BY <3>1, DraftSendAssumption DEF Slot
        <3>3. Keyed(r)
            BY <2>1, <3>1, <3>2 DEF Keyed, Client, Operation, TypeInv, TypeOK, ProcType, LocalsOK,
               LocalOK, Kinds
        <3>. QED
            BY <2>0, <3>1, <3>3
    <2>. QED
        BY <2>3, <2>4
<1>. QED
    BY <1>2, <1>3 DEF RecordsInv

(* A step that leaves the keys alone and decides nothing.                  *)
Undecided == (Steps \ (Informed \union Decided \union {"LinkDraft"})) \union {"dead", "refused", "cancelled"}

LEMMA AnswersQuiet ==
    ASSUME TypeInv, DrawsGrow, KnowsInv, RecordsInv, NEW r \in Requests, OnlyMoves(r),
           lapsed' = lapsed, keys' = keys,
           proc'[r].pc \in Undecided \/ (proc'[r].pc = "LinkDraft" /\ proc'[r].kind # "workflow")
    PROVE  KnowsInv' /\ RecordsInv'
<1>1. Knows(r)'
    BY DEF Knows, Undecided, Informed, Decided, Steps, EnqueueSteps, UndoSteps, KeySteps,
       ReplaySteps
<1>2. PICK l : keys'[Slot(r)] = l
    OBVIOUS
<1>. QED
    BY <1>1, <1>2, AnswersMove

(* The fingerprint of a client tells what its key names.                   *)
LEMMA ClientPrint ==
    ASSUME TypeInv, NEW r \in Requests, Client(proc[r]), proc[r].pc # "idle"
    PROVE  \/ /\ proc[r].kind \in ReplaysDraft /\ Fingerprint(r) \in ReplaysDraft
              /\ Fingerprint(r) \notin Drafts
           \/ /\ proc[r].kind = "send" /\ Fingerprint(r) = proc[r].draft
              /\ Fingerprint(r) \in Drafts /\ Fingerprint(r) \notin ReplaysDraft
<1>1. proc[r].draft \in Drafts /\ \A d \in Drafts : d \notin Kinds
    BY DraftSendAssumption DEF TypeInv, LocalsOK, LocalOK
<1>. QED
    BY <1>1 DEF Client, Fingerprint, Kinds, ReplaysDraft

LEMMA KnownRecord ==
    ASSUME TypeInv, RecordsInv, NEW r \in Requests, Keyed(r)
    PROVE  RecordOK(KeyOf(r))
<1>1. proc[r].key \in Keys /\ Slot(r) = <<"draft_send", proc[r].key>>
    BY SlotTypes DEF Keyed, Client, Slot, Operation
<1>. QED
    BY <1>1 DEF RecordsInv, Keyed, KeyOf

LEMMA CheckKeyAnswers ==
    ASSUME TypeInv, DrawsGrow, KnowsInv, RecordsInv, NEW r \in Requests, CheckKey(r) \/ RecheckKey(r)
    PROVE  KnowsInv' /\ RecordsInv'
<1>1. /\ proc[r].pc \in {"CheckKey", "RecheckKey"} /\ proc[r].key # None /\ proc[r].pc # "idle"
      /\ keys' = keys /\ lapsed' = lapsed
    BY HasKey DEF CheckKey, RecheckKey, At, KeySteps, historyVars
<1>2. OnlyMoves(r)
    BY CheckKeyTypes, RecheckKeyTypes, LocalMoves
<1>3. CASE Go(r, "InsertKey")
    <2>1. Goes(r, "InsertKey")
        BY <1>3, GoMoves DEF TypeInv, Pcs, Steps, KeySteps
    <2>2. "InsertKey" \in Undecided
        BY DEF Undecided, Steps, KeySteps, Informed, Decided
    <2>. QED
        BY <1>1, <1>2, <2>1, <2>2, AnswersQuiet DEF Goes, Moves
<1>4. CASE Fail(r)
    <2>1. Goes(r, Failing(r))
        BY <1>1, <1>4, FailMoves DEF Failing
    <2>2. Failing(r) \in Undecided
        BY DEF Failing, Undecided, Steps, KeySteps, Informed, Decided
    <2>. QED
        BY <1>1, <1>2, <2>1, <2>2, AnswersQuiet DEF Goes, Moves
<1>5. CASE Answer(r, keys[Slot(r)])
    <2>. DEFINE k == keys[Slot(r)]
    <2>1. k \in KeyRecords
        BY <1>1, SlotTypes
    <2>2. PICK s \in {"ValidateReplay", "refused"} :
            /\ Moves(r, s) /\ (s = "ValidateReplay" => k.what = Fingerprint(r)) /\ KeepsDraft(r)
            /\ proc'[r].resource = k.resource /\ proc'[r].job = k.response
        BY <1>5, <2>1, AnswerMoves DEF TypeInv
    <2>3. CASE s = "refused"
        BY <1>1, <1>2, <2>2, <2>3, AnswersQuiet DEF Moves, Undecided
    <2>4. CASE s = "ValidateReplay"
        <3>1. ASSUME Keyed(r)'
              PROVE  Knows(r)'
            <4>1. Keyed(r) /\ Fingerprint(r)' = Fingerprint(r)
                BY <1>1, <2>2, <3>1, SameSlot
            <4>2. RecordOK(k)
                BY <4>1, KnownRecord DEF KeyOf
            <4>3. /\ ResourceOK(Fingerprint(r), k.resource)
                  /\ k.response # None => ResponseOK(Fingerprint(r), k.resource, k.response)
                BY <2>2, <2>4, <4>2 DEF RecordOK
            <4>4. PICK x, j, f : x = k.resource /\ j = k.response /\ f = Fingerprint(r)
                OBVIOUS
            <4>5. /\ ResourceOK(f, x)'
                  /\ j # None => ResponseOK(f, x, j)'
                BY <4>3, <4>4, RecordGrows
            <4>6. proc'[r].pc = "ValidateReplay" /\ "ValidateReplay" \notin Decided
                BY <2>2, <2>4 DEF Moves, Decided
            <4>7. proc'[r].resource = x /\ proc'[r].job = j /\ Fingerprint(r)' = f
                BY <2>2, <4>1, <4>4
            <4>8. ResourceOK(Fingerprint(r), proc[r].resource)'
                BY <4>5, <4>7 DEF ResourceOK, Draws
            <4>9. proc'[r].job # None => ResponseOK(Fingerprint(r), proc[r].resource, proc[r].job)'
                BY <4>5, <4>7 DEF ResponseOK, Draws
            <4>. QED
                BY <4>6, <4>8, <4>9 DEF Knows
        <3>2. PICK l : keys'[Slot(r)] = l
            OBVIOUS
        <3>. QED
            BY <1>1, <1>2, <3>1, <3>2, AnswersMove
    <2>. QED
        BY <2>3, <2>4
<1>. QED
    BY <1>3, <1>4, <1>5 DEF CheckKey, RecheckKey

LEMMA SendToQueueAnswers ==
    ASSUME TypeInv, RowsInv, DrawsGrow, KnowsInv, RecordsInv, NEW r \in Requests, SendToQueue(r)
    PROVE  KnowsInv' /\ RecordsInv'
<1>1. /\ proc[r].pc = "Queue" /\ keys' = keys /\ lapsed' = lapsed /\ job' = job
    BY DEF SendToQueue, At, historyVars
<1>2. /\ OnlyMoves(r) /\ Moves(r, AfterQueue(r)) /\ KeepsDraft(r) /\ proc'[r].job = r
    BY SendToQueueMoves, LocalMoves
<1>3. Draws(r, proc[r].draft)
    BY <1>1 DEF RowsInv, RowsOf, Draws
<1>4. Draws(proc[r].job, proc[r].draft)'
    BY <1>1, <1>2, <1>3 DEF Draws, KeepsDraft
<1>5. Keyed(r)' => proc'[r].pc \notin Informed \union {"accepted"}
    BY <1>2 DEF Keyed, Moves, AfterQueue, Informed
<1>6. Keyed(r)' => Knows(r)'
    BY <1>4, <1>5 DEF Knows, Informed
<1>7. PICK l : keys'[Slot(r)] = l
    OBVIOUS
<1>. QED
    BY <1>1, <1>2, <1>6, <1>7, AnswersMove

(* A replay answers what its record was completed with.                    *)
LEMMA ValidateReplayAnswers ==
    ASSUME TypeInv, KeyInv, Sure, DrawsGrow, KnowsInv, RecordsInv, NEW r \in Requests,
           ValidateReplay(r)
    PROVE  KnowsInv' /\ RecordsInv'
<1>1. /\ proc[r].pc = "ValidateReplay" /\ proc[r].pc # "idle" /\ keys' = keys
      /\ lapsed' = lapsed /\ job' = job
    BY DEF ValidateReplay, At, sendVars, historyVars
<1>2. OnlyMoves(r)
    BY ValidateReplayMoves, LocalMoves
<1>3. PICK s \in {"accepted", "refused", "ReleaseKey", "FindDraft", "FindJob"} :
        Goes(r, s) /\ (s = "accepted" => proc[r].job # None)
    BY ValidateReplayMoves
<1>4. CASE s \in {"refused", "ReleaseKey"}
    BY <1>1, <1>2, <1>3, <1>4, AnswersQuiet
       DEF Goes, Moves, Undecided, Steps, KeySteps, Informed, Decided
<1>5. CASE s \in {"accepted", "FindDraft", "FindJob"}
    <2>1. ASSUME Keyed(r)'
          PROVE  Knows(r)'
        <3>1. Keyed(r) /\ Fingerprint(r)' = Fingerprint(r) /\ KeyOf(r)' = KeyOf(r)
            BY <1>1, <1>3, <2>1, SameSlot DEF Goes, KeyOf
        <3>2. /\ ResourceOK(Fingerprint(r), proc[r].resource)
              /\ proc[r].job # None => ResponseOK(Fingerprint(r), proc[r].resource, proc[r].job)
            BY <1>1, <3>1 DEF KnowsInv, Knows, Informed
        <3>3. /\ proc'[r].pc = s /\ proc'[r].resource = proc[r].resource
              /\ proc'[r].job = proc[r].job /\ proc'[r].draft = proc[r].draft
            BY <1>3 DEF Goes, Moves, KeepsFound, KeepsDraft
        <3>4. CASE s \in {"FindDraft", "FindJob"}
            <4>1. ResourceOK(Fingerprint(r), proc[r].resource)'
                BY <1>1, <3>1, <3>2, <3>3 DEF ResourceOK, Draws
            <4>. QED
                BY <3>3, <3>4, <4>1 DEF Knows, Decided
        <3>5. CASE s = "accepted"
            <4>1. Client(proc[r])
                BY <3>1 DEF Keyed
            <4>2. Replayer(r)
                BY <1>1 DEF Replayer, Informed
            <4>3. FitsReplayer(r, KeyOf(r))
                BY <3>1, <4>2 DEF KeyInv, RequestsInv, RequestInv, Replayed
            <4>4. ResponseOK(KeyOf(r).what, KeyOf(r).resource, proc[r].job)
                BY <1>1, <1>3, <3>2, <3>5, <4>1, <4>3, ClientPrint DEF FitsReplayer, ResponseOK
            <4>5. Answered(r, KeyOf(r))'
                BY <1>1, <1>3, <3>1, <3>3, <3>5, <4>3, <4>4
                   DEF Answered, FitsReplayer, ResponseOK, Draws
            <4>. QED
                BY <3>3, <3>5, <4>5 DEF Knows, Decided, Informed
        <3>. QED
            BY <1>5, <3>4, <3>5
    <2>2. PICK l : keys'[Slot(r)] = l
        OBVIOUS
    <2>. QED
        BY <1>1, <1>2, <2>1, <2>2, AnswersMove
<1>. QED
    BY <1>4, <1>5

(* The job that a replay finds is one of its draft.                        *)
LEMMA FoundDraws ==
    ASSUME TypeInv, KnowsInv, NEW r \in Requests, FindJob(r), Keyed(r),
           proc'[r].pc = "FindMessage"
    PROVE  Draws(proc'[r].job, proc[r].draft)
<1>1. proc[r].pc = "FindJob" /\ proc[r].pc # "idle" /\ Client(proc[r])
    BY DEF FindJob, At, Keyed
<1>2. ASSUME NEW j \in Requests, Found(r, j) PROVE proc'[r].job = j
    BY <1>2, FoundMoves DEF TypeInv
<1>3. ~Resume(r) /\ ~Fail(r) /\ ~Go(r, "FindDraft")
    BY DEF Resume, Fail, Go, TypeInv, TypeOK, ProcType
<1>4. CASE proc[r].kind \in ReplaysDraft
    <2>1. \E q \in VisibleJobs(proc[r].draft) : Found(r, q)
        BY <1>3, <1>4 DEF FindJob
    <2>2. PICK q \in VisibleJobs(proc[r].draft) : Found(r, q)
        BY <2>1
    <2>3. q \in Requests /\ Draws(q, proc[r].draft)
        BY DEF VisibleJobs, JobsOf, Draws
    <2>. QED
        BY <1>2, <2>2, <2>3
<1>5. CASE proc[r].kind \notin ReplaysDraft
    <2>. DEFINE j == proc[r].resource[2]
    <2>1. proc[r].resource[1] = "job" /\ Found(r, j)
        BY <1>3, <1>5 DEF FindJob
    <2>2. Fingerprint(r) = proc[r].draft /\ Fingerprint(r) \in Drafts
        BY <1>1, <1>5, ClientPrint
    <2>3. proc[r].resource # None
        BY <1>1 DEF TypeInv, LocalsOK, LocalOK, Informed
    <2>4. Draws(j, proc[r].draft)
        BY <1>1, <2>2, <2>3 DEF KnowsInv, Knows, Informed, ResourceOK
    <2>. QED
        BY <1>2, <2>1, <2>4 DEF Draws
<1>. QED
    BY <1>4, <1>5

LEMMA FindAnswers ==
    ASSUME TypeInv, DrawsGrow, KnowsInv, RecordsInv, NEW r \in Requests,
           FindDraft(r) \/ FindJob(r) \/ FindMessage(r) \/ Reread(r)
    PROVE  KnowsInv' /\ RecordsInv'
<1>1. keys' = keys /\ lapsed' = lapsed /\ job' = job
    BY DEF FindDraft, FindJob, FindMessage, Reread, sendVars, historyVars
<1>2. OnlyMoves(r)
    BY FindDraftMoves, FindJobMoves, FindMessageMoves, RereadMoves, LocalMoves
<1>3. PICK s \in {"FindDraft", "FindJob", "Load", "FindMessage", "CompleteReplay", "ReleaseKey",
                  "refused"} : Moves(r, s)
    BY FindDraftMoves, FindJobMoves, FindMessageMoves, RereadMoves DEF Goes, Failing
<1>4. CASE s \in {"Load", "ReleaseKey", "refused"}
    BY <1>1, <1>2, <1>3, <1>4, AnswersQuiet
       DEF Moves, Undecided, Steps, EnqueueSteps, KeySteps, Informed, Decided
<1>5. PICK l : keys'[Slot(r)] = l
    OBVIOUS
<1>6. Keyed(r)' => Keyed(r) /\ Client(proc[r])
    BY <1>1, <1>3, SameSlot DEF Keyed
<1>7. CASE FindDraft(r) /\ s \in {"FindDraft", "FindJob", "FindMessage", "CompleteReplay"}
    <2>1. proc'[r].pc = "FindJob" /\ proc[r].kind \in ReplaysDraft /\ proc'[r].kind = proc[r].kind
        BY <1>3, <1>7, FindDraftMoves DEF Goes, Moves, Failing
    <2>2. Fingerprint(r)' \notin Drafts
        BY <2>1, DraftSendAssumption DEF Fingerprint, ReplaysDraft, Kinds
    <2>3. Knows(r)'
        BY <2>1, <2>2 DEF Knows, ResourceOK, Decided
    <2>. QED
        BY <1>1, <1>2, <1>5, <2>3, AnswersMove
<1>8. CASE FindJob(r) /\ s \in {"FindDraft", "FindJob", "FindMessage", "CompleteReplay"}
    <2>1. CASE proc[r].kind = "admin"
        <3>1. ~Keyed(r)'
            BY <1>6, <2>1 DEF Client
        <3>. QED
            BY <1>1, <1>2, <1>5, <1>6, <3>1, AnswersMove
    <2>2. CASE proc[r].kind # "admin"
        <3>1. /\ Moves(r, "FindMessage") /\ KeepsDraft(r) /\ proc'[r].pc = "FindMessage"
              /\ proc'[r].resource = proc[r].resource
            BY <1>3, <1>8, <2>2, FindJobMoves DEF Goes, Moves, Failing
        <3>2. ASSUME Keyed(r)' PROVE Knows(r)'
            <4>1. Keyed(r) /\ Fingerprint(r)' = Fingerprint(r)
                BY <1>6, <3>1, <3>2, SameSlot
            <4>2. Draws(proc'[r].job, proc[r].draft)
                BY <1>8, <3>1, <4>1, FoundDraws
            <4>3. ResourceOK(Fingerprint(r), proc[r].resource)
                BY <1>8, <4>1 DEF KnowsInv, Knows, Informed, FindJob, At
            <4>4. Draws(proc[r].job, proc[r].draft)'
                BY <1>1, <3>1, <4>2 DEF Draws, KeepsDraft
            <4>5. ResourceOK(Fingerprint(r), proc[r].resource)'
                BY <1>1, <3>1, <4>1, <4>3 DEF ResourceOK, Draws
            <4>. QED
                BY <3>1, <4>4, <4>5 DEF Knows
        <3>. QED
            BY <1>1, <1>2, <1>5, <3>2, AnswersMove
    <2>. QED
        BY <2>1, <2>2
<1>9. CASE (FindMessage(r) \/ Reread(r)) /\ s \in {"FindDraft", "FindJob", "FindMessage", "CompleteReplay"}
    <2>1. Goes(r, "CompleteReplay") /\ proc[r].pc \in Decided
        BY <1>3, <1>9, FindMessageMoves, RereadMoves
           DEF Goes, Moves, Failing, FindMessage, Reread, At, Decided
    <2>2. proc'[r].pc = "CompleteReplay" /\ proc'[r].job = proc[r].job /\ proc'[r].draft = proc[r].draft
        BY <2>1 DEF Goes, Moves, KeepsFound, KeepsDraft
    <2>3. Keyed(r)' => Knows(r)'
        BY <1>1, <1>6, <2>1, <2>2 DEF KnowsInv, Knows, Informed, Draws
    <2>. QED
        BY <1>1, <1>2, <1>5, <2>3, AnswersMove
<1>. QED
    BY <1>4, <1>7, <1>8, <1>9

(* Who records a resource leaves the answers under its key right.          *)
LEMMA OwnerReanswers ==
    ASSUME TypeInv, KeyInv, Sure, KnowsInv, NEW r \in Requests, Keyed(r),
           proc[r].pc \in {"LinkDraft", "LinkJob", "Complete", "CompleteReplay"},
           NEW k, k.status # "none", k.what = KeyOf(r).what, k.resource # None,
           proc[r].kind \in ReplaysDraft => k.resource = <<"draft", proc[r].draft>>
    PROVE  /\ KeyOf(r).what = Fingerprint(r)
           /\ \A q \in Requests : Shares(q, r) /\ proc[q].pc = "accepted" => Reanswers(KeyOf(r), k)
<1>1. Client(proc[r]) /\ proc[r].pc # "idle" /\ RequestInv(r)
    BY DEF Keyed, KeyInv, RequestsInv
<1>2. CASE proc[r].pc = "CompleteReplay"
    <2>1. FitsReplayer(r, KeyOf(r))
        BY <1>1, <1>2 DEF RequestInv, Replayed, Replayer
    <2>. QED
        BY <1>1, <1>2, <2>1, ClientPrint DEF FitsReplayer, Reanswers
<1>3. CASE proc[r].pc \in {"LinkDraft", "LinkJob", "Complete"}
    <2>1. ~proc[r].replay
        BY <1>1, <1>3 DEF RequestInv, Progress, OwnSteps
    <2>2. Owner(r)
        BY <1>3, <2>1 DEF Owner, OwnSteps
    <2>3. FitsOwner(r, KeyOf(r)) /\ (proc[r].kind \in ReplaysDraft => proc[r].draft = r)
        BY <1>1, <2>2 DEF RequestInv, Owned, OwnDraft
    <2>4. ASSUME NEW q \in Requests, Shares(q, r), proc[q].pc = "accepted"
          PROVE  Reanswers(KeyOf(r), k)
        <3>1. KeyOf(q) = KeyOf(r) /\ Knows(q)
            BY <2>4 DEF Shares, KeyOf, KnowsInv
        <3>2. KeyOf(r).resource # None
            BY <2>4, <3>1 DEF Knows, Answered
        <3>3. KeyOf(r).what \in ReplaysDraft => proc[r].kind \in ReplaysDraft
            BY <1>1, <2>3, ClientPrint DEF FitsOwner
        <3>. QED
            BY <2>3, <3>2, <3>3 DEF FitsOwner, Reanswers
    <2>. QED
        BY <2>3, <2>4 DEF FitsOwner
<1>. QED
    BY <1>2, <1>3

LEMMA KeyWriteAnswers ==
    ASSUME TypeInv, KeyInv, Sure, DrawsGrow, KnowsInv, RecordsInv, NEW r \in Requests,
           proc[r].pc \in {"LinkDraft", "LinkJob", "Complete", "CompleteReplay"},
           NEW s \in {"Load", "Complete", "accepted"}, Goes(r, s), lapsed' = lapsed, job' = job,
           NEW k, Writes(Slot(r), k), k.status # "none", k.what = KeyOf(r).what, k.resource # None,
           proc[r].kind \in ReplaysDraft => k.resource = <<"draft", proc[r].draft>>,
           proc[r].kind = "send" => k.resource = <<"job", proc[r].job>>,
           s # "Load" => proc[r].job # None /\ (Keyed(r) => Draws(proc[r].job, proc[r].draft)),
           s = "Load" => proc[r].kind # "send",
           \/ k.response = KeyOf(r).response /\ KeyOf(r).status = "pending" /\ s # "accepted"
           \/ k.response = proc[r].job /\ k.status = "completed" /\ s = "accepted"
    PROVE  KnowsInv' /\ RecordsInv'
<1>1. OnlyMoves(r) /\ proc[r].pc # "idle" /\ proc[r].key # None
    BY HasKey DEF Goes, Moves, OnlyMoves, KeySteps
<1>2. Slot(r)' = Slot(r) /\ Fingerprint(r)' = Fingerprint(r) /\ (Keyed(r)' <=> Keyed(r))
    BY SameSlot DEF Goes
<1>3. /\ proc'[r].pc = s /\ proc'[r].kind = proc[r].kind /\ proc'[r].draft = proc[r].draft
      /\ proc'[r].job = proc[r].job
    BY DEF Goes, Moves, KeepsDraft, KeepsFound
<1>4. KeyOf(r)' = k /\ keys'[Slot(r)] = k /\ \A u \in Slots : u # Slot(r) => keys'[u] = keys[u]
    BY <1>2 DEF Writes, KeyOf
<1>5. ASSUME Keyed(r)
      PROVE  /\ Knows(r)' /\ RecordOK(k)'
             /\ \A q \in Requests : Shares(q, r) /\ proc[q].pc = "accepted" =>
                  Reanswers(KeyOf(r), k)
    <2>1. /\ KeyOf(r).what = Fingerprint(r)
          /\ \A q \in Requests : Shares(q, r) /\ proc[q].pc = "accepted" =>
               Reanswers(KeyOf(r), k)
        BY <1>5, OwnerReanswers
    <2>2. \/ proc[r].kind \in ReplaysDraft /\ k.what \in ReplaysDraft /\ k.what \notin Drafts
          \/ /\ proc[r].kind = "send" /\ k.what = proc[r].draft /\ k.what \in Drafts
             /\ k.what \notin ReplaysDraft
        BY <1>1, <1>5, <2>1, ClientPrint DEF Keyed
    <2>3. RecordOK(KeyOf(r))
        BY <1>5, KnownRecord
    <2>4. s # "Load" => ResponseOK(k.what, k.resource, proc[r].job)
        BY <1>5, <2>2 DEF ResponseOK
    <2>5. ResourceOK(k.what, k.resource)
        BY <1>5, <2>2 DEF ResourceOK
    <2>6. k.response # None =>
            k.status = "completed" /\ ResponseOK(k.what, k.resource, k.response)
        BY <2>3, <2>4 DEF RecordOK
    <2>7. RecordOK(k)'
        BY <2>5, <2>6, RecordStays DEF RecordOK
    <2>8. s # "Load" => Draws(proc[r].job, proc[r].draft)'
        BY <1>3, <1>5 DEF Draws
    <2>9. s = "accepted" => Answered(r, KeyOf(r))'
        BY <1>2, <1>3, <1>4, <2>1, <2>4 DEF Answered, ResponseOK, Draws
    <2>10. Knows(r)'
        BY <1>3, <2>8, <2>9 DEF Knows, Informed, Decided
    <2>. QED
        BY <2>1, <2>7, <2>10
<1>. QED
    BY <1>1, <1>2, <1>4, <1>5, AnswersMove

(* A replay answers although it could not complete the key.                *)
LEMMA ReplayAnswers ==
    ASSUME TypeInv, KeyInv, Sure, DrawsGrow, KnowsInv, RecordsInv, NEW r \in Requests,
           proc[r].pc = "CompleteReplay", Goes(r, "accepted"), keys' = keys, lapsed' = lapsed
    PROVE  KnowsInv' /\ RecordsInv'
<1>1. OnlyMoves(r) /\ proc[r].pc # "idle" /\ proc[r].job # None
    BY DEF Goes, Moves, OnlyMoves, TypeInv, LocalsOK, LocalOK, Decided
<1>2. /\ proc'[r].pc = "accepted" /\ proc'[r].kind = proc[r].kind
      /\ proc'[r].draft = proc[r].draft /\ proc'[r].job = proc[r].job
    BY DEF Goes, Moves, KeepsDraft, KeepsFound
<1>3. ASSUME Keyed(r)'
      PROVE  Knows(r)'
    <2>1. Keyed(r) /\ Fingerprint(r)' = Fingerprint(r) /\ KeyOf(r)' = KeyOf(r)
        BY <1>3, SameSlot DEF Goes, KeyOf
    <2>2. FitsReplayer(r, KeyOf(r)) /\ Draws(proc[r].job, proc[r].draft)
        BY <2>1 DEF KeyInv, RequestsInv, RequestInv, Replayed, Replayer, KnowsInv, Knows, Decided
    <2>3. ResponseOK(KeyOf(r).what, KeyOf(r).resource, proc[r].job)
        BY <1>1, <2>1, <2>2, ClientPrint DEF Keyed, FitsReplayer, ResponseOK
    <2>4. PICK f, x, j : f = KeyOf(r).what /\ x = KeyOf(r).resource /\ j = proc[r].job
        OBVIOUS
    <2>5. ResponseOK(f, x, j)'
        BY <2>3, <2>4, RecordGrows
    <2>6. ResponseOK(KeyOf(r).what, KeyOf(r).resource, proc[r].job)'
        BY <1>2, <2>1, <2>4, <2>5 DEF ResponseOK, Draws
    <2>7. Answered(r, KeyOf(r))'
        BY <1>1, <1>2, <2>1, <2>2, <2>6 DEF Answered, FitsReplayer
    <2>. QED
        BY <1>2, <2>7 DEF Knows, Informed, Decided
<1>4. PICK l : keys'[Slot(r)] = l
    OBVIOUS
<1>. QED
    BY <1>1, <1>3, <1>4, AnswersMove

LEMMA LinkAnswers ==
    ASSUME TypeInv, KeyInv, Sure, DrawsGrow, KnowsInv, RecordsInv, NEW r \in Requests,
           LinkDraft(r) \/ LinkJob(r) \/ Complete(r) \/ CompleteReplay(r)
    PROVE  KnowsInv' /\ RecordsInv'
<1>1. /\ proc[r].pc \in {"LinkDraft", "LinkJob", "Complete", "CompleteReplay"}
      /\ proc[r].pc # "idle" /\ lapsed' = lapsed /\ job' = job
    BY DEF LinkDraft, LinkJob, Complete, CompleteReplay, At, sendVars, historyVars
<1>2. /\ proc[r].key # None /\ Slot(r) \in Slots /\ keys[Slot(r)] \in KeyRecords
      /\ proc[r].draft \in Drafts /\ RequestInv(r)
    BY <1>1, HasKey, SlotTypes
       DEF KeySteps, TypeInv, LocalsOK, LocalOK, KeyInv, RequestsInv
<1>3. \A d : (<<"draft", d>> # None /\ <<"job", d>> # None) \/ d \notin Drafts
    BY DraftSendAssumption
<1>4. OnlyMoves(r)
    BY LinkDraftMoves, LinkJobMoves, CompleteMoves, CompleteReplayMoves, LocalMoves
<1>5. CASE keys' = keys /\ Goes(r, Failing(r))
    <2>1. Failing(r) \in Undecided
        BY DEF Failing, Undecided, Steps, KeySteps, Informed, Decided
    <2>. QED
        BY <1>1, <1>4, <1>5, <2>1, AnswersQuiet DEF Goes, Moves
<1>6. proc[r].pc # "LinkDraft" => proc[r].job \in Drafts /\ proc[r].job # None
    BY <1>1 DEF TypeInv, TypeOK, ProcType, LocalsOK, LocalOK, Decided, Drafts
<1>7. proc[r].pc # "LinkDraft" \/ proc[r].kind = "workflow" =>
        (Keyed(r) => Draws(proc[r].job, proc[r].draft))
    BY <1>1 DEF KnowsInv, Knows, Decided
<1>8. CASE LinkDraft(r)
    <2>. DEFINE x == <<"draft", proc[r].draft>>
                s == IF proc[r].kind = "workflow" THEN "Complete" ELSE "Load"
    <2>1. /\ Linked(r, x).status = keys[Slot(r)].status /\ Linked(r, x).resource = x
          /\ Linked(r, x).what = keys[Slot(r)].what
          /\ Linked(r, x).response = keys[Slot(r)].response
        BY <1>2 DEF Linked, KeyRecords
    <2>2. ASSUME keys[Slot(r)].status = "pending", Writes(Slot(r), Linked(r, x)), Goes(r, s)
          PROVE  KnowsInv' /\ RecordsInv'
        <3>1. s \in {"Load", "Complete", "accepted"} /\ s # "accepted" /\ x # None
            BY <1>2, <1>3
        <3>2. proc[r].kind # "send" \/ ~Client(proc[r])
            BY <1>2, <1>8 DEF RequestInv, Progress, LinkDraft, At
        <3>3. proc[r].kind # "send"
            BY <3>2 DEF Client
        <3>4. s # "Load" => proc[r].kind = "workflow"
            OBVIOUS
        <3>5. s # "Load" => proc[r].job # None
            BY <1>8, <3>4 DEF LinkDraft, At, TypeInv, LocalsOK, LocalOK
        <3>6. PICK k : k = Linked(r, x)
            OBVIOUS
        <3>7. proc[r].kind \in ReplaysDraft => x = <<"draft", proc[r].draft>>
            OBVIOUS
        <3>. HIDE DEF s, x
        <3>. QED
            BY <1>1, <1>7, <2>1, <2>2, <3>1, <3>3, <3>4, <3>5, <3>6, <3>7, KeyWriteAnswers DEF KeyOf
    <2>. QED
        BY <1>5, <1>8, <2>2, LinkDraftMoves
<1>9. CASE LinkJob(r)
    <2>. DEFINE x == <<"job", proc[r].job>>
    <2>1. /\ Linked(r, x).status = keys[Slot(r)].status /\ Linked(r, x).resource = x
          /\ Linked(r, x).what = keys[Slot(r)].what
          /\ Linked(r, x).response = keys[Slot(r)].response
        BY <1>2 DEF Linked, KeyRecords
    <2>2. proc[r].pc = "LinkJob"
        BY <1>9 DEF LinkJob, At
    <2>3. ASSUME keys[Slot(r)].status = "pending", Writes(Slot(r), Linked(r, x)),
                 Goes(r, "Complete")
          PROVE  KnowsInv' /\ RecordsInv'
        <3>1. x # None
            BY <1>3, <1>6, <2>2
        <3>2. proc[r].kind \notin ReplaysDraft
            BY <1>2, <2>2 DEF RequestInv, Progress, Client, ReplaysDraft
        <3>3. PICK k : k = Linked(r, x)
            OBVIOUS
        <3>4. proc[r].kind = "send" => x = <<"job", proc[r].job>>
            OBVIOUS
        <3>. HIDE DEF x
        <3>. QED
            BY <1>1, <1>6, <1>7, <2>1, <2>2, <2>3, <3>1, <3>2, <3>3, <3>4, KeyWriteAnswers DEF KeyOf
    <2>. QED
        BY <1>5, <1>9, <2>3, LinkJobMoves
<1>10. CASE Complete(r) \/ CompleteReplay(r)
    <2>1. proc[r].pc \in {"Complete", "CompleteReplay"}
        BY <1>10 DEF Complete, CompleteReplay, At
    <2>2. /\ Done(r).status = "completed" /\ Done(r).resource = Result(r)
          /\ Done(r).what = keys[Slot(r)].what /\ Done(r).response = proc[r].job
        BY <1>2 DEF Done, KeyRecords
    <2>3. /\ Result(r) # None
          /\ proc[r].kind \in ReplaysDraft => Result(r) = <<"draft", proc[r].draft>>
          /\ proc[r].kind = "send" => Result(r) = <<"job", proc[r].job>>
        BY <1>2, <1>3, <1>6, <2>1 DEF Result, ReplaysDraft
    <2>4. ASSUME Writes(Slot(r), Done(r)), Goes(r, "accepted")
          PROVE  KnowsInv' /\ RecordsInv'
        <3>1. PICK k : k = Done(r)
            OBVIOUS
        <3>. QED
            BY <1>1, <1>6, <1>7, <2>1, <2>2, <2>3, <2>4, <3>1, KeyWriteAnswers DEF KeyOf
    <2>5. CASE CompleteReplay(r) /\ keys' = keys
        BY <1>2, <1>6, <1>7, <2>5, ReplayAnswers, CompleteReplayMoves DEF CompleteReplay, At, historyVars
    <2>. QED
        BY <1>5, <1>10, <2>4, <2>5, CompleteMoves, CompleteReplayMoves
<1>. QED
    BY <1>8, <1>9, <1>10

(* A request that inserts or deletes a record undoes no answer: under the  *)
(* key of an answer is a record, and one that names its result.            *)
LEMMA InsertKeyAnswers ==
    ASSUME TypeInv, DrawsGrow, KnowsInv, RecordsInv, NEW r \in Requests, InsertKey(r)
    PROVE  KnowsInv' /\ RecordsInv'
<1>0. lapsed' = lapsed
    BY DEF InsertKey, historyVars
<1>1. lapsed' = lapsed /\ OnlyMoves(r)
    BY <1>0, InsertKeyMoves, LocalMoves
<1>2. CASE keys' = keys /\ Goes(r, "RecheckKey")
    BY <1>1, <1>2, AnswersQuiet
       DEF Goes, Moves, Undecided, Steps, KeySteps, Informed, Decided
<1>3. ASSUME NEW s \in {"Validate", "ReleaseKey"}, keys[Slot(r)].status = "none",
             Writes(Slot(r), Reserved(r)), Moves(r, s)
      PROVE  KnowsInv' /\ RecordsInv'
    <2>1. Knows(r)'
        BY <1>3 DEF Moves, Knows, Informed, Decided
    <2>2. PICK l : l = Reserved(r)
        OBVIOUS
    <2>3. l.resource = None /\ l.response = None
        BY <2>2 DEF Reserved, NoRecord
    <2>4. RecordOK(l)'
        BY <2>3 DEF RecordOK, ResourceOK
    <2>5. ASSUME NEW q \in Requests, Shares(q, r), proc[q].pc = "accepted"
          PROVE  FALSE
        <3>1. KeyOf(q) = keys[Slot(r)] /\ Answered(q, KeyOf(q))
            BY <2>5 DEF Shares, KeyOf, KnowsInv, Knows
        <3>. QED
            BY <1>3, <3>1 DEF Answered
    <2>6. keys'[Slot(r)] = l /\ \A u \in Slots : u # Slot(r) => keys'[u] = keys[u]
        BY <1>3, <2>2 DEF Writes
    <2>. QED
        BY <1>1, <2>1, <2>4, <2>5, <2>6, AnswersMove
<1>. QED
    BY <1>2, <1>3, InsertKeyMoves

LEMMA ReleaseKeyAnswers ==
    ASSUME TypeInv, KeyInv, Sure, DrawsGrow, KnowsInv, RecordsInv, NEW r \in Requests, ReleaseKey(r)
    PROVE  KnowsInv' /\ RecordsInv'
<1>1. /\ lapsed' = lapsed /\ OnlyMoves(r) /\ Moves(r, "refused") /\ proc[r].pc = "ReleaseKey"
      /\ proc[r].pc # "idle"
    BY ReleaseKeyMoves, LocalMoves DEF ReleaseKey, At, historyVars, Goes
<1>2. CASE keys' = keys
    BY <1>1, <1>2, AnswersQuiet DEF Moves, Undecided
<1>3. CASE Writes(Slot(r), NoRecord)
    <2>1. Knows(r)'
        BY <1>1 DEF Moves, Knows, Informed, Decided
    <2>2. PICK l : l = NoRecord
        OBVIOUS
    <2>3. l.resource = None /\ l.response = None
        BY <2>2 DEF NoRecord
    <2>4. RecordOK(l)'
        BY <2>3 DEF RecordOK, ResourceOK
    <2>5. ASSUME Keyed(r), NEW q \in Requests, Shares(q, r), proc[q].pc = "accepted"
          PROVE  FALSE
        <3>1. KeyOf(q) = KeyOf(r) /\ Answered(q, KeyOf(q))
            BY <2>5 DEF Shares, KeyOf, KnowsInv, Knows
        <3>2. proc[r].releases /\ ~proc[r].replay
            BY <1>1, <2>5
               DEF Keyed, KeyInv, RequestsInv, RequestInv, Progress, Uncommitted, Steps, KeySteps
        <3>3. Owner(r)
            BY <1>1, <3>2 DEF Owner, OwnSteps
        <3>4. KeyOf(r).resource = None
            BY <2>5, <3>2, <3>3 DEF KeyInv, RequestsInv, RequestInv, Owned, FitsOwner
        <3>. QED
            BY <3>1, <3>4 DEF Answered
    <2>6. keys'[Slot(r)] = l /\ \A u \in Slots : u # Slot(r) => keys'[u] = keys[u]
        BY <1>3, <2>2 DEF Writes
    <2>. QED
        BY <1>1, <2>1, <2>4, <2>5, <2>6, AnswersMove
<1>. QED
    BY <1>2, <1>3, ReleaseKeyMoves

(* The other steps of a request decide nothing.                            *)
LEMMA OtherAnswers ==
    ASSUME TypeInv, DrawsGrow, KnowsInv, RecordsInv, NEW r \in Requests,
           \/ CancelDraft(r) \/ Validate(r) \/ Create(r) \/ Undo(r)
           \/ EnqueueStep(r) /\ ~SendToQueue(r)
    PROVE  KnowsInv' /\ RecordsInv'
<1>1. keys' = keys /\ lapsed' = lapsed
    BY DEF CancelDraft, Validate, Create, Undo, EnqueueStep, Load, Claim, Thread, AssignThread,
       Reserve, InsertMessage, InsertJob, historyVars
<1>2. CASE CancelDraft(r) \/ Validate(r) \/ Create(r)
    <2>1. OnlyMoves(r)
        BY <1>2, CancelDraftMoves, ValidateMoves, CreateMoves, LocalMoves
    <2>2. PICK s \in {"cancelled", "refused", "ReleaseKey", "Load", "Create", "LinkDraft"} :
            Moves(r, s) /\ (s = "LinkDraft" => proc[r].kind # "workflow")
        BY <1>2, CancelDraftMoves, ValidateMoves, CreateMoves DEF Goes, Failing
    <2>. QED
        BY <1>1, <2>1, <2>2, AnswersQuiet
           DEF Moves, Undecided, Steps, EnqueueSteps, KeySteps, Informed, Decided
<1>3. CASE Undo(r)
    BY <1>1, <1>3, UndoMoves, LocalMoves, AnswersQuiet
       DEF Goes, Moves, Undecided, Steps, UndoSteps, KeySteps, Informed, Decided
<1>4. CASE EnqueueStep(r) /\ ~SendToQueue(r)
    <2>1. OnlyMoves(r)
        BY <1>4, LoadActionMoves, ClaimMoves, ThreadActionMoves, AssignThreadMoves,
           ReserveActionMoves, InsertMessageMoves, InsertJobMoves, LocalMoves DEF EnqueueStep
    <2>2. PICK s \in {"ReleaseKey", "refused", "Claim", "Thread", "AssignThread", "Reserve",
                      "UndoDraft", "Message", "Job", "Queue", "UndoMessage"} : Moves(r, s)
        BY <1>4, LoadActionMoves, ClaimMoves, ThreadActionMoves, AssignThreadMoves,
           ReserveActionMoves, InsertMessageMoves, InsertJobMoves DEF EnqueueStep, Goes, Failing
    <2>. QED
        BY <1>1, <2>1, <2>2, AnswersQuiet
           DEF Moves, Undecided, Steps, EnqueueSteps, UndoSteps, KeySteps, Informed, Decided
<1>. QED
    BY <1>2, <1>3, <1>4

LEMMA ArriveAnswers ==
    ASSUME TypeInv, DrawsGrow, KnowsInv, RecordsInv, NEW r \in Requests, Arrive(r)
    PROVE  KnowsInv' /\ RecordsInv'
<1>1. OnlyMoves(r) /\ Arrived(r) /\ proc[r].pc = "idle"
    BY ArriveTypes, LocalMoves, ArriveMoves DEF Arrive, At, TypeInv
<1>2. keys' = keys /\ lapsed' = lapsed
    BY DEF Arrive, historyVars
<1>3. proc'[r].pc \in {"CheckKey", "Validate", "CancelDraft", "refused", "cancelled"}
    BY <1>1 DEF Arrived
<1>. QED
    BY <1>1, <1>2, <1>3, AnswersQuiet
       DEF Undecided, Steps, KeySteps, Informed, Decided

LEMMA FailureAnswers ==
    ASSUME TypeInv, KeyInv, Sure, DrawsGrow, KnowsInv, RecordsInv, NEW r \in Requests, Failure(r)
    PROVE  KnowsInv' /\ RecordsInv'
<1>1. keys' = keys /\ lapsed' = lapsed
    BY DEF Failure, Crash, Throw, QueueFails, QueueFailsLate, UndoFails, Suffer
<1>2. OnlyMoves(r)
    BY CrashMoves, ThrowMoves, QueueFailsMoves, UndoFailsMoves, LocalMoves DEF Failure
<1>3. CASE proc[r].pc = "CompleteReplay" /\ Goes(r, "accepted")
    BY <1>1, <1>3, ReplayAnswers
<1>4. ASSUME NEW s \in UndoSteps \union {"ReleaseKey", "refused", "dead"}, Goes(r, s)
      PROVE  KnowsInv' /\ RecordsInv'
    BY <1>1, <1>2, <1>4, AnswersQuiet
       DEF Goes, Moves, Undecided, Steps, UndoSteps, KeySteps, Informed, Decided
<1>5. {"UndoJob", "UndoMessage", "UndoDraft"} \subseteq UndoSteps
    BY DEF UndoSteps
<1>. QED
    BY <1>3, <1>4, <1>5, CrashMoves, ThrowMoves, QueueFailsMoves, UndoFailsMoves DEF Failure, Failing

LEMMA ConsumeAnswers ==
    ASSUME TypeInv, DrawsGrow, KnowsInv, RecordsInv, proc' = proc, keys' = keys, lapsed' = lapsed
    PROVE  KnowsInv' /\ RecordsInv'
<1>1. ASSUME NEW q \in Requests, Keyed(q)'
      PROVE  Knows(q)'
    <2>1. Knows(q)
        BY <1>1 DEF KnowsInv, Keyed, Slot, Operation
    <2>2. PICK k : KeyOf(q) = k
        OBVIOUS
    <2>3. keys'[Slot(q)] = k
        BY <2>2 DEF KeyOf
    <2>. QED
        BY <2>1, <2>2, <2>3, KnowsKept
<1>2. ASSUME NEW k \in Keys, <<"draft_send", k>> \notin lapsed'
      PROVE  RecordOK(keys[<<"draft_send", k>>])'
    <2>1. PICK l : keys[<<"draft_send", k>>] = l
        OBVIOUS
    <2>2. RecordOK(l)'
        BY <1>2, <2>1, RecordStays DEF RecordsInv
    <2>. QED
        BY <2>1, <2>2 DEF RecordOK, ResourceOK, ResponseOK, Draws
<1>. QED
    BY <1>1, <1>2 DEF KnowsInv, RecordsInv

(* The cron job forgets the record and the answers under it.               *)
LEMMA PruneAnswers ==
    ASSUME TypeInv, DrawsGrow, KnowsInv, RecordsInv, NEW s \in Slots, Prune(s)
    PROVE  KnowsInv' /\ RecordsInv'
<1>1. /\ proc' = proc /\ lapsed' = lapsed \union {s}
      /\ \A u \in Slots \ {s} : keys'[u] = keys[u]
    BY DEF Prune, TypeInv, TypeOK
<1>2. ASSUME NEW q \in Requests, Keyed(q)'
      PROVE  Knows(q)'
    <2>1. Keyed(q) /\ Slot(q) # s
        BY <1>1, <1>2 DEF Keyed, Slot, Operation
    <2>2. Knows(q) /\ Slot(q) \in Slots
        BY <2>1, SlotTypes DEF KnowsInv, Keyed
    <2>3. PICK k : KeyOf(q) = k
        OBVIOUS
    <2>4. keys'[Slot(q)] = k
        BY <1>1, <2>1, <2>2, <2>3 DEF KeyOf
    <2>. QED
        BY <1>1, <2>2, <2>3, <2>4, KnowsKept
<1>3. ASSUME NEW k \in Keys, <<"draft_send", k>> \notin lapsed'
      PROVE  RecordOK(keys[<<"draft_send", k>>])'
    <2>1. PICK u \in Slots : u = <<"draft_send", k>>
        BY DEF Slots, Operations
    <2>2. u \notin lapsed /\ u # s
        BY <1>1, <1>3, <2>1
    <2>3. PICK l : keys[u] = l
        OBVIOUS
    <2>4. RecordOK(l)' /\ keys'[u] = l
        BY <1>1, <2>1, <2>2, <2>3, RecordStays DEF RecordsInv
    <2>. QED
        BY <2>1, <2>4 DEF RecordOK, ResourceOK, ResponseOK, Draws
<1>. QED
    BY <1>2, <1>3 DEF KnowsInv, RecordsInv

LEMMA AnswersStep ==
    ASSUME SendInv, AnswersInv, [Next]_vars
    PROVE  AnswersInv'
<1>1. TypeInv /\ RowsInv /\ KeyInv /\ FirmInv
    BY DEF SendInv, AnswersInv
<1>2. FirmInv'
    BY <1>1, FirmStep
<1>3. ASSUME Calm'
      PROVE  KnowsInv' /\ RecordsInv'
    <2>1. DrawsGrow
        BY <1>1, <1>3, DrawsStay
    <2>2. failed \subseteq failed'
        BY RequestFails DEF Next, Arrive, Failure, Crash, Throw, QueueFails, QueueFailsLate,
           UndoFails, Suffer, Consume, Prune, vars, historyVars
    <2>3. Sure /\ KnowsInv /\ RecordsInv
        BY <1>3, <2>2 DEF Calm, Sure, AnswersInv
    <2>4. ASSUME NEW r \in Requests, RequestStep(r)
          PROVE  KnowsInv' /\ RecordsInv'
        <3>1. CASE KeyStep(r)
            BY <1>1, <2>1, <2>3, <3>1, CheckKeyAnswers, InsertKeyAnswers, LinkAnswers,
               ReleaseKeyAnswers DEF KeyStep
        <3>2. CASE ReplayStep(r)
            BY <1>1, <2>1, <2>3, <3>2, ValidateReplayAnswers, FindAnswers DEF ReplayStep
        <3>. QED
            BY <1>1, <2>1, <2>3, <2>4, <3>1, <3>2, SendToQueueAnswers, OtherAnswers
               DEF RequestStep
    <2>5. ASSUME NEW r \in Requests, Arrive(r) \/ Failure(r)
          PROVE  KnowsInv' /\ RecordsInv'
        BY <1>1, <2>1, <2>3, <2>5, ArriveAnswers, FailureAnswers
    <2>6. ASSUME NEW j \in Requests, Consume(j)
          PROVE  KnowsInv' /\ RecordsInv'
        BY <1>1, <2>1, <2>3, <2>6, ConsumeAnswers DEF Consume, historyVars
    <2>7. ASSUME NEW s \in Slots, Prune(s)
          PROVE  KnowsInv' /\ RecordsInv'
        BY <1>1, <2>1, <2>3, <2>7, PruneAnswers
    <2>8. CASE UNCHANGED vars
        BY <1>1, <2>1, <2>3, <2>8, ConsumeAnswers DEF vars, historyVars
    <2>. QED
        BY <2>4, <2>5, <2>6, <2>7, <2>8 DEF Next
<1>. QED
    BY <1>2, <1>3 DEF AnswersInv

LEMMA InitAnswers ==
    ASSUME Init
    PROVE  AnswersInv
<1>1. \A r \in Requests : proc[r] = IdleProc /\ job[r].status = "none"
    BY DEF Init
<1>2. IdleProc.pc = "idle" /\ NoRecord.resource = None /\ NoRecord.response = None
    BY DEF IdleProc, NoRecord
<1>3. FirmInv
    BY <1>1, <1>2 DEF FirmInv, Firm
<1>4. KnowsInv
    BY <1>1, <1>2 DEF KnowsInv, Knows, Informed, Decided
<1>5. \A k \in Keys : keys[<<"draft_send", k>>] = NoRecord
    BY DEF Init, Slots, Operations
<1>6. RecordsInv
    BY <1>2, <1>5 DEF RecordsInv, RecordOK, ResourceOK
<1>. QED
    BY <1>3, <1>4, <1>6 DEF AnswersInv

(* Two answers under one key name jobs of one draft, and it has one.       *)
LEMMA OneAnswer == SendInv /\ AnswersInv => AnswersAgree
<1>. SUFFICES ASSUME SendInv, AnswersInv, NEW q \in Requests, NEW r \in Requests, Calm,
                     At(q, "accepted"), At(r, "accepted"), SameKey(q, r),
                     Operation(q) = "draft_send"
              PROVE  proc[q].job = proc[r].job
    BY DEF AnswersAgree, Calm
<1>1. TypeInv /\ OneJob /\ FirmInv /\ KnowsInv
    BY DEF SendInv, RowsInv, AnswersInv
<1>2. Keyed(q)
    <2>1. proc[q].kind \in Kinds /\ (proc[q].kind = "cancel" => proc[q].key = None)
        BY <1>1 DEF TypeInv, TypeOK, ProcType, LocalsOK, LocalOK
    <2>. QED
        BY <2>1 DEF SameKey, Keyed, Client, Operation, Kinds
<1>3. Keyed(r) /\ KeyOf(q) = KeyOf(r)
    BY <1>1, <1>2, SharedKeyed DEF SameKey, KeyOf
<1>. DEFINE k == KeyOf(r)
<1>4. Answered(q, k) /\ Answered(r, k)
    BY <1>1, <1>2, <1>3 DEF KnowsInv, Knows, At
<1>5. \E d : Draws(proc[q].job, d) /\ Draws(proc[r].job, d)
    <2>1. k.what \in ReplaysDraft \/ k.what \in Drafts
        BY <1>1, <1>3, <1>4, ClientPrint DEF Answered, Keyed, At
    <2>. QED
        BY <1>4, <2>1 DEF Answered, ResponseOK
<1>6. \A j, d : Draws(j, d) => Visible(j)
    BY <1>1 DEF FirmInv, Firm, Draws, Visible
<1>. QED
    BY <1>1, <1>5, <1>6 DEF OneJob, Draws

(* Whatever a client is answered under one key, by its first request or by *)
(* any retry that raced it, replayed its record or went on with its draft, *)
(* names one job, for any number of requests, keys and drafts.             *)
THEOREM DraftAnswersAgree == Spec => []AnswersAgree
<1>1. Init => SendInv /\ AnswersInv
    BY InitSends, InitAnswers
<1>2. SendInv /\ AnswersInv /\ [Next]_vars => (SendInv /\ AnswersInv)'
    BY TypeStep, RowsStep, KeysStep, AnswersStep DEF SendInv
<1>3. SendInv /\ AnswersInv => AnswersAgree
    BY OneAnswer
<1>. QED
    BY <1>1, <1>2, <1>3, PTL DEF Spec

-----------------------------------------------------------------------------
(* What a failed request leaves behind.                                    *)

(* Nothing but calls that fail before they take effect.                    *)
Tidy == failed \subseteq {"throw", "queue"}

(* A request holds its draft from the claim to the end of its rollback; a  *)
(* draft that cannot be claimed is closed.                                 *)
Holding == {"Thread", "AssignThread", "Reserve", "Message", "Job", "Queue", "UndoJob",
            "UndoMessage", "UndoDraft"}
Holds(r) == proc[r].pc \in Holding
HoldsDraft(r, d) == Holds(r) /\ proc[r].draft = d
Closed(d) == draft[d].status \notin Sendable \union {"none"}
Has(j, d) == job[j].status # "none" /\ job[j].draft = d
Before == Fresh \union {"Create"}

(* Where a request with a thread of its own, and where one without a       *)
(* credit of its own, can be.                                              *)
Threaded == {"AssignThread", "Reserve", "Message", "Job", "Queue", "UndoJob", "UndoMessage",
             "UndoDraft", "UndoThread"}
Uncredited(p) == Early(p) /\ p.pc \notin {"Message", "Job"}
Credited == {"Message", "Job", "Queue", "UndoJob", "UndoMessage", "UndoCredits"}

(* The row of its draft, as far as a request depends on it.                *)
HoldOK(r) ==
    /\ Holds(r) => /\ Closed(proc[r].draft)
                   /\ draft[proc[r].draft].thread \in {None, r}
                   /\ \A j \in Requests : Has(j, proc[r].draft) => j = r
    /\ Holds(r) \/ proc[r].pc = "Claim" => proc[r].seen \in Sendable /\ proc[r].prior = None
    /\ proc[r].pc = "CancelDraft" => draft[proc[r].draft].status # "none"
    /\ proc[r].pc \in Before => draft[r].status = "none"

(* Its own rows and what it remembers of them.                             *)
OwnOK(r) ==
    LET p == proc[r] IN
    /\ p.pc \in {"Queue", "UndoJob"} => job[r].status = "queued"
    /\ p.pc \in UndoSteps \ {"UndoJob"} => job[r].status = "none"
    /\ Uncredited(p) => ~p.reserved /\ (p.created => p.pc \in {"AssignThread", "Reserve"})
    /\ p.pc \in Credited => p.reserved
    /\ p.pc \in {"Reserve", "Message", "Job", "Queue"} => p.created
    /\ p.pc \in Threaded /\ p.created => r \in threads
    /\ p.pc = "UndoThread" => p.created
    /\ r \in threads => p.created
    /\ message[r] # None => message[r] = r /\ r \in threads

(* A draft that can be claimed has no job and no thread.                   *)
JobOf(d) == \E j \in Requests : Has(j, d) /\ Visible(j) /\ job[j].status = "queued" /\ j \in queue
DraftOK(d) ==
    /\ ~Closed(d) => draft[d].thread = None /\ \A j \in Requests : ~Has(j, d)
    /\ draft[d].thread # None => draft[d].thread \in threads
    /\ draft[d].status = "queued" => JobOf(d) \/ \E r \in Requests : HoldsDraft(r, d)

OneHolder == \A q, r \in Requests : Holds(q) /\ Holds(r) /\ proc[q].draft = proc[r].draft => q = r

Referenced(t) == message[t] = t \/ \E d \in Drafts : draft[d].thread = t
ThreadOK(r) == r \in threads => Referenced(r) \/ proc[r].pc \in Threaded

(* A credit is reserved for each request that has not yet given its own    *)
(* back, and for each queued job.                                          *)
Counted(r) ==
    \/ job[r].status = "queued" \/ proc[r].pc \in {"Message", "Job"}
    \/ proc[r].pc \in UndoSteps /\ proc[r].reserved
CreditsOK == account.reserved = Cardinality({r \in Requests : Counted(r)})

Orderly ==
    /\ \A r \in Requests : HoldOK(r) /\ OwnOK(r) /\ ThreadOK(r)
    /\ \A d \in Drafts : DraftOK(d)
    /\ OneHolder
    /\ CreditsOK
TidyInv == Tidy => Orderly

(* A step of r that writes no draft but x, no rows of other requests, and  *)
(* whose write of x respects who depends on it.                            *)
RowsKept(r, x) ==
    /\ \A d \in Drafts \ {x} : draft'[d] = draft[d]
    /\ \A q \in Requests \ {r} : /\ job'[q] = job[q] /\ message'[q] = message[q]
                                 /\ q \in threads' <=> q \in threads
    /\ queue \subseteq queue'
    /\ r \in queue => job'[r] = job[r] /\ message'[r] = message[r]

Tame(r, x) ==
    /\ Holds(r) => x = proc[r].draft
    /\ Holds(r)' => \/ Holds(r) /\ KeepsDraft(r)
                    \/ \A q \in Requests : ~HoldsDraft(q, proc'[r].draft)
    /\ \/ draft'[x] = draft[x]
       \/ /\ draft'[x].status # "none" /\ (draft[x].status # "none" \/ x = r)
          /\ \A q \in Requests \ {r} : HoldsDraft(q, x) =>
               draft'[x].status \notin Sendable /\ draft'[x].thread = draft[x].thread
    /\ draft'[x].thread = draft[x].thread \/ draft[x].thread \in {None, r}
    /\ (r \in threads => r \in threads') \/ \A d \in Drafts : draft[d].thread # r
    /\ \A d \in Drafts : Has(r, d)' => Has(r, d) \/ HoldsDraft(r, d)

LEMMA OthersHold ==
    ASSUME TypeInv, Orderly, NEW r \in Requests, NEW x \in Drafts, OnlyMoves(r),
           RowsKept(r, x), Tame(r, x), NEW q \in Requests \ {r}
    PROVE  HoldOK(q)'
<1>0. PICK d : d = proc[q].draft
    OBVIOUS
<1>1. proc'[q] = proc[q] /\ HoldOK(q) /\ LocalOK(proc[q])
    BY DEF OnlyMoves, Orderly, TypeInv, LocalsOK
<1>2. Holds(q)' <=> Holds(q)
    BY <1>1 DEF Holds
<1>3. ASSUME Holds(q)
      PROVE  /\ Closed(d)' /\ draft'[d].thread \in {None, q}
             /\ \A j \in Requests : Has(j, d)' => j = q
    <2>1. d \in Drafts /\ Closed(d) /\ draft[d].thread \in {None, q} /\ HoldsDraft(q, d)
        BY <1>0, <1>1, <1>3 DEF LocalOK, Holds, Holding, HoldOK, HoldsDraft
    <2>2. Closed(d)' /\ draft'[d].thread \in {None, q}
        <3>1. CASE draft'[d] = draft[d]
            BY <2>1, <3>1 DEF Closed
        <3>2. CASE draft'[d] # draft[d]
            BY <2>1, <3>2 DEF RowsKept, Tame, Closed
        <3>. QED
            BY <3>1, <3>2
    <2>3. ASSUME NEW j \in Requests, Has(j, d)'
          PROVE  j = q
        <3>1. CASE j # r
            BY <1>0, <1>1, <1>3, <2>3, <3>1 DEF RowsKept, Has, HoldOK
        <3>2. CASE j = r
            <4>1. Has(r, d) \/ HoldsDraft(r, d)
                BY <1>0, <2>1, <2>3, <3>2 DEF Tame
            <4>. QED
                BY <1>0, <1>1, <1>3, <2>1, <4>1 DEF HoldOK, Orderly, OneHolder, HoldsDraft
        <3>. QED
            BY <3>1, <3>2
    <2>. QED
        BY <2>2, <2>3
<1>4. proc[q].pc = "CancelDraft" => draft'[d].status # "none"
    <2>1. proc[q].pc = "CancelDraft" => d \in Drafts /\ draft[d].status # "none"
        BY <1>0, <1>1 DEF HoldOK, LocalOK
    <2>. QED
        BY <2>1 DEF RowsKept, Tame
<1>5. proc[q].pc \in Before => draft'[q].status = "none"
    <2>1. proc[q].pc \in Before => draft[q].status = "none" /\ q \in Drafts
        BY <1>0, <1>1 DEF HoldOK, Drafts
    <2>. QED
        BY <2>1 DEF RowsKept, Tame
<1>6. (Holds(q) \/ proc[q].pc = "Claim") => proc[q].seen \in Sendable /\ proc[q].prior = None
    BY <1>0, <1>1 DEF HoldOK
<1>. QED
    BY <1>0, <1>1, <1>2, <1>3, <1>4, <1>5, <1>6 DEF HoldOK, Has

LEMMA OthersOwn ==
    ASSUME Orderly, NEW r \in Requests, NEW x \in Drafts, OnlyMoves(r), RowsKept(r, x),
           Tame(r, x), NEW q \in Requests \ {r}
    PROVE  OwnOK(q)' /\ ThreadOK(q)'
<1>1. /\ proc'[q] = proc[q] /\ OwnOK(q) /\ ThreadOK(q) /\ job'[q] = job[q]
      /\ message'[q] = message[q] /\ (q \in threads' <=> q \in threads)
    BY DEF OnlyMoves, Orderly, RowsKept
<1>2. OwnOK(q)'
    BY <1>1 DEF OwnOK, Uncredited, Early
<1>3. Referenced(q) => Referenced(q)'
    <2>1. ASSUME NEW d \in Drafts, draft[d].thread = q
          PROVE  draft'[d].thread = q
        <3>1. d = x => draft'[d].thread = draft[d].thread \/ q = None
            BY <2>1 DEF Tame
        <3>2. q # None
            BY DraftSendAssumption DEF Drafts
        <3>. QED
            BY <2>1, <3>1, <3>2 DEF RowsKept
    <2>. QED
        BY <1>1, <2>1 DEF Referenced
<1>. QED
    BY <1>1, <1>2, <1>3 DEF ThreadOK

LEMMA DraftsKept ==
    ASSUME TypeInv, Orderly, NEW r \in Requests, NEW x \in Drafts, OnlyMoves(r),
           RowsKept(r, x), Tame(r, x), NEW d \in Drafts \ {x}
    PROVE  DraftOK(d)'
<1>1. draft'[d] = draft[d] /\ DraftOK(d) /\ HoldOK(r)
    BY DEF RowsKept, Orderly
<1>2. ASSUME ~Closed(d), NEW j \in Requests
      PROVE  ~Has(j, d)'
    <2>1. ~Has(j, d)
        BY <1>1, <1>2 DEF DraftOK
    <2>2. ~HoldsDraft(r, d)
        BY <1>1, <1>2 DEF HoldsDraft, HoldOK
    <2>. QED
        BY <2>1, <2>2 DEF Tame, RowsKept, Has
<1>3. ~Closed(d)' => draft'[d].thread = None /\ \A j \in Requests : ~Has(j, d)'
    BY <1>1, <1>2 DEF Closed, DraftOK
<1>4. draft'[d].thread # None => draft'[d].thread \in threads'
    <2>1. draft[d].thread \in Requests \union {None}
        BY DEF TypeInv, TypeOK
    <2>. QED
        BY <1>1, <2>1 DEF DraftOK, RowsKept, Tame
<1>5. ASSUME draft[d].status = "queued"
      PROVE  JobOf(d)' \/ \E q \in Requests : HoldsDraft(q, d)'
    <2>1. ASSUME NEW j \in Requests, Has(j, d), Visible(j), job[j].status = "queued", j \in queue
          PROVE  JobOf(d)'
        <3>1. job'[j] = job[j] /\ message'[j] = message[j] /\ j \in queue'
            BY <2>1 DEF RowsKept
        <3>. QED
            BY <2>1, <3>1 DEF JobOf, Has, Visible
    <2>2. ASSUME NEW q \in Requests, HoldsDraft(q, d)
          PROVE  HoldsDraft(q, d)'
        <3>1. q # r
            BY <2>2 DEF HoldsDraft, Tame
        <3>. QED
            BY <2>2, <3>1 DEF OnlyMoves, HoldsDraft, Holds
    <2>. QED
        BY <1>1, <1>5, <2>1, <2>2 DEF DraftOK, JobOf
<1>. QED
    BY <1>1, <1>3, <1>4, <1>5 DEF DraftOK

LEMMA TidyMove ==
    ASSUME TypeInv, Orderly, NEW r \in Requests, NEW x \in Drafts, OnlyMoves(r),
           RowsKept(r, x), Tame(r, x),
           HoldOK(r)', OwnOK(r)', ThreadOK(r)', DraftOK(x)', CreditsOK'
    PROVE  Orderly'
<1>1. \A q \in Requests : HoldOK(q)' /\ OwnOK(q)' /\ ThreadOK(q)'
    BY OthersHold, OthersOwn
<1>2. \A d \in Drafts : DraftOK(d)'
    BY DraftsKept
<1>3. OneHolder'
    <2>1. ASSUME NEW q \in Requests, q # r, Holds(q)', Holds(r)', proc'[q].draft = proc'[r].draft
          PROVE  FALSE
        <3>1. proc'[q] = proc[q] /\ Holds(q) /\ HoldsDraft(q, proc'[r].draft)
            BY <2>1 DEF OnlyMoves, Holds, HoldsDraft
        <3>2. Holds(r) /\ proc[r].draft = proc[q].draft
            BY <2>1, <3>1 DEF Tame, KeepsDraft
        <3>. QED
            BY <2>1, <3>1, <3>2 DEF Orderly, OneHolder
    <2>2. ASSUME NEW p \in Requests, NEW q \in Requests, p # r, q # r, Holds(p)', Holds(q)',
                 proc'[p].draft = proc'[q].draft
          PROVE  p = q
        BY <2>2 DEF OnlyMoves, Holds, Orderly, OneHolder
    <2>. QED
        BY <2>1, <2>2 DEF OneHolder
<1>. QED
    BY <1>1, <1>2, <1>3 DEF Orderly

(* What a step does to the credits that are reserved.                      *)
LEMMA CountedFinite ==
    ASSUME NEW S, S \subseteq Requests
    PROVE  IsFiniteSet(S) /\ Cardinality(S) \in Nat
BY FS_Subset, FS_CardinalityType, DraftSendAssumption

LEMMA CreditsMove ==
    ASSUME CreditsOK, NEW r \in Requests, OnlyMoves(r),
           \A q \in Requests \ {r} : job'[q] = job[q],
           \/ (Counted(r)' <=> Counted(r)) /\ account'.reserved = account.reserved
           \/ ~Counted(r) /\ Counted(r)' /\ account'.reserved = account.reserved + 1
           \/ Counted(r) /\ ~Counted(r)' /\ account'.reserved = account.reserved - 1
    PROVE  CreditsOK'
<1>. DEFINE S == {q \in Requests : Counted(q)}
            T == {q \in Requests : Counted(q)'}
<1>1. \A q \in Requests \ {r} : Counted(q)' <=> Counted(q)
    BY DEF OnlyMoves, Counted
<1>2. IsFiniteSet(S) /\ Cardinality(S) \in Nat
    BY CountedFinite
<1>3. account.reserved = Cardinality(S)
    BY DEF CreditsOK
<1>4. CASE (Counted(r)' <=> Counted(r)) /\ account'.reserved = account.reserved
    <2>1. T = S
        BY <1>1, <1>4
    <2>. QED
        BY <1>3, <1>4, <2>1 DEF CreditsOK
<1>5. CASE ~Counted(r) /\ Counted(r)' /\ account'.reserved = account.reserved + 1
    <2>1. T = S \cup {r} /\ r \notin S
        BY <1>1, <1>5
    <2>2. Cardinality(T) = Cardinality(S) + 1
        BY <1>2, <2>1, FS_AddElement
    <2>. QED
        BY <1>3, <1>5, <2>2 DEF CreditsOK
<1>6. CASE Counted(r) /\ ~Counted(r)' /\ account'.reserved = account.reserved - 1
    <2>1. T = S \ {r} /\ r \in S
        BY <1>1, <1>6
    <2>2. Cardinality(T) = Cardinality(S) - 1
        BY <1>2, <2>1, FS_RemoveElement
    <2>. QED
        BY <1>3, <1>6, <2>2 DEF CreditsOK
<1>. QED
    BY <1>4, <1>5, <1>6

LEMMA CountedPositive ==
    ASSUME TypeInv, CreditsOK, NEW r \in Requests, Counted(r)
    PROVE  account.reserved >= 1 /\ account.reserved \in Nat
<1>. DEFINE S == {q \in Requests : Counted(q)}
<1>1. IsFiniteSet(S) /\ Cardinality(S) \in Nat /\ r \in S
    BY CountedFinite
<1>2. Cardinality(S \ {r}) = Cardinality(S) - 1
    BY <1>1, FS_RemoveElement
<1>3. Cardinality(S \ {r}) \in Nat
    BY CountedFinite
<1>. QED
    BY <1>1, <1>2, <1>3 DEF CreditsOK

(* A step that leaves the rows alone.                                      *)
LEMMA TidyLocal ==
    ASSUME TypeInv, Orderly, NEW r \in Requests, OnlyMoves(r),
           UNCHANGED <<draft, threads, message, job, account>>, queue \subseteq queue',
           Holds(r)' => Holds(r) /\ KeepsDraft(r),
           Holds(r) /\ ~Holds(r)' =>
             r \in queue' /\ Visible(r) /\ job[r].status = "queued" /\ Has(r, proc[r].draft),
           Counted(r)' <=> Counted(r), HoldOK(r)', OwnOK(r)', ThreadOK(r)'
    PROVE  Orderly'
<1>. DEFINE y == IF Holds(r) THEN proc[r].draft ELSE r
<1>1. y \in Drafts
    BY DEF Drafts, TypeInv, LocalsOK, LocalOK, Holds, Holding
<1>2. PICK x \in Drafts : x = y
    BY <1>1
<1>. HIDE DEF y
<1>3. RowsKept(r, x)
    BY DEF RowsKept
<1>4. Tame(r, x)
    BY <1>2 DEF Tame, Has, y
<1>5. CreditsOK'
    BY CreditsMove DEF Orderly
<1>6. DraftOK(x)'
    <2>1. DraftOK(x)
        BY DEF Orderly
    <2>2. ASSUME draft[x].status = "queued"
          PROVE  JobOf(x)' \/ \E q \in Requests : HoldsDraft(q, x)'
        <3>1. CASE JobOf(x)
            BY <3>1 DEF JobOf, Has, Visible
        <3>2. ASSUME NEW q \in Requests, HoldsDraft(q, x)
              PROVE  JobOf(x)' \/ HoldsDraft(q, x)'
            <4>1. CASE q # r
                BY <3>2, <4>1 DEF OnlyMoves, HoldsDraft, Holds
            <4>2. CASE q = r /\ Holds(r)'
                BY <3>2, <4>2 DEF HoldsDraft, KeepsDraft
            <4>3. CASE q = r /\ ~Holds(r)'
                BY <3>2, <4>3 DEF HoldsDraft, JobOf, Has, Visible
            <4>. QED
                BY <4>1, <4>2, <4>3
        <3>. QED
            BY <2>1, <2>2, <3>1, <3>2 DEF DraftOK
    <2>. QED
        BY <2>1, <2>2 DEF DraftOK, Closed, Has
<1>. QED
    BY <1>3, <1>4, <1>5, <1>6, TidyMove

(* A step of a request that holds no draft, to one where it holds none.    *)
LEMMA TidyQuiet ==
    ASSUME TypeInv, Orderly, NEW r \in Requests, OnlyMoves(r),
           UNCHANGED <<draft, threads, message, job, account>>, queue' = queue,
           proc[r].pc \notin Holding \union UndoSteps,
           proc'[r].pc \notin Holding \union UndoSteps,
           proc'[r].pc = "Claim" => proc'[r].seen \in Sendable /\ proc'[r].prior = None,
           proc'[r].pc = "CancelDraft" => draft[proc'[r].draft].status # "none",
           proc'[r].pc \in Before => proc[r].pc \in Before,
           Uncredited(proc[r]) \/ ~Uncredited(proc'[r]),
           proc'[r].reserved = proc[r].reserved, proc'[r].created = proc[r].created
    PROVE  Orderly'
<1>1. HoldOK(r) /\ OwnOK(r) /\ ThreadOK(r)
    BY DEF Orderly
<1>2. ~Holds(r) /\ ~Holds(r)'
    BY DEF Holds
<1>3. HoldOK(r)'
    BY <1>1, <1>2 DEF HoldOK
<1>4. proc[r].pc \notin Threaded /\ proc'[r].pc \notin Threaded
    BY DEF Threaded, Holding, UndoSteps
<1>5. ThreadOK(r)'
    BY <1>1, <1>4 DEF ThreadOK, Referenced
<1>6. proc'[r].pc \notin Credited /\ proc'[r].pc \notin UndoSteps \union {"Reserve", "Message", "Job", "Queue"}
    BY DEF Credited, Holding, UndoSteps
<1>7. proc[r].pc \notin {"AssignThread", "Reserve"}
    BY DEF Holding
<1>8. Uncredited(proc'[r]) => ~proc'[r].reserved /\ ~proc'[r].created
    BY <1>1, <1>7 DEF OwnOK
<1>9. OwnOK(r)'
    <2>1. proc'[r].pc \notin {"Queue", "UndoJob"}
        BY DEF Holding
    <2>2. Uncredited(proc[r])' <=> Uncredited(proc'[r])
        BY DEF Uncredited, Early
    <2>. QED
        BY <1>1, <1>4, <1>6, <1>8, <2>1, <2>2 DEF OwnOK, UndoSteps
<1>10. Counted(r)' <=> Counted(r)
    BY DEF Counted, Holding
<1>. QED
    BY <1>2, <1>3, <1>5, <1>9, <1>10, TidyLocal

(* The steps that touch neither the thread nor the credit a request has.   *)
KeepsOwn(r) == proc'[r].reserved = proc[r].reserved /\ proc'[r].created = proc[r].created

LEMMA GoOwn ==
    ASSUME TypeInv, NEW r \in Requests, NEW s, Go(r, s)
    PROVE  KeepsOwn(r) /\ proc'[r].pc = s /\ proc'[r].seen = proc[r].seen
BY DEF Go, KeepsOwn, TypeInv, TypeOK, ProcType

LEMMA FailOwn ==
    ASSUME TypeInv, NEW r \in Requests, Fail(r)
    PROVE  KeepsOwn(r)
BY GoOwn DEF Fail

LEMMA KeyOwn ==
    ASSUME TypeInv, NEW r \in Requests, KeyStep(r)
    PROVE  KeepsOwn(r)
<1>1. CASE Answer(r, keys[Slot(r)])
    BY <1>1 DEF Answer, KeepsOwn, TypeInv, TypeOK, ProcType
<1>2. CASE CheckKey(r) \/ RecheckKey(r)
    BY <1>1, <1>2, GoOwn, FailOwn DEF CheckKey, RecheckKey
<1>3. CASE InsertKey(r)
    <2>1. CASE Go(r, "RecheckKey")
        BY <2>1, GoOwn
    <2>2. CASE keys[Slot(r)].status = "none"
        BY <1>3, <2>2 DEF InsertKey, KeepsOwn, TypeInv, TypeOK, ProcType
    <2>. QED
        BY <1>3, <2>1, <2>2 DEF InsertKey
<1>4. CASE LinkDraft(r) \/ LinkJob(r)
    BY <1>4, GoOwn, FailOwn DEF LinkDraft, LinkJob, Link
<1>5. CASE Complete(r) \/ CompleteReplay(r) \/ ReleaseKey(r)
    BY <1>5, GoOwn, FailOwn DEF Complete, CompleteReplay, ReleaseKey
<1>. QED
    BY <1>2, <1>3, <1>4, <1>5 DEF KeyStep

LEMMA ReplayOwn ==
    ASSUME TypeInv, NEW r \in Requests, ReplayStep(r)
    PROVE  KeepsOwn(r)
<1>1. CASE ValidateReplay(r) \/ FindMessage(r) \/ Reread(r)
    BY <1>1, GoOwn, FailOwn DEF ValidateReplay, FindMessage, Reread
<1>2. CASE FindDraft(r)
    <2>1. CASE Fail(r)
        BY <2>1, FailOwn
    <2>2. CASE ~Fail(r)
        BY <1>2, <2>2 DEF FindDraft, KeepsOwn, TypeInv, TypeOK, ProcType
    <2>. QED
        BY <2>1, <2>2
<1>3. CASE FindJob(r)
    <2>1. ASSUME NEW j, Found(r, j) PROVE KeepsOwn(r)
        BY <2>1 DEF Found, KeepsOwn, TypeInv, TypeOK, ProcType
    <2>2. ASSUME Resume(r) PROVE KeepsOwn(r)
        BY <2>2, FailOwn DEF Resume, KeepsOwn, TypeInv, TypeOK, ProcType
    <2>. QED
        BY <1>3, <2>1, <2>2, GoOwn, FailOwn DEF FindJob
<1>. QED
    BY <1>1, <1>2, <1>3 DEF ReplayStep

LEMMA TidyFail ==
    ASSUME TypeInv, Orderly, NEW r \in Requests, OnlyMoves(r), Fail(r),
           UNCHANGED <<draft, threads, message, job, account>>, queue' = queue,
           proc[r].pc \notin Holding \union UndoSteps
    PROVE  Orderly'
<1>1. KeepsOwn(r) /\ proc'[r].pc \in {"ReleaseKey", "refused"}
    BY FailOwn, GoOwn DEF Fail
<1>2. ~Uncredited(proc'[r])
    BY <1>1 DEF Uncredited, Early, Sending
<1>. QED
    BY <1>1, <1>2, TidyQuiet
       DEF KeepsOwn, Holding, UndoSteps, Before, Fresh, Unowned

LEMMA TidyKey ==
    ASSUME TypeInv, Orderly, NEW r \in Requests, KeyStep(r)
    PROVE  Orderly'
<1>1. /\ UNCHANGED <<draft, threads, message, job, account>> /\ queue' = queue
      /\ proc[r].pc \notin Holding \union UndoSteps
    BY DEF KeyStep, CheckKey, InsertKey, RecheckKey, LinkDraft, LinkJob, Complete,
       CompleteReplay, ReleaseKey, sendVars, At, Holding, UndoSteps
<1>2. OnlyMoves(r) /\ KeepsOwn(r)
    BY RequestTypes, LocalMoves, KeyOwn DEF RequestStep
<1>3. CASE Fail(r)
    BY <1>1, <1>2, <1>3, TidyFail
<1>4. ASSUME NEW s \in {"InsertKey", "RecheckKey", "Validate", "ValidateReplay", "Load"}, Moves(r, s),
             s # "Load" => proc[r].pc \in {"CheckKey", "InsertKey", "RecheckKey"},
             s = "Load" => proc[r].pc = "LinkDraft" /\ proc[r].kind # "workflow"
      PROVE  Orderly'
    <2>1. Uncredited(proc[r])
        BY <1>4 DEF Uncredited, Early
    <2>2. s \in Before => proc[r].pc \in Before
        BY <1>4 DEF Before, Fresh, Unowned
    <2>. QED
        BY <1>1, <1>2, <1>4, <2>1, <2>2, TidyQuiet DEF Moves, KeepsOwn, Holding, UndoSteps
<1>5. ASSUME NEW s \in {"refused", "ReleaseKey", "Complete", "accepted"}, Moves(r, s)
      PROVE  Orderly'
    <2>1. ~Uncredited(proc'[r]) /\ s \notin Before
        BY <1>5 DEF Moves, Uncredited, Early, Sending, Before, Fresh, Unowned
    <2>. QED
        BY <1>1, <1>2, <1>5, <2>1, TidyQuiet DEF Moves, KeepsOwn, Holding, UndoSteps
<1>6. CASE CheckKey(r) \/ RecheckKey(r)
    <2>1. keys[Slot(r)] \in KeyRecords /\ proc[r].pc \in {"CheckKey", "RecheckKey"}
        BY <1>6, HasKey, SlotTypes DEF CheckKey, RecheckKey, At, KeySteps
    <2>2. Answer(r, keys[Slot(r)]) => \E s \in {"ValidateReplay", "refused"} : Moves(r, s)
        BY <2>1, AnswerMoves DEF TypeInv
    <2>3. Go(r, "InsertKey") => Moves(r, "InsertKey")
        BY GoMoves DEF TypeInv, Pcs, Steps, KeySteps, Goes
    <2>. QED
        BY <1>3, <1>4, <1>5, <1>6, <2>1, <2>2, <2>3 DEF CheckKey, RecheckKey
<1>7. CASE InsertKey(r)
    <2>1. proc[r].pc = "InsertKey"
        BY <1>7 DEF InsertKey, At
    <2>2. \E s \in {"Validate", "ReleaseKey", "RecheckKey"} : Moves(r, s)
        BY <1>7, InsertKeyMoves DEF Goes
    <2>. QED
        BY <1>4, <1>5, <2>1, <2>2
<1>8. CASE LinkDraft(r)
    <2>1. proc[r].pc = "LinkDraft"
        BY <1>8 DEF LinkDraft, At
    <2>2. \/ Moves(r, IF proc[r].kind = "workflow" THEN "Complete" ELSE "Load")
          \/ Moves(r, Failing(r))
        BY <1>8, LinkDraftMoves DEF Goes
    <2>. QED
        BY <1>4, <1>5, <2>1, <2>2 DEF Failing
<1>9. CASE LinkJob(r) \/ Complete(r) \/ CompleteReplay(r) \/ ReleaseKey(r)
    <2>1. \E s \in {"Complete", "accepted", "ReleaseKey", "refused"} : Moves(r, s)
        BY <1>9, LinkJobMoves, CompleteMoves, CompleteReplayMoves, ReleaseKeyMoves
           DEF Goes, Failing
    <2>. QED
        BY <1>5, <2>1
<1>. QED
    BY <1>6, <1>7, <1>8, <1>9 DEF KeyStep

LEMMA TidyReplay ==
    ASSUME TypeInv, Orderly, NEW r \in Requests, ReplayStep(r)
    PROVE  Orderly'
<1>1. /\ UNCHANGED <<draft, threads, message, job, account>> /\ queue' = queue
      /\ proc[r].pc \in ReplaySteps
    BY DEF ReplayStep, ValidateReplay, FindDraft, FindJob, FindMessage, Reread, sendVars, At,
       ReplaySteps
<1>2. OnlyMoves(r) /\ KeepsOwn(r) /\ proc[r].pc \notin Holding \union UndoSteps
    BY <1>1, RequestTypes, LocalMoves, ReplayOwn DEF RequestStep, Holding, UndoSteps, ReplaySteps
<1>3. ASSUME NEW s \in {"FindDraft", "FindJob", "FindMessage", "CompleteReplay", "Load", "accepted",
                        "refused", "ReleaseKey"}, Moves(r, s),
             proc[r].pc \in {"ValidateReplay", "FindDraft", "FindJob"} \/
               s \in {"CompleteReplay", "refused", "ReleaseKey"}
      PROVE  Orderly'
    <2>1. Uncredited(proc[r]) \/ ~Uncredited(proc'[r])
        BY <1>3 DEF Moves, Uncredited, Early, Sending
    <2>2. s \notin Before \union Holding \union UndoSteps
        BY DEF Before, Fresh, Unowned, Holding, UndoSteps
    <2>. QED
        BY <1>1, <1>2, <1>3, <2>1, <2>2, TidyQuiet DEF Moves, KeepsOwn
<1>4. CASE ValidateReplay(r)
    BY <1>3, <1>4, ValidateReplayMoves DEF Goes, ValidateReplay, At
<1>5. CASE FindDraft(r) \/ FindJob(r)
    <2>1. proc[r].pc \in {"FindDraft", "FindJob"}
        BY <1>5 DEF FindDraft, FindJob, At
    <2>2. \E s \in {"FindDraft", "FindJob", "FindMessage", "Load", "ReleaseKey", "refused"} : Moves(r, s)
        BY <1>5, FindDraftMoves, FindJobMoves DEF Goes, Failing
    <2>. QED
        BY <1>3, <2>1, <2>2
<1>6. CASE FindMessage(r) \/ Reread(r)
    BY <1>3, <1>6, FindMessageMoves, RereadMoves DEF Goes, Failing
<1>. QED
    BY <1>4, <1>5, <1>6 DEF ReplayStep

LEMMA TidyArrive ==
    ASSUME TypeInv, Orderly, NEW r \in Requests, Arrive(r)
    PROVE  Orderly'
<1>1. OnlyMoves(r) /\ Arrived(r) /\ proc[r].pc = "idle"
    BY ArriveTypes, LocalMoves, ArriveMoves DEF TypeInv
<1>2. UNCHANGED <<draft, threads, message, job, account>> /\ queue' = queue
    BY DEF Arrive, sendVars
<1>3. Uncredited(proc[r]) /\ proc[r].pc \in Before
    BY <1>1 DEF Uncredited, Early, Before, Fresh, Unowned
<1>4. ~proc[r].reserved /\ ~proc[r].created
    BY <1>1, <1>3 DEF Orderly, OwnOK
<1>5. proc[r].reserved \in BOOLEAN /\ proc'[r].reserved \in BOOLEAN
      /\ proc[r].created \in BOOLEAN /\ proc'[r].created \in BOOLEAN
    BY ArriveMoves DEF TypeInv, TypeOK, ProcType
<1>6. /\ proc'[r].pc \in {"CheckKey", "Validate", "CancelDraft", "refused", "cancelled"}
      /\ proc'[r].pc = "CancelDraft" => draft[proc'[r].draft].status # "none"
      /\ proc'[r].reserved = proc[r].reserved /\ proc'[r].created = proc[r].created
    BY <1>1, <1>4, <1>5 DEF Arrived
<1>. QED
    BY <1>1, <1>2, <1>3, <1>6, TidyQuiet DEF Holding, UndoSteps

LEMMA TidyValidate ==
    ASSUME TypeInv, Orderly, NEW r \in Requests, Validate(r)
    PROVE  Orderly'
<1>1. /\ UNCHANGED <<draft, threads, message, job, account>> /\ queue' = queue
      /\ proc[r].pc = "Validate"
    BY DEF Validate, sendVars, At
<1>2. OnlyMoves(r)
    BY RequestTypes, LocalMoves DEF RequestStep
<1>3. CASE Fail(r)
    BY <1>1, <1>2, <1>3, TidyFail DEF Holding, UndoSteps
<1>4. CASE Go(r, IF proc[r].kind = "send" THEN "Load" ELSE "Create")
    <2>1. KeepsOwn(r) /\ proc'[r].pc \in {"Load", "Create"}
        BY <1>4, GoOwn
    <2>2. Uncredited(proc[r]) /\ proc[r].pc \in Before
        BY <1>1 DEF Uncredited, Early, Before, Fresh, Unowned
    <2>. QED
        BY <1>1, <1>2, <2>1, <2>2, TidyQuiet DEF KeepsOwn, Holding, UndoSteps
<1>. QED
    BY <1>3, <1>4 DEF Validate

(* What it reads of a draft it can send is what a rollback restores.       *)
LEMMA TidyLoad ==
    ASSUME TypeInv, Orderly, NEW r \in Requests, Load(r)
    PROVE  Orderly'
<1>0. PICK d : d = proc[r].draft
    OBVIOUS
<1>1. /\ UNCHANGED <<draft, threads, message, job, account>> /\ queue' = queue
      /\ proc[r].pc = "Load"
    BY DEF Load, sendVars, At
<1>2. OnlyMoves(r)
    BY LoadActionMoves, LocalMoves
<1>3. CASE Fail(r)
    BY <1>1, <1>2, <1>3, TidyFail DEF Holding, UndoSteps
<1>4. CASE ~Fail(r)
    <2>1. /\ draft[d].status \in Sendable
          /\ proc' = [proc EXCEPT ![r].pc = "Claim", ![r].seen = draft[d].status,
                                  ![r].prior = draft[d].thread]
        BY <1>0, <1>4 DEF Load
    <2>2. /\ proc'[r].pc = "Claim" /\ proc'[r].seen = draft[d].status
          /\ proc'[r].prior = draft[d].thread /\ KeepsOwn(r)
        BY <2>1 DEF KeepsOwn, TypeInv, TypeOK, ProcType
    <2>3. d \in Drafts
        BY <1>0, <1>1 DEF TypeInv, LocalsOK, LocalOK
    <2>4. proc'[r].prior = None
        BY <2>1, <2>2, <2>3 DEF Orderly, DraftOK, Closed
    <2>5. Uncredited(proc[r])
        BY <1>1 DEF Uncredited, Early, Sending
    <2>. QED
        BY <1>1, <1>2, <2>1, <2>2, <2>4, <2>5, TidyQuiet
           DEF KeepsOwn, Holding, UndoSteps, Before, Fresh, Unowned
<1>. QED
    BY <1>3, <1>4

LEMMA TidyClaim ==
    ASSUME TypeInv, Orderly, NEW r \in Requests, Claim(r)
    PROVE  Orderly'
<1>0. PICK x : x = proc[r].draft
    OBVIOUS
<1>1. /\ UNCHANGED <<threads, message, job, account>> /\ queue' = queue
      /\ proc[r].pc = "Claim" /\ x \in Drafts
    BY <1>0 DEF Claim, At, TypeInv, LocalsOK, LocalOK
<1>2. OnlyMoves(r)
    BY ClaimMoves, LocalMoves
<1>3. CASE Fail(r) /\ draft' = draft
    BY <1>1, <1>2, <1>3, TidyFail DEF Holding, UndoSteps
<1>4. CASE ~(Fail(r) /\ draft' = draft)
    <2>1. /\ HoldOK(r) /\ OwnOK(r) /\ DraftOK(x) /\ ~Holds(r)
          /\ proc[r].seen \in Sendable /\ proc[r].prior = None
        BY <1>0, <1>1 DEF Orderly, HoldOK, Holds, Holding
    <2>2. /\ draft[x].status \in Sendable /\ Go(r, "Thread")
          /\ draft' = [draft EXCEPT ![x].status = "queued"]
        BY <1>0, <1>4, <2>1 DEF Claim
    <2>3. /\ proc'[r].pc = "Thread" /\ KeepsOwn(r) /\ proc'[r].seen = proc[r].seen
          /\ proc'[r].prior = None /\ proc'[r].draft = x
        BY <1>0, <2>1, <2>2, GoOwn, GoMoves
           DEF TypeInv, Goes, KeepsThread, KeepsDraft, Pcs, Steps, EnqueueSteps
    <2>4. /\ draft'[x].status = "queued" /\ draft'[x].thread = None
          /\ \A d \in Drafts \ {x} : draft'[d] = draft[d]
          /\ draft[x].thread = None /\ \A j \in Requests : ~Has(j, x)
        BY <1>1, <2>1, <2>2 DEF TypeInv, TypeOK, DraftOK, Closed
    <2>5. \A q \in Requests : ~HoldsDraft(q, x)
        BY <2>2 DEF Orderly, HoldOK, HoldsDraft, Closed
    <2>6. RowsKept(r, x)
        BY <1>1, <2>4 DEF RowsKept
    <2>7. Tame(r, x)
        BY <1>1, <2>1, <2>2, <2>3, <2>4, <2>5 DEF Tame, Has, Sendable
    <2>8. HoldOK(r)'
        BY <1>1, <2>1, <2>3, <2>4 DEF HoldOK, Closed, Has, Sendable, Before, Fresh, Unowned
    <2>9. Uncredited(proc[r]) /\ Uncredited(proc'[r]) /\ r \notin threads
        BY <1>1, <2>1, <2>3 DEF Uncredited, Early, Sending, OwnOK
    <2>10. OwnOK(r)' /\ ThreadOK(r)'
        BY <1>1, <2>1, <2>3, <2>9 DEF OwnOK, KeepsOwn, UndoSteps, Credited, Threaded, ThreadOK
    <2>11. DraftOK(x)'
        BY <1>1, <2>3, <2>4 DEF DraftOK, Closed, HoldsDraft, Holds, Holding, Sendable
    <2>12. CreditsOK'
        BY <1>1, <1>2, <2>3, CreditsMove DEF Counted, UndoSteps, Orderly
    <2>. QED
        BY <1>1, <1>2, <2>6, <2>7, <2>8, <2>10, <2>11, <2>12, TidyMove
<1>. QED
    BY <1>3, <1>4

(* A step of a request that holds its draft and goes on holding it.        *)
LEMMA TidyHeld ==
    ASSUME TypeInv, Orderly, NEW r \in Requests, NEW x \in Drafts, x = proc[r].draft,
           OnlyMoves(r), Holds(r), proc'[r].pc \in Holding \ {"Thread"}, KeepsDraft(r),
           proc'[r].seen = proc[r].seen, proc'[r].prior = proc[r].prior,
           \A d \in Drafts \ {x} : draft'[d] = draft[d],
           draft'[x].status = draft[x].status,
           draft'[x].thread = draft[x].thread \/ (draft'[x].thread = r /\ r \in threads'),
           \A q \in Requests \ {r} : /\ job'[q] = job[q] /\ message'[q] = message[q]
                                     /\ q \in threads' <=> q \in threads,
           queue' = queue, r \in queue => job'[r] = job[r] /\ message'[r] = message[r],
           r \in threads => r \in threads',
           \A d \in Drafts : Has(r, d)' => Has(r, d) \/ d = x,
           OwnOK(r)', CreditsOK'
    PROVE  Orderly'
<1>1. /\ HoldOK(r) /\ DraftOK(x) /\ Closed(x) /\ draft[x].thread \in {None, r}
      /\ \A j \in Requests : Has(j, x) => j = r
    BY DEF Orderly, HoldOK
<1>2. Holds(r)' /\ proc'[r].draft = x
    BY DEF Holds, KeepsDraft
<1>3. RowsKept(r, x)
    BY DEF RowsKept
<1>4. \A q \in Requests \ {r} : ~HoldsDraft(q, x)
    BY DEF Orderly, OneHolder, HoldsDraft
<1>5. Tame(r, x)
    BY <1>1, <1>4 DEF Tame, HoldsDraft, Closed
<1>6. draft'[x].thread \in {None, r} /\ Closed(x)'
    BY <1>1 DEF Closed
<1>7. \A j \in Requests : Has(j, x)' => j = r
    BY <1>1 DEF Has
<1>8. HoldOK(r)'
    BY <1>1, <1>2, <1>6, <1>7 DEF HoldOK, Holds, Holding, Before, Fresh, Unowned, Closed, Has
<1>9. ThreadOK(r)'
    BY DEF ThreadOK, Threaded, Holding
<1>10. DraftOK(x)'
    <2>1. draft'[x].thread # None => draft'[x].thread \in threads'
        BY <1>1 DEF DraftOK
    <2>2. HoldsDraft(r, x)'
        BY <1>2 DEF HoldsDraft
    <2>. QED
        BY <1>6, <2>1, <2>2 DEF DraftOK
<1>. QED
    BY <1>3, <1>5, <1>8, <1>9, <1>10, TidyMove

LEMMA TidyThread ==
    ASSUME TypeInv, RowsInv, Orderly, NEW r \in Requests, Thread(r) \/ AssignThread(r)
    PROVE  Orderly'
<1>0. PICK x : x = proc[r].draft
    OBVIOUS
<1>1. /\ UNCHANGED <<message, job, account>> /\ queue' = queue
      /\ proc[r].pc \in {"Thread", "AssignThread"} /\ x \in Drafts
    BY <1>0 DEF Thread, AssignThread, At, TypeInv, LocalsOK, LocalOK
<1>2. OwnOK(r) /\ Holds(r) /\ Uncredited(proc[r]) /\ ~proc[r].reserved
    BY <1>1 DEF Orderly, OwnOK, Holds, Holding, Uncredited, Early, Sending
<1>3. CASE Thread(r)
    <2>1. threads' = threads \union {r} /\ draft' = draft
        BY <1>3 DEF Thread
    <2>2. /\ proc'[r].pc = "AssignThread" /\ proc'[r].created = TRUE
          /\ proc'[r].reserved = proc[r].reserved /\ proc'[r].seen = proc[r].seen
        BY <1>3 DEF Thread, TypeInv, TypeOK, ProcType
    <2>3. OnlyMoves(r) /\ KeepsDraft(r) /\ proc'[r].prior = proc[r].prior
        BY <1>3, ThreadActionMoves, LocalMoves
    <2>4. OwnOK(r)'
        BY <1>1, <1>2, <2>1, <2>2 DEF OwnOK, Uncredited, Credited, UndoSteps
    <2>5. CreditsOK'
        BY <1>1, <2>2, <2>3, CreditsMove DEF Counted, UndoSteps, Orderly
    <2>. QED
        BY <1>0, <1>1, <1>2, <2>1, <2>2, <2>3, <2>4, <2>5, TidyHeld DEF Holding, Has
<1>4. CASE AssignThread(r)
    <2>1. /\ threads' = threads /\ proc[r].pc = "AssignThread" /\ Go(r, "Reserve")
          /\ draft' = [draft EXCEPT ![x].thread = r]
        BY <1>0, <1>4 DEF AssignThread, At
    <2>2. /\ proc'[r].pc = "Reserve" /\ KeepsOwn(r) /\ proc'[r].seen = proc[r].seen
        BY <2>1, GoOwn
    <2>3. OnlyMoves(r) /\ KeepsDraft(r) /\ KeepsThread(r)
        BY <1>4, AssignThreadMoves, LocalMoves DEF Goes
    <2>4. proc[r].created /\ r \in threads
        BY <1>2, <2>1 DEF OwnOK, Threaded, RowsInv, RowsOf
    <2>5. OwnOK(r)'
        BY <1>1, <1>2, <2>1, <2>2, <2>4
           DEF OwnOK, KeepsOwn, Uncredited, Credited, UndoSteps, Threaded
    <2>6. CreditsOK'
        BY <1>1, <2>1, <2>2, <2>3, CreditsMove DEF Counted, UndoSteps, Orderly
    <2>7. /\ \A d \in Drafts \ {x} : draft'[d] = draft[d]
          /\ draft'[x].status = draft[x].status /\ draft'[x].thread = r
        BY <1>1, <2>1 DEF TypeInv, TypeOK
    <2>. QED
        BY <1>0, <1>1, <1>2, <2>1, <2>2, <2>3, <2>4, <2>5, <2>6, <2>7, TidyHeld
           DEF Holding, Has, KeepsThread
<1>. QED
    BY <1>3, <1>4

LEMMA TidyReserve ==
    ASSUME TypeInv, RowsInv, Orderly, NEW r \in Requests, Reserve(r)
    PROVE  Orderly'
<1>0. PICK x : x = proc[r].draft
    OBVIOUS
<1>1. /\ UNCHANGED <<draft, threads, message, job>> /\ queue' = queue
      /\ proc[r].pc = "Reserve" /\ x \in Drafts
    BY <1>0 DEF Reserve, At, TypeInv, LocalsOK, LocalOK
<1>2. /\ OwnOK(r) /\ Holds(r) /\ Uncredited(proc[r]) /\ ~proc[r].reserved /\ proc[r].created
      /\ r \in threads
    BY <1>1 DEF Orderly, OwnOK, Holds, Holding, Uncredited, Early, Sending, Threaded
<1>3. OnlyMoves(r) /\ KeepsDraft(r) /\ KeepsThread(r) /\ proc'[r].pc \in {"Message", "UndoDraft"}
    BY ReserveActionMoves, LocalMoves DEF Goes, Moves
<1>4. job[r].status = "none"
    BY <1>2 DEF RowsInv, RowsOf, Uncredited
<1>5. proc'[r].seen = proc[r].seen
    BY DEF Reserve, Go, TypeInv, TypeOK, ProcType
<1>6. \/ /\ proc'[r].pc = "Message" /\ proc'[r].reserved
         /\ account'.reserved = account.reserved + 1
      \/ proc'[r].pc = "UndoDraft" /\ ~proc'[r].reserved /\ account' = account
    <2>1. CASE account.available >= 1
        <3>1. proc'[r].pc = "Message" /\ proc'[r].reserved
            BY <2>1 DEF Reserve, TypeInv, TypeOK, ProcType
        <3>2. account'.reserved = account.reserved + 1
            BY <2>1 DEF Reserve
        <3>. QED
            BY <3>1, <3>2
    <2>2. CASE ~(account.available >= 1)
        BY <1>2, <2>2, GoOwn DEF Reserve, KeepsOwn
    <2>. QED
        BY <2>1, <2>2
<1>7. OwnOK(r)'
    BY <1>1, <1>2, <1>3, <1>4, <1>6
       DEF OwnOK, KeepsThread, Uncredited, Early, Sending, Credited, UndoSteps
<1>8. CreditsOK'
    <2>1. ~Counted(r)
        BY <1>1, <1>4 DEF Counted, UndoSteps
    <2>2. Counted(r)' <=> proc'[r].pc = "Message"
        BY <1>1, <1>3, <1>4, <1>6 DEF Counted
    <2>. QED
        BY <1>1, <1>3, <1>6, <2>1, <2>2, CreditsMove DEF Orderly
<1>. QED
    BY <1>0, <1>1, <1>2, <1>3, <1>5, <1>7, <1>8, TidyHeld DEF Holding, Has, KeepsThread

LEMMA TidyMessage ==
    ASSUME TypeInv, RowsInv, Orderly, NEW r \in Requests, InsertMessage(r)
    PROVE  Orderly'
<1>0. PICK x : x = proc[r].draft
    OBVIOUS
<1>1. /\ UNCHANGED <<draft, threads, job, account>> /\ queue' = queue
      /\ proc[r].pc = "Message" /\ x \in Drafts /\ Go(r, "Job")
    BY <1>0 DEF InsertMessage, At, TypeInv, LocalsOK, LocalOK
<1>2. OwnOK(r) /\ Holds(r) /\ proc[r].reserved /\ proc[r].created /\ r \in threads
    BY <1>1 DEF Orderly, OwnOK, Holds, Holding, Threaded, Credited
<1>3. OnlyMoves(r) /\ KeepsDraft(r) /\ KeepsThread(r)
    BY InsertMessageMoves, LocalMoves DEF Goes
<1>4. proc'[r].pc = "Job" /\ KeepsOwn(r) /\ proc'[r].seen = proc[r].seen
    BY <1>1, GoOwn
<1>5. message'[r] = r /\ \A q \in Requests \ {r} : message'[q] = message[q]
    BY <1>2 DEF InsertMessage, TypeInv, TypeOK
<1>6. r \notin queue
    BY <1>1 DEF RowsInv, RowsOf, Early, Sending, Out
<1>7. OwnOK(r)'
    BY <1>1, <1>2, <1>4, <1>5 DEF OwnOK, KeepsOwn, Uncredited, UndoSteps
<1>8. CreditsOK'
    BY <1>1, <1>3, <1>4, CreditsMove DEF Counted, Orderly
<1>. QED
    BY <1>0, <1>1, <1>2, <1>3, <1>4, <1>5, <1>6, <1>7, <1>8, TidyHeld DEF Holding, Has, KeepsThread

(* Nobody else has a job of a draft that a request holds.                  *)
LEMMA TidyJob ==
    ASSUME TypeInv, RowsInv, Orderly, NEW r \in Requests, InsertJob(r)
    PROVE  Orderly'
<1>0. PICK x : x = proc[r].draft
    OBVIOUS
<1>1. /\ UNCHANGED <<draft, threads, message, account>> /\ queue' = queue
      /\ proc[r].pc = "Job" /\ x \in Drafts
    BY <1>0 DEF InsertJob, At, TypeInv, LocalsOK, LocalOK
<1>2. OwnOK(r) /\ Holds(r) /\ proc[r].reserved /\ proc[r].created /\ r \in threads
    BY <1>1 DEF Orderly, OwnOK, Holds, Holding, Threaded, Credited
<1>3. job[r].status = "none" /\ r \notin queue
    BY <1>1 DEF RowsInv, RowsOf, Early, Sending, Out
<1>4. \A j \in Requests : ~Has(j, x)
    BY <1>0, <1>2, <1>3 DEF Orderly, HoldOK, Has
<1>5. VisibleJobs(x) = {}
    BY <1>4 DEF VisibleJobs, JobsOf, Has
<1>6. Go(r, "Queue") /\ job' = [job EXCEPT ![r] = [status |-> "queued", draft |-> x]]
    BY <1>0, <1>5 DEF InsertJob
<1>7. /\ job'[r].status = "queued" /\ job'[r].draft = x
      /\ \A q \in Requests \ {r} : job'[q] = job[q]
    BY <1>6 DEF TypeInv, TypeOK
<1>8. OnlyMoves(r) /\ KeepsDraft(r) /\ KeepsThread(r)
    BY InsertJobMoves, LocalMoves DEF Goes
<1>9. proc'[r].pc = "Queue" /\ KeepsOwn(r) /\ proc'[r].seen = proc[r].seen
    BY <1>6, GoOwn
<1>10. OwnOK(r)'
    BY <1>1, <1>2, <1>7, <1>9 DEF OwnOK, KeepsOwn, Uncredited, Early, Sending, UndoSteps
<1>11. CreditsOK'
    BY <1>1, <1>7, <1>8, <1>9, CreditsMove DEF Counted, Orderly
<1>. QED
    BY <1>0, <1>1, <1>2, <1>3, <1>7, <1>8, <1>9, <1>10, <1>11, TidyHeld
       DEF Holding, Has, KeepsThread

LEMMA TidySent ==
    ASSUME TypeInv, RowsInv, Orderly, NEW r \in Requests, SendToQueue(r)
    PROVE  Orderly'
<1>1. /\ UNCHANGED <<draft, threads, message, job, account>> /\ queue' = queue \union {r}
      /\ proc[r].pc = "Queue"
    BY DEF SendToQueue, At
<1>2. /\ OnlyMoves(r) /\ Moves(r, AfterQueue(r)) /\ KeepsThread(r)
    BY SendToQueueMoves, LocalMoves
<1>3. /\ OwnOK(r) /\ Holds(r) /\ job[r].status = "queued" /\ message[r] # None
      /\ job[r].draft = proc[r].draft
    BY <1>1 DEF Orderly, OwnOK, Holds, Holding, RowsInv, RowsOf
<1>4. /\ proc'[r].pc \in {"Reread", "accepted", "Complete", "LinkDraft", "LinkJob"}
      /\ proc'[r].pc = "LinkDraft" => proc'[r].kind = "workflow"
    BY <1>2 DEF Moves, AfterQueue
<1>5. ~Uncredited(proc'[r]) /\ ~Holds(r)'
    BY <1>4 DEF Uncredited, Early, Sending, Holds, Holding
<1>6. HoldOK(r)'
    BY <1>4, <1>5 DEF HoldOK, Before, Fresh, Unowned
<1>7. OwnOK(r)'
    BY <1>1, <1>2, <1>3, <1>4, <1>5 DEF OwnOK, KeepsThread, UndoSteps, Credited, Threaded
<1>8. ThreadOK(r)'
    BY <1>1, <1>3 DEF OwnOK, ThreadOK, Referenced
<1>9. Counted(r)' <=> Counted(r)
    BY <1>1, <1>3 DEF Counted
<1>. QED
    BY <1>1, <1>2, <1>3, <1>5, <1>6, <1>7, <1>8, <1>9, TidyLocal DEF Visible, Has

(* The rollback, in order; the last two steps are for what there is.       *)
LEMMA UndoNext ==
    ASSUME TypeInv, NEW r \in Requests, Undo(r)
    PROVE  /\ OnlyMoves(r) /\ KeepsOwn(r) /\ KeepsDraft(r) /\ KeepsThread(r)
           /\ proc'[r].seen = proc[r].seen /\ queue' = queue
           /\ proc[r].pc = "UndoJob" => proc'[r].pc = "UndoMessage"
           /\ proc[r].pc = "UndoMessage" => proc'[r].pc = "UndoDraft"
           /\ proc[r].pc = "UndoDraft" =>
                proc'[r].pc \in IF proc[r].created THEN {"UndoThread"}
                                ELSE IF proc[r].reserved THEN {"UndoCredits"}
                                ELSE {"ReleaseKey", "refused"}
           /\ proc[r].pc = "UndoThread" =>
                proc'[r].pc \in IF proc[r].reserved THEN {"UndoCredits"}
                                ELSE {"ReleaseKey", "refused"}
           /\ proc[r].pc = "UndoCredits" => proc'[r].pc \in {"ReleaseKey", "refused"}
<1>1. OnlyMoves(r) /\ KeepsDraft(r) /\ KeepsThread(r)
    BY UndoMoves, LocalMoves DEF Goes
<1>2. KeepsOwn(r) /\ proc'[r].pc = AfterUndo(r) /\ proc'[r].seen = proc[r].seen /\ queue' = queue
    BY GoOwn DEF Undo
<1>3. PICK p : p = proc[r].pc
    OBVIOUS
<1>4. proc[r].created \in BOOLEAN /\ proc[r].reserved \in BOOLEAN
    BY DEF TypeInv, TypeOK, ProcType
<1>5. /\ p = "UndoJob" => AfterUndo(r) = "UndoMessage"
      /\ p = "UndoMessage" => AfterUndo(r) = "UndoDraft"
      /\ p = "UndoCredits" => AfterUndo(r) \in {"ReleaseKey", "refused"}
    BY <1>3 DEF AfterUndo
<1>6. p = "UndoDraft" =>
        AfterUndo(r) \in IF proc[r].created THEN {"UndoThread"}
                         ELSE IF proc[r].reserved THEN {"UndoCredits"}
                         ELSE {"ReleaseKey", "refused"}
    BY <1>3, <1>4 DEF AfterUndo
<1>7. p = "UndoThread" =>
        AfterUndo(r) \in IF proc[r].reserved THEN {"UndoCredits"} ELSE {"ReleaseKey", "refused"}
    BY <1>3, <1>4 DEF AfterUndo
<1>. QED
    BY <1>1, <1>2, <1>3, <1>5, <1>6, <1>7

LEMMA TidyUndoRows ==
    ASSUME TypeInv, RowsInv, Sure, Orderly, NEW r \in Requests, Undo(r),
           UndoJob(r) \/ UndoMessage(r)
    PROVE  Orderly'
<1>0. PICK x : x = proc[r].draft
    OBVIOUS
<1>1. /\ UNCHANGED <<draft, threads, account>> /\ queue' = queue
      /\ proc[r].pc \in {"UndoJob", "UndoMessage"} /\ x \in Drafts
    BY <1>0, UndoNext DEF UndoJob, UndoMessage, At, TypeInv, LocalsOK, LocalOK
<1>2. OwnOK(r) /\ Holds(r) /\ proc[r].reserved
    BY <1>1 DEF Orderly, OwnOK, Holds, Holding, Credited
<1>3. /\ OnlyMoves(r) /\ KeepsOwn(r) /\ KeepsDraft(r) /\ KeepsThread(r)
      /\ proc'[r].seen = proc[r].seen
    BY UndoNext
<1>4. r \notin queue
    BY <1>1 DEF RowsInv, RowsOf, Out, UndoSteps
<1>5. proc'[r].pc \in {"UndoMessage", "UndoDraft"}
    BY <1>1, UndoNext
<1>6. /\ \A q \in Requests \ {r} : job'[q] = job[q] /\ message'[q] = message[q]
      /\ \A d \in Drafts : Has(r, d)' => Has(r, d)
      /\ job'[r].status = "none" /\ message'[r] \in {None, message[r]}
    <2>1. CASE UndoJob(r)
        BY <2>1 DEF UndoJob, Has, TypeInv, TypeOK
    <2>2. CASE UndoMessage(r)
        <3>1. job[r].status = "none"
            BY <1>2, <2>2 DEF UndoMessage, At, OwnOK, UndoSteps
        <3>. QED
            BY <2>2, <3>1 DEF UndoMessage, Has, TypeInv, TypeOK
    <2>. QED
        BY <2>1, <2>2
<1>7. ~Uncredited(proc'[r])
    BY <1>5 DEF Uncredited, Early, Sending
<1>8. proc[r].created => r \in threads
    BY <1>1, <1>2 DEF OwnOK, Threaded
<1>9. OwnOK(r)'
    BY <1>1, <1>2, <1>3, <1>5, <1>6, <1>7, <1>8 DEF OwnOK, KeepsOwn, UndoSteps
<1>10. CreditsOK'
    <2>1. Counted(r) /\ Counted(r)'
        BY <1>1, <1>2, <1>3, <1>5 DEF Counted, KeepsOwn, UndoSteps
    <2>. QED
        BY <1>1, <1>3, <1>6, <2>1, CreditsMove DEF Orderly
<1>. QED
    BY <1>0, <1>1, <1>2, <1>3, <1>4, <1>5, <1>6, <1>9, <1>10, TidyHeld DEF Holding, KeepsThread

(* The draft can be claimed again, without a job and without a thread.     *)
LEMMA TidyUndoDraft ==
    ASSUME TypeInv, RowsInv, Orderly, NEW r \in Requests, Undo(r), UndoDraft(r)
    PROVE  Orderly'
<1>0. PICK x : x = proc[r].draft
    OBVIOUS
<1>1. /\ UNCHANGED <<threads, message, job, account>> /\ queue' = queue
      /\ proc[r].pc = "UndoDraft" /\ x \in Drafts
    BY <1>0, UndoNext DEF UndoDraft, At, TypeInv, LocalsOK, LocalOK
<1>2. /\ OwnOK(r) /\ HoldOK(r) /\ ThreadOK(r) /\ Holds(r) /\ job[r].status = "none"
      /\ Closed(x) /\ draft[x].thread \in {None, r} /\ proc[r].seen \in Sendable
      /\ proc[r].prior = None /\ \A j \in Requests : Has(j, x) => j = r
    BY <1>0, <1>1 DEF Orderly, OwnOK, HoldOK, Holds, Holding, UndoSteps
<1>3. OnlyMoves(r) /\ KeepsOwn(r)
    BY UndoNext
<1>4. /\ proc'[r].pc \in {"UndoThread", "UndoCredits", "ReleaseKey", "refused"}
      /\ proc'[r].pc = "UndoThread" <=> proc[r].created
      /\ proc'[r].pc \in {"UndoThread", "UndoCredits"} => proc[r].created \/ proc[r].reserved
      /\ proc'[r].pc = "UndoCredits" => proc[r].reserved
      /\ proc'[r].pc \in {"ReleaseKey", "refused"} => ~proc[r].reserved
    BY <1>1, UndoNext
<1>5. /\ draft'[x].status \in Sendable /\ draft'[x].thread = None
      /\ \A d \in Drafts \ {x} : draft'[d] = draft[d]
    BY <1>0, <1>1, <1>2 DEF UndoDraft, TypeInv, TypeOK
<1>6. \A q \in Requests \ {r} : ~HoldsDraft(q, x)
    BY <1>0, <1>2 DEF Orderly, OneHolder, HoldsDraft
<1>7. ~Holds(r)'
    BY <1>4 DEF Holds, Holding
<1>8. RowsKept(r, x)
    BY <1>1, <1>5 DEF RowsKept
<1>9. Tame(r, x)
    BY <1>0, <1>1, <1>2, <1>5, <1>6, <1>7 DEF Tame, Has, Closed, Sendable
<1>10. HoldOK(r)'
    BY <1>4, <1>7 DEF HoldOK, Before, Fresh, Unowned
<1>11. OwnOK(r)'
    <2>1. ~Uncredited(proc'[r])
        BY <1>4 DEF Uncredited, Early, Sending
    <2>2. proc[r].created => r \in threads
        BY <1>1, <1>2 DEF OwnOK, Threaded
    <2>. QED
        BY <1>1, <1>2, <1>3, <1>4, <2>1, <2>2 DEF OwnOK, KeepsOwn, Credited, UndoSteps
<1>12. ThreadOK(r)'
    BY <1>1, <1>2, <1>4 DEF ThreadOK, OwnOK, Threaded
<1>13. DraftOK(x)'
    BY <1>1, <1>2, <1>5 DEF DraftOK, Has, Closed, Sendable
<1>14. CreditsOK'
    <2>1. Counted(r)' <=> Counted(r)
        BY <1>1, <1>2, <1>3, <1>4 DEF Counted, KeepsOwn, UndoSteps
    <2>. QED
        BY <1>1, <1>3, <2>1, CreditsMove DEF Orderly
<1>. QED
    BY <1>1, <1>3, <1>8, <1>9, <1>10, <1>11, <1>12, <1>13, <1>14, TidyMove

(* A step of a request without a draft to hold that writes no draft.       *)
LEMMA TidyApart ==
    ASSUME TypeInv, Orderly, NEW r \in Requests, OnlyMoves(r), proc[r].pc \notin Holding,
           proc'[r].pc \notin Holding \union Before \union {"Claim", "CancelDraft"},
           UNCHANGED <<draft, message, job>>, queue' = queue,
           \A q \in Requests \ {r} : q \in threads' <=> q \in threads,
           (r \in threads => r \in threads') \/ \A d \in Drafts : draft[d].thread # r,
           OwnOK(r)', ThreadOK(r)', CreditsOK'
    PROVE  Orderly'
<1>1. PICK x \in Drafts : x = r
    BY DEF Drafts
<1>2. ~Holds(r) /\ ~Holds(r)'
    BY DEF Holds
<1>3. RowsKept(r, x)
    BY DEF RowsKept
<1>4. Tame(r, x)
    BY <1>2 DEF Tame, Has
<1>5. HoldOK(r)'
    BY <1>2 DEF HoldOK
<1>6. DraftOK(x)'
    <2>1. DraftOK(x) /\ draft[x].thread \in Requests \union {None}
        BY DEF Orderly, TypeInv, TypeOK
    <2>2. draft'[x].thread # None => draft'[x].thread \in threads'
        BY <2>1 DEF DraftOK
    <2>3. JobOf(x) => JobOf(x)'
        BY DEF JobOf, Has, Visible
    <2>4. ASSUME NEW q \in Requests, HoldsDraft(q, x)
          PROVE  HoldsDraft(q, x)'
        BY <1>2, <2>4 DEF HoldsDraft, Holds, OnlyMoves
    <2>. QED
        BY <2>1, <2>2, <2>3, <2>4 DEF DraftOK, Closed, Has
<1>. QED
    BY <1>3, <1>4, <1>5, <1>6, TidyMove

LEMMA TidyUndoThread ==
    ASSUME TypeInv, Orderly, NEW r \in Requests, Undo(r), UndoThread(r)
    PROVE  Orderly'
<1>1. /\ UNCHANGED <<draft, message, job, account>> /\ queue' = queue
      /\ proc[r].pc = "UndoThread"
    BY UndoNext DEF UndoThread, At
<1>2. OwnOK(r) /\ ThreadOK(r) /\ job[r].status = "none" /\ proc[r].created
    BY <1>1 DEF Orderly, OwnOK, UndoSteps
<1>3. /\ OnlyMoves(r) /\ KeepsOwn(r)
      /\ proc'[r].pc \in IF proc[r].reserved THEN {"UndoCredits"} ELSE {"ReleaseKey", "refused"}
    BY <1>1, UndoNext
<1>4. threads' = IF \/ \E q \in Requests : message[q] = r
                    \/ \E d \in Drafts : draft[d].thread = r
                 THEN threads ELSE threads \ {r}
    BY DEF UndoThread
<1>5. proc'[r].pc \in {"UndoCredits", "ReleaseKey", "refused"}
    BY <1>3
<1>6. ~Uncredited(proc'[r])
    BY <1>5 DEF Uncredited, Early, Sending
<1>7. OwnOK(r)'
    <2>1. message[r] = r => threads' = threads
        BY <1>4
    <2>. QED
        BY <1>1, <1>2, <1>3, <1>5, <1>6, <2>1 DEF OwnOK, KeepsOwn, UndoSteps, Credited, Threaded
<1>8. ThreadOK(r)'
    <2>1. ASSUME r \in threads'
          PROVE  Referenced(r)
        <3>1. ASSUME NEW q \in Requests, message[q] = r
              PROVE  q = r
            BY <3>1, DraftSendAssumption DEF Orderly, OwnOK, Drafts
        <3>. QED
            BY <1>4, <2>1, <3>1 DEF Referenced
    <2>. QED
        BY <1>1, <2>1 DEF ThreadOK, Referenced
<1>9. CreditsOK'
    <2>1. Counted(r)' <=> Counted(r)
        BY <1>1, <1>2, <1>3, <1>5 DEF Counted, KeepsOwn, UndoSteps
    <2>. QED
        BY <1>1, <1>3, <2>1, CreditsMove DEF Orderly
<1>. QED
    BY <1>1, <1>3, <1>4, <1>5, <1>7, <1>8, <1>9, TidyApart
       DEF Holding, Before, Fresh, Unowned

LEMMA TidyUndoCredits ==
    ASSUME TypeInv, Orderly, NEW r \in Requests, Undo(r), UndoCredits(r)
    PROVE  Orderly'
<1>1. /\ UNCHANGED <<draft, threads, message, job>> /\ queue' = queue
      /\ proc[r].pc = "UndoCredits"
    BY UndoNext DEF UndoCredits, At
<1>2. OwnOK(r) /\ ThreadOK(r) /\ job[r].status = "none" /\ proc[r].reserved
    BY <1>1 DEF Orderly, OwnOK, UndoSteps, Credited
<1>3. OnlyMoves(r) /\ KeepsOwn(r) /\ proc'[r].pc \in {"ReleaseKey", "refused"}
    BY <1>1, UndoNext
<1>4. ~Uncredited(proc'[r])
    BY <1>3 DEF Uncredited, Early, Sending
<1>5. OwnOK(r)'
    BY <1>1, <1>2, <1>3, <1>4 DEF OwnOK, KeepsOwn, UndoSteps, Credited, Threaded
<1>6. ThreadOK(r)'
    BY <1>1, <1>2 DEF ThreadOK, Referenced, Threaded
<1>7. CreditsOK'
    <2>1. Counted(r) /\ ~Counted(r)'
        BY <1>1, <1>2, <1>3 DEF Counted, UndoSteps
    <2>2. account'.reserved = account.reserved - 1
        BY <2>1, CountedPositive DEF UndoCredits, Orderly
    <2>. QED
        BY <1>1, <1>3, <2>1, <2>2, CreditsMove DEF Orderly
<1>. QED
    BY <1>1, <1>3, <1>5, <1>6, <1>7, TidyApart DEF Holding, Before, Fresh, Unowned

LEMMA TidyCreate ==
    ASSUME TypeInv, Orderly, NEW r \in Requests, Create(r)
    PROVE  Orderly'
<1>1. PICK x \in Drafts : x = r
    BY DEF Drafts
<1>2. /\ UNCHANGED <<threads, message, job, account>> /\ queue' = queue
      /\ proc[r].pc = "Create"
    BY DEF Create, At
<1>3. /\ OnlyMoves(r)
      /\ proc'[r].pc \in {"Load", "LinkDraft"} /\ proc'[r].kind = proc[r].kind
    BY CreateMoves, LocalMoves DEF Moves
<1>4. KeepsOwn(r)
    BY DEF Create, KeepsOwn, TypeInv, TypeOK, ProcType
<1>5. /\ HoldOK(r) /\ OwnOK(r) /\ ThreadOK(r) /\ DraftOK(x)
      /\ draft[x].status = "none" /\ draft[x].thread = None
      /\ \A j \in Requests : ~Has(j, x)
    BY <1>1, <1>2 DEF Orderly, HoldOK, DraftOK, Closed, Before, Fresh
<1>6. Uncredited(proc[r]) /\ ~proc[r].reserved /\ ~proc[r].created /\ r \notin threads
    BY <1>2, <1>5 DEF OwnOK, Uncredited, Early
<1>7. /\ draft'[x].status = "draft" /\ draft'[x].thread = None
      /\ \A d \in Drafts \ {x} : draft'[d] = draft[d]
    BY <1>1 DEF Create, TypeInv, TypeOK
<1>8. \A q \in Requests : ~HoldsDraft(q, x)
    BY <1>5 DEF Orderly, HoldOK, HoldsDraft, Closed
<1>9. ~Holds(r) /\ ~Holds(r)'
    BY <1>2, <1>3 DEF Holds, Holding
<1>10. RowsKept(r, x)
    BY <1>2, <1>7 DEF RowsKept
<1>11. Tame(r, x)
    BY <1>1, <1>2, <1>5, <1>7, <1>8, <1>9 DEF Tame, Has
<1>12. HoldOK(r)'
    BY <1>3, <1>9 DEF HoldOK, Before, Fresh, Unowned
<1>13. OwnOK(r)' /\ ThreadOK(r)'
    BY <1>2, <1>3, <1>4, <1>5, <1>6 DEF OwnOK, ThreadOK, KeepsOwn, UndoSteps, Credited, Threaded
<1>14. DraftOK(x)'
    BY <1>2, <1>5, <1>7 DEF DraftOK, Closed, Has
<1>15. CreditsOK'
    <2>1. Counted(r)' <=> Counted(r)
        BY <1>2, <1>3 DEF Counted, UndoSteps
    <2>. QED
        BY <1>2, <1>3, <2>1, CreditsMove DEF Orderly
<1>. QED
    BY <1>2, <1>3, <1>10, <1>11, <1>12, <1>13, <1>14, <1>15, TidyMove

LEMMA TidyCancel ==
    ASSUME TypeInv, Orderly, NEW r \in Requests, CancelDraft(r)
    PROVE  Orderly'
<1>1. PICK x \in Drafts : x = proc[r].draft
    BY DEF CancelDraft, At, TypeInv, LocalsOK, LocalOK
<1>2. /\ UNCHANGED <<threads, message, job, account>> /\ queue' = queue
      /\ proc[r].pc = "CancelDraft" /\ Go(r, "cancelled")
    BY DEF CancelDraft, At
<1>3. OnlyMoves(r) /\ KeepsOwn(r) /\ proc'[r].pc = "cancelled"
    BY <1>2, CancelDraftMoves, LocalMoves, GoOwn
<1>4. HoldOK(r) /\ OwnOK(r) /\ ThreadOK(r) /\ DraftOK(x) /\ draft[x].status # "none"
    BY <1>1, <1>2 DEF Orderly, HoldOK
<1>5. /\ draft'[x].status = "cancelled" /\ draft'[x].thread = draft[x].thread
      /\ \A d \in Drafts \ {x} : draft'[d] = draft[d]
    BY <1>1 DEF CancelDraft, TypeInv, TypeOK
<1>6. ~Holds(r) /\ ~Holds(r)'
    BY <1>2, <1>3 DEF Holds, Holding
<1>7. RowsKept(r, x)
    BY <1>2, <1>5 DEF RowsKept
<1>8. Tame(r, x)
    BY <1>2, <1>4, <1>5, <1>6 DEF Tame, Has, Sendable
<1>9. HoldOK(r)'
    BY <1>3, <1>6 DEF HoldOK, Before, Fresh, Unowned
<1>10. OwnOK(r)'
    <2>1. ~Uncredited(proc'[r])
        BY <1>3 DEF Uncredited, Early, Sending
    <2>. QED
        BY <1>2, <1>3, <1>4, <2>1 DEF OwnOK, KeepsOwn, UndoSteps, Credited, Threaded
<1>11. ThreadOK(r)'
    <2>1. Referenced(r) => Referenced(r)'
        BY <1>2, <1>5 DEF Referenced
    <2>. QED
        BY <1>2, <1>4, <2>1 DEF ThreadOK, Threaded
<1>12. DraftOK(x)'
    BY <1>2, <1>4, <1>5 DEF DraftOK, Closed, Sendable
<1>13. CreditsOK'
    <2>1. Counted(r)' <=> Counted(r)
        BY <1>2, <1>3 DEF Counted, UndoSteps
    <2>. QED
        BY <1>2, <1>3, <2>1, CreditsMove DEF Orderly
<1>. QED
    BY <1>2, <1>3, <1>7, <1>8, <1>9, <1>10, <1>11, <1>12, <1>13, TidyMove

(* A call that fails: the catch block starts where the rows begin.         *)
LEMMA TidyThrow ==
    ASSUME TypeInv, RowsInv, Orderly, NEW r \in Requests, Throw(r)
    PROVE  Orderly'
<1>1. /\ UNCHANGED <<draft, threads, message, job, account>> /\ queue' = queue
      /\ proc[r].pc \in Steps \ (UndoSteps \union {"Queue"})
    BY DEF Throw, sendVars, Running
<1>2. OnlyMoves(r)
    BY ThrowMoves, LocalMoves
<1>3. CASE proc[r].pc \in {"Thread", "AssignThread", "Reserve", "Message", "Job"}
    <2>0. PICK x \in Drafts : x = proc[r].draft
        BY <1>3 DEF TypeInv, LocalsOK, LocalOK
    <2>1. Rollback(r)
        BY <1>3 DEF Throw
    <2>2. /\ KeepsOwn(r) /\ proc'[r].seen = proc[r].seen
          /\ proc'[r].pc = IF proc[r].pc = "Job" THEN "UndoMessage" ELSE "UndoDraft"
        BY <1>3, <2>1, GoOwn DEF Rollback
    <2>3. KeepsDraft(r) /\ KeepsThread(r)
        BY <1>3, ThrowMoves DEF Goes
    <2>4. OwnOK(r) /\ Holds(r) /\ job[r].status = "none"
        BY <1>3 DEF Orderly, Holds, Holding, RowsInv, RowsOf, Early, Sending
    <2>5. /\ proc[r].pc \in {"Message", "Job"} <=> proc[r].reserved
          /\ proc[r].created => r \in threads
        BY <1>3, <2>4 DEF OwnOK, Uncredited, Early, Sending, Credited, Threaded
    <2>6. OwnOK(r)'
        <3>1. ~Uncredited(proc'[r])
            BY <2>2 DEF Uncredited, Early, Sending
        <3>. QED
            BY <1>1, <1>3, <2>2, <2>4, <2>5, <3>1 DEF OwnOK, KeepsOwn, UndoSteps, Credited
    <2>7. CreditsOK'
        <3>1. Counted(r)' <=> Counted(r)
            BY <1>1, <1>3, <2>2, <2>4, <2>5 DEF Counted, KeepsOwn, UndoSteps
        <3>. QED
            BY <1>1, <1>2, <3>1, CreditsMove DEF Orderly
    <2>. QED
        BY <1>1, <1>2, <2>0, <2>2, <2>3, <2>4, <2>6, <2>7, TidyHeld DEF Holding, Has, KeepsThread
<1>4. CASE proc[r].pc \notin {"Thread", "AssignThread", "Reserve", "Message", "Job"}
    <2>1. proc[r].pc \notin Holding \union UndoSteps
        BY <1>1, <1>4 DEF Holding, UndoSteps
    <2>2. Fail(r) \/ Go(r, "accepted") \/ Go(r, "refused")
        BY <1>4 DEF Throw
    <2>3. ASSUME Go(r, "accepted") \/ Go(r, "refused")
          PROVE  Orderly'
        <3>1. KeepsOwn(r) /\ proc'[r].pc \in {"accepted", "refused"}
            BY <2>3, GoOwn
        <3>2. ~Uncredited(proc'[r])
            BY <3>1 DEF Uncredited, Early, Sending
        <3>. QED
            BY <1>1, <1>2, <2>1, <3>1, <3>2, TidyQuiet
               DEF KeepsOwn, Holding, UndoSteps, Before, Fresh, Unowned
    <2>. QED
        BY <1>1, <1>2, <2>1, <2>2, <2>3, TidyFail
<1>. QED
    BY <1>3, <1>4

LEMMA TidyQueueFails ==
    ASSUME TypeInv, RowsInv, Orderly, NEW r \in Requests, QueueFails(r)
    PROVE  Orderly'
<1>1. /\ UNCHANGED <<draft, threads, message, job, account>> /\ queue' = queue
      /\ proc[r].pc = "Queue" /\ Rollback(r)
    BY DEF QueueFails, sendVars, At
<1>2. PICK x \in Drafts : x = proc[r].draft
    BY <1>1 DEF TypeInv, LocalsOK, LocalOK
<1>3. OnlyMoves(r) /\ KeepsDraft(r) /\ KeepsThread(r)
    BY QueueFailsMoves, LocalMoves DEF Goes
<1>4. KeepsOwn(r) /\ proc'[r].seen = proc[r].seen /\ proc'[r].pc = "UndoJob"
    BY <1>1, GoOwn DEF Rollback
<1>5. OwnOK(r) /\ Holds(r) /\ job[r].status = "queued" /\ proc[r].reserved
    BY <1>1 DEF Orderly, OwnOK, Holds, Holding, Credited
<1>6. OwnOK(r)'
    <2>1. ~Uncredited(proc'[r])
        BY <1>4 DEF Uncredited, Early, Sending
    <2>. QED
        BY <1>1, <1>4, <1>5, <2>1 DEF OwnOK, KeepsOwn, UndoSteps, Credited, Threaded
<1>7. CreditsOK'
    <2>1. Counted(r)' <=> Counted(r)
        BY <1>1, <1>5 DEF Counted
    <2>. QED
        BY <1>1, <1>3, <2>1, CreditsMove DEF Orderly
<1>. QED
    BY <1>1, <1>2, <1>3, <1>4, <1>5, <1>6, <1>7, TidyHeld DEF Holding, Has, KeepsThread

(* The consumer settles a job whose request is done with it; nobody else   *)
(* depends on its draft.                                                   *)
LEMMA TidyConsume ==
    ASSUME TypeInv, RowsInv, Sure, Orderly, NEW j \in Requests, Consume(j)
    PROVE  Orderly'
<1>1. /\ proc' = proc /\ threads' = threads /\ message' = message
      /\ j \in queue /\ queue' = queue \ {j}
    BY DEF Consume
<1>2. CASE job[j].status = "none"
    <2>1. UNCHANGED <<job, draft, account>>
        BY <1>2 DEF Consume
    <2>2. \A q \in Requests : HoldOK(q)' /\ OwnOK(q)' /\ ThreadOK(q)'
        <3>. SUFFICES ASSUME NEW q \in Requests
                      PROVE  HoldOK(q)' /\ OwnOK(q)' /\ ThreadOK(q)'
            OBVIOUS
        <3>1. HoldOK(q) /\ OwnOK(q) /\ ThreadOK(q)
            BY DEF Orderly
        <3>2. HoldOK(q)'
            BY <1>1, <2>1, <3>1 DEF HoldOK, Holds, Closed, Has
        <3>3. OwnOK(q)'
            BY <1>1, <2>1, <3>1 DEF OwnOK, Uncredited, Early
        <3>4. ThreadOK(q)'
            BY <1>1, <2>1, <3>1 DEF ThreadOK, Referenced
        <3>. QED
            BY <3>2, <3>3, <3>4
    <2>3. \A d \in Drafts : DraftOK(d)'
        <3>. SUFFICES ASSUME NEW d \in Drafts
                      PROVE  DraftOK(d)'
            OBVIOUS
        <3>1. DraftOK(d)
            BY DEF Orderly
        <3>2. JobOf(d) => JobOf(d)'
            BY <1>1, <1>2, <2>1 DEF JobOf, Has, Visible
        <3>3. \A q \in Requests : HoldsDraft(q, d) => HoldsDraft(q, d)'
            BY <1>1 DEF HoldsDraft, Holds
        <3>. QED
            BY <1>1, <2>1, <3>1, <3>2, <3>3 DEF DraftOK, Closed, Has
    <2>4. OneHolder'
        BY <1>1 DEF Orderly, OneHolder, Holds
    <2>5. CreditsOK'
        BY <1>1, <2>1, CreditsMove DEF Counted, OnlyMoves, Orderly
    <2>. QED
        BY <2>2, <2>3, <2>4, <2>5 DEF Orderly
<1>3. CASE job[j].status # "none"
    <2>1. /\ job[j].draft = proc[j].draft /\ ~Early(proc[j])
          /\ proc[j].pc \notin UndoSteps \union {"Queue"}
        BY <1>1 DEF RowsInv, RowsOf, Out
    <2>2. PICK x \in Drafts : x = proc[j].draft
        BY <2>1 DEF TypeInv, LocalsOK, LocalOK, Early
    <2>3. PICK v \in {"sent", "failed"}, n \in {0, 1} : Consumed(j, v, n)
        BY <1>3 DEF Consume
    <2>4. /\ job[j].status = "queued" /\ job[j].draft = x
          /\ job' = [job EXCEPT ![j].status = v] /\ draft' = [draft EXCEPT ![x].status = v]
        BY <1>3, <2>1, <2>2, <2>3 DEF Consume, Consumed
    <2>5. /\ job'[j].status = v /\ job'[j].draft = x
          /\ \A q \in Requests \ {j} : job'[q] = job[q]
          /\ draft'[x].status = v /\ draft'[x].thread = draft[x].thread
          /\ \A d \in Drafts \ {x} : draft'[d] = draft[d]
        BY <2>2, <2>4 DEF TypeInv, TypeOK
    <2>6. ~Holds(j) /\ proc[j].pc \notin {"Message", "Job"} /\ Has(j, x)
        BY <1>3, <2>1, <2>4 DEF Holds, Holding, UndoSteps, Early, Sending, Has
    <2>7. \A q \in Requests : ~HoldsDraft(q, x)
        BY <2>6 DEF HoldsDraft, Orderly, HoldOK
    <2>8. Closed(x)
        BY <2>6 DEF Orderly, DraftOK
    <2>9. ASSUME NEW q \in Requests
          PROVE  HoldOK(q)' /\ OwnOK(q)' /\ ThreadOK(q)'
        <3>0. PICK d : d = proc[q].draft
            OBVIOUS
        <3>1. HoldOK(q) /\ OwnOK(q) /\ ThreadOK(q) /\ LocalOK(proc[q])
            BY DEF Orderly, TypeInv, LocalsOK
        <3>2. Holds(q)' <=> Holds(q)
            BY <1>1 DEF Holds
        <3>3. ASSUME Holds(q)
              PROVE  /\ Closed(d)' /\ draft'[d].thread \in {None, q}
                     /\ \A i \in Requests : Has(i, d)' => i = q
            <4>1. d \in Drafts \ {x}
                BY <2>7, <3>0, <3>1, <3>3 DEF HoldsDraft, LocalOK, Holds, Holding
            <4>2. draft'[d] = draft[d]
                BY <2>5, <4>1
            <4>3. \A i \in Requests : Has(i, d)' => Has(i, d)
                BY <2>5, <4>1 DEF Has
            <4>. QED
                BY <3>0, <3>1, <3>3, <4>2, <4>3 DEF HoldOK, Closed
        <3>4. proc[q].pc = "CancelDraft" => draft'[d].status # "none"
            BY <2>5, <3>0, <3>1 DEF HoldOK, LocalOK
        <3>5. proc[q].pc \in Before => draft'[q].status = "none"
            BY <2>5, <2>8, <3>1 DEF HoldOK, Closed, Drafts
        <3>6. (Holds(q) \/ proc[q].pc = "Claim") => proc[q].seen \in Sendable /\ proc[q].prior = None
            BY <3>1 DEF HoldOK
        <3>7. HoldOK(q)'
            BY <1>1, <3>0, <3>2, <3>3, <3>4, <3>5, <3>6 DEF HoldOK, Has
        <3>8. OwnOK(q)'
            <4>1. CASE q = j
                <5>1. proc[q].pc \notin UndoSteps /\ proc[q].pc \notin {"Queue", "UndoJob"}
                    BY <2>1, <4>1 DEF UndoSteps
                <5>. QED
                    BY <1>1, <3>1, <5>1 DEF OwnOK, Uncredited, Early
            <4>2. CASE q # j
                <5>1. job'[q] = job[q]
                    BY <2>5, <4>2
                <5>. QED
                    BY <1>1, <3>1, <5>1 DEF OwnOK, Uncredited, Early
            <4>. QED
                BY <4>1, <4>2
        <3>9. ThreadOK(q)'
            <4>1. Referenced(q) => Referenced(q)'
                BY <1>1, <2>5 DEF Referenced
            <4>. QED
                BY <1>1, <3>1, <4>1 DEF ThreadOK
        <3>. QED
            BY <3>7, <3>8, <3>9
    <2>10. ASSUME NEW d \in Drafts
           PROVE  DraftOK(d)'
        <3>1. DraftOK(d)
            BY DEF Orderly
        <3>2. CASE d = x
            BY <1>1, <2>5, <3>1, <3>2 DEF DraftOK, Closed, Sendable
        <3>3. CASE d # x
            <4>1. draft'[d] = draft[d] /\ \A q \in Requests : Has(q, d)' => Has(q, d)
                BY <2>5, <3>3 DEF Has
            <4>2. JobOf(d) => JobOf(d)'
                BY <1>1, <2>4, <2>5, <3>3 DEF JobOf, Has, Visible
            <4>3. \A q \in Requests : HoldsDraft(q, d) => HoldsDraft(q, d)'
                BY <1>1 DEF HoldsDraft, Holds
            <4>. QED
                BY <1>1, <3>1, <4>1, <4>2, <4>3 DEF DraftOK, Closed
        <3>. QED
            BY <3>2, <3>3
    <2>11. OneHolder'
        BY <1>1 DEF Orderly, OneHolder, Holds
    <2>12. CreditsOK'
        <3>1. Counted(j)
            BY <2>4 DEF Counted
        <3>2. ~Counted(j)'
            BY <1>1, <2>1, <2>5, <2>6 DEF Counted
        <3>3. account'.reserved = account.reserved - 1
            BY <2>3, <3>1, CountedPositive DEF Consumed, Orderly
        <3>4. OnlyMoves(j)
            BY <1>1 DEF OnlyMoves
        <3>. QED
            BY <2>5, <3>1, <3>2, <3>3, <3>4, CreditsMove DEF Orderly
    <2>. QED
        BY <2>9, <2>10, <2>11, <2>12 DEF Orderly
<1>. QED
    BY <1>2, <1>3

LEMMA TidyStutter ==
    ASSUME Orderly, UNCHANGED <<draft, threads, message, job, account, queue, proc>>
    PROVE  Orderly'
<1>1. \A q \in Requests : HoldOK(q)' /\ OwnOK(q)' /\ ThreadOK(q)'
    <2>. SUFFICES ASSUME NEW q \in Requests
                  PROVE  HoldOK(q)' /\ OwnOK(q)' /\ ThreadOK(q)'
        OBVIOUS
    <2>1. HoldOK(q) /\ OwnOK(q) /\ ThreadOK(q)
        BY DEF Orderly
    <2>. QED
        BY <2>1 DEF HoldOK, Holds, Closed, Has, OwnOK, Uncredited, Early, ThreadOK, Referenced
<1>2. \A d \in Drafts : DraftOK(d)'
    BY DEF Orderly, DraftOK, Closed, Has, JobOf, Visible, HoldsDraft, Holds
<1>3. OneHolder'
    BY DEF Orderly, OneHolder, Holds
<1>4. CreditsOK'
    <2>1. \A q \in Requests : Counted(q)' <=> Counted(q)
        BY DEF Counted
    <2>2. {q \in Requests : Counted(q)'} = {q \in Requests : Counted(q)}
        BY <2>1
    <2>. QED
        BY <2>2 DEF Orderly, CreditsOK
<1>. QED
    BY <1>1, <1>2, <1>3, <1>4 DEF Orderly

LEMMA TidyRequest ==
    ASSUME TypeInv, RowsInv, Sure, Orderly, NEW r \in Requests, RequestStep(r)
    PROVE  Orderly'
<1>1. CASE Undo(r)
    BY <1>1, TidyUndoRows, TidyUndoDraft, TidyUndoThread, TidyUndoCredits DEF Undo
<1>2. CASE EnqueueStep(r)
    BY <1>2, TidyLoad, TidyClaim, TidyThread, TidyReserve, TidyMessage, TidyJob, TidySent
       DEF EnqueueStep
<1>. QED
    BY <1>1, <1>2, TidyCancel, TidyValidate, TidyCreate, TidyKey, TidyReplay DEF RequestStep

LEMMA TidyStep ==
    ASSUME TypeInv, RowsInv, TidyInv, [Next]_vars
    PROVE  TidyInv'
<1>. SUFFICES ASSUME Tidy'
              PROVE  Orderly'
    BY DEF TidyInv
<1>1. failed \subseteq failed'
    BY RequestFails DEF Next, Arrive, Failure, Crash, Throw, QueueFails, QueueFailsLate,
       UndoFails, Suffer, Consume, Prune, vars, historyVars
<1>2. Tidy /\ Sure /\ Orderly
    BY <1>1 DEF Tidy, Sure, TidyInv
<1>3. ASSUME NEW r \in Requests, Failure(r)
      PROVE  Orderly'
    <2>1. {"crash", "ambiguous", "undo"} \intersect failed' = {}
        BY DEF Tidy
    <2>2. Throw(r) \/ QueueFails(r)
        BY <1>3, <2>1 DEF Failure, Crash, QueueFailsLate, UndoFails, Suffer
    <2>. QED
        BY <1>2, <2>2, TidyThrow, TidyQueueFails
<1>4. ASSUME NEW s \in Slots, Prune(s)
      PROVE  Orderly'
    BY <1>2, <1>4, TidyStutter DEF Prune, sendVars
<1>5. CASE UNCHANGED vars
    BY <1>2, <1>5, TidyStutter DEF vars, sendVars
<1>. QED
    BY <1>2, <1>3, <1>4, <1>5, TidyArrive, TidyRequest, TidyConsume DEF Next

LEMMA InitTidy ==
    ASSUME Init
    PROVE  TidyInv
<1>1. /\ \A r \in Requests : /\ proc[r] = IdleProc /\ message[r] = None
                             /\ job[r] = [status |-> "none", draft |-> None]
                             /\ draft[r].status = "none" /\ r \in Drafts
      /\ \A d \in Drafts : draft[d].status \in {"none", "draft", "approved"}
                           /\ draft[d].thread = None
      /\ threads = {} /\ account.reserved = 0
    BY DEF Init, Drafts
<1>2. \A r \in Requests : ~Holds(r) /\ proc[r].pc = "idle" /\ ~proc[r].reserved /\ ~proc[r].created
    BY <1>1 DEF Holds, Holding, IdleProc
<1>3. ASSUME NEW r \in Requests
      PROVE  HoldOK(r) /\ OwnOK(r) /\ ThreadOK(r)
    BY <1>1, <1>2 DEF HoldOK, OwnOK, ThreadOK, UndoSteps, Credited, Threaded
<1>4. ASSUME NEW d \in Drafts
      PROVE  DraftOK(d)
    BY <1>1 DEF DraftOK, Has, Closed
<1>5. OneHolder
    BY <1>2 DEF OneHolder
<1>6. CreditsOK
    <2>1. {r \in Requests : Counted(r)} = {}
        BY <1>1, <1>2 DEF Counted, UndoSteps
    <2>. QED
        BY <1>1, <2>1, FS_EmptySet DEF CreditsOK
<1>. QED
    BY <1>3, <1>4, <1>5, <1>6 DEF TidyInv, Orderly

(* A job names a draft.                                                    *)
JobsNamed == \A j \in Requests : job[j].status # "none" => job[j].draft \in Drafts

LEMMA NamedStep ==
    ASSUME TypeInv, JobsNamed, [Next]_vars
    PROVE  JobsNamed'
<1>1. CASE job' = job
    BY <1>1 DEF JobsNamed
<1>2. ASSUME NEW r \in Requests, InsertJob(r)
      PROVE  JobsNamed'
    <2>1. proc[r].draft \in Drafts
        BY <1>2, InsertJobMoves
    <2>. QED
        BY <1>1, <1>2, <2>1 DEF InsertJob, JobsNamed, TypeInv, TypeOK
<1>3. ASSUME NEW r \in Requests, UndoJob(r)
      PROVE  JobsNamed'
    BY <1>3 DEF UndoJob, JobsNamed, TypeInv, TypeOK
<1>4. ASSUME NEW j \in Requests, Consume(j)
      PROVE  JobsNamed'
    BY <1>1, <1>4 DEF Consume, Consumed, JobsNamed, TypeInv, TypeOK
<1>5. ASSUME NEW r \in Requests, Arrive(r) \/ RequestStep(r) \/ Failure(r)
      PROVE  job' = job \/ InsertJob(r) \/ UndoJob(r)
    <2>1. ASSUME Undo(r)
          PROVE  job' = job \/ UndoJob(r)
        BY <2>1 DEF Undo, UndoMessage, UndoDraft, UndoThread, UndoCredits
    <2>. QED
        BY <1>5, <2>1 DEF Arrive, RequestStep, CancelDraft, Validate, Create, KeyStep, CheckKey,
           InsertKey, RecheckKey, LinkDraft, LinkJob, Complete, CompleteReplay, ReleaseKey,
           EnqueueStep, Load, Claim, Thread, AssignThread, Reserve, InsertMessage, SendToQueue,
           ReplayStep, ValidateReplay, FindDraft, FindJob, FindMessage, Reread, Failure, Crash,
           Throw, QueueFails, QueueFailsLate, UndoFails, sendVars
<1>6. ASSUME NEW s \in Slots, Prune(s)
      PROVE  job' = job
    BY <1>6 DEF Prune, sendVars
<1>7. UNCHANGED vars => job' = job
    BY DEF vars, sendVars
<1>. QED
    BY <1>1, <1>2, <1>3, <1>4, <1>5, <1>6, <1>7 DEF Next

(* Nobody holds a draft at rest, so what is queued has its job, and what   *)
(* is reserved belongs to the queued jobs.                                 *)
LEMMA RestQueued ==
    ASSUME TypeInv, TidyInv, JobsNamed
    PROVE  QueuedTogether
<1>. SUFFICES ASSUME AtRest, Tidy
              PROVE  /\ \A d \in Drafts : draft[d].status = "queued" =>
                          \E j \in VisibleJobs(d) : job[j].status = "queued" /\ j \in queue
                     /\ \A j \in Requests : job[j].status = "queued" =>
                          draft[job[j].draft].status \notin Sendable
                     /\ account.reserved = Cardinality({j \in Requests : job[j].status = "queued"})
    BY DEF QueuedTogether, Intact, Tidy
<1>1. Orderly /\ \A r \in Requests : proc[r].pc \notin Steps
    BY DEF TidyInv, AtRest, Running
<1>2. \A r \in Requests : ~Holds(r) /\ proc[r].pc \notin UndoSteps \union {"Message", "Job"}
    BY <1>1 DEF Holds, Holding, Steps, EnqueueSteps, UndoSteps
<1>3. ASSUME NEW d \in Drafts, draft[d].status = "queued"
      PROVE  \E j \in VisibleJobs(d) : job[j].status = "queued" /\ j \in queue
    <2>1. JobOf(d)
        BY <1>1, <1>2, <1>3 DEF Orderly, DraftOK, HoldsDraft
    <2>. QED
        BY <2>1 DEF JobOf, Has, Visible, VisibleJobs, JobsOf
<1>4. ASSUME NEW j \in Requests, job[j].status = "queued"
      PROVE  draft[job[j].draft].status \notin Sendable
    <2>1. PICK d \in Drafts : d = job[j].draft
        BY <1>4 DEF JobsNamed
    <2>2. Has(j, d)
        BY <1>4, <2>1 DEF Has
    <2>3. Closed(d)
        BY <1>1, <2>2 DEF Orderly, DraftOK
    <2>. QED
        BY <2>1, <2>3 DEF Closed
<1>5. {j \in Requests : job[j].status = "queued"} = {r \in Requests : Counted(r)}
    BY <1>2 DEF Counted
<1>. QED
    BY <1>1, <1>3, <1>4, <1>5 DEF Orderly, CreditsOK

LEMMA RestReferenced ==
    ASSUME TypeInv, TidyInv
    PROVE  ThreadsReferenced
<1>. SUFFICES ASSUME AtRest, Tidy
              PROVE  threads = ({draft[d].thread : d \in Drafts}
                                  \union {message[r] : r \in Requests}) \ {None}
    BY DEF ThreadsReferenced, Intact, Tidy
<1>1. Orderly /\ \A r \in Requests : proc[r].pc \notin Threaded
    BY DEF TidyInv, AtRest, Running, Steps, EnqueueSteps, UndoSteps, Threaded
<1>2. threads \subseteq Requests /\ None \notin Requests
    BY DraftSendAssumption DEF TypeInv, TypeOK, Drafts
<1>3. ASSUME NEW r \in threads
      PROVE  message[r] = r \/ \E d \in Drafts : draft[d].thread = r
    BY <1>1, <1>2 DEF Orderly, ThreadOK, Referenced
<1>4. \A d \in Drafts : draft[d].thread # None => draft[d].thread \in threads
    BY <1>1 DEF Orderly, DraftOK
<1>5. \A r \in Requests : message[r] # None => message[r] \in threads
    BY <1>1 DEF Orderly, OwnOK
<1>. QED
    BY <1>2, <1>3, <1>4, <1>5

(* The rollback of enqueueDraftSend leaves nothing half done, however many *)
(* requests and drafts there are and whatever calls fail in whatever order:*)
(* once no request runs, a draft is queued only with a job that the queue  *)
(* holds, a queued job's draft cannot be sent again, and each credit that  *)
(* is reserved belongs to a queued job.                                    *)
THEOREM DraftQueuedTogether == Spec => []QueuedTogether
<1>1. Init => TypeInv /\ RowsInv /\ TidyInv /\ JobsNamed
    BY InitTypes, InitSends, InitTidy DEF SendInv, Init, JobsNamed
<1>2. TypeInv /\ RowsInv /\ TidyInv /\ JobsNamed /\ [Next]_vars
        => TypeInv' /\ RowsInv' /\ TidyInv' /\ JobsNamed'
    BY TypeStep, RowsStep, TidyStep, NamedStep
<1>3. TypeInv /\ TidyInv /\ JobsNamed => QueuedTogether
    BY RestQueued
<1>. QED
    BY <1>1, <1>2, <1>3, PTL DEF Spec

(* And it keeps deleteThreadIfUnreferenced exact: once no request runs,    *)
(* the threads that are left are those of the drafts and messages.         *)
THEOREM DraftThreadsReferenced == Spec => []ThreadsReferenced
<1>1. Init => TypeInv /\ RowsInv /\ TidyInv
    BY InitTypes, InitSends, InitTidy DEF SendInv
<1>2. TypeInv /\ RowsInv /\ TidyInv /\ [Next]_vars => TypeInv' /\ RowsInv' /\ TidyInv'
    BY TypeStep, RowsStep, TidyStep
<1>3. TypeInv /\ TidyInv => ThreadsReferenced
    BY RestReferenced
<1>. QED
    BY <1>1, <1>2, <1>3, PTL DEF Spec

=============================================================================
