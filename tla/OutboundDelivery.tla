------------------------- MODULE OutboundDelivery -------------------------
(***************************************************************************)
(* A job's email is submitted to the provider at most once, a job that was *)
(* sent is never made sendable again, no job is forgotten before it is     *)
(* answered, and a reported delivery prevails over bounces: for any number *)
(* of jobs, queue consumers and webhook requests, and whatever crashes, is *)
(* repeated or is refused.  What must not happen is named in Reliable,     *)
(* Attended and OneRequest.                                                *)
(***************************************************************************)
EXTENDS OutboundCharges

(* No operator acts, no read or write of the database fails, and the       *)
(* provider does not take an email it reports as refused.  Each of the four*)
(* lets a job that was sent be tried again: the console's retry and its    *)
(* `not_sent` resolution mean to, and the catch block writes `retry` after *)
(* a failed read, after a claim that threw, and after a lost response.     *)
Reliable == /\ Operators = {}
            /\ Faults \intersect {"read", "write", "ambiguous"} = {}

-----------------------------------------------------------------------------
(* The inductive invariant: the right to submit a job's email is a token,  *)
(* in the job's row while it is sendable, then with the worker that claimed*)
(* it, and gone once the email is submitted or its local copies stand for  *)
(* it.                                                                     *)

(* The worker that has claimed its job and may still submit the email or   *)
(* make the job sendable again.                                            *)
Sending(p) == \E op \in Sends : At(p, op)

Unsent(j) == /\ accepted[j] = 0
             /\ j \notin attested
             /\ j \in inbox => j \in External

Sendable(j) == job[j].status \in {"none"} \union Claimable

(* While the row holds the token nobody else does, and nothing was sent.   *)
RowsHold == \A j \in Jobs : Sendable(j) =>
                /\ Unsent(j)
                /\ \A p \in Procs : Sending(p) => proc[p].job # j

(* While a worker holds it nothing was sent, and no other worker does.     *)
WorkersHold == \A p \in Procs : Sending(p) =>
                  /\ Unsent(proc[p].job)
                  /\ \A q \in Procs : Sending(q) /\ proc[q].job = proc[p].job => q = p

(* A draft that was not sent yet has a job nobody knows.                   *)
DraftsIdle == \A j \in Jobs : draft[j] = "draft" =>
                  /\ job[j].status = "none"
                  /\ queue[j] = 0
                  /\ accepted[j] = 0
                  /\ \A p \in Procs : proc[p].job # j

OnceInv ==
    /\ SentOnce
    /\ RowsHold
    /\ WorkersHold
    /\ DraftsIdle

-----------------------------------------------------------------------------
(* The kinds of steps a handler makes, and what each does to the token.    *)

Others(p) == \A q \in Procs \ {p} : proc'[q] = proc[q]

(* A step that leaves its handler without the token, and the rows at most  *)
(* finished.                                                               *)
Aside(p) ==
    /\ Others(p)
    /\ proc'[p].job \in {proc[p].job, NoJob}
    /\ ~ Sending(p)'
    /\ UNCHANGED <<accepted, attested, inbox>>
    /\ \A j \in Jobs :
          /\ draft'[j] = "draft" => draft[j] = "draft"
          /\ job'[j].status \in {job[j].status, "sent", "failed"}
          /\ j # proc[p].job => job'[j] = job[j] /\ queue'[j] = queue[j]

(* A step of the worker that holds the token and keeps it.                 *)
Keeps(p) ==
    /\ Others(p)
    /\ proc'[p].job = proc[p].job
    /\ Sending(p)
    /\ UNCHANGED <<job, draft, queue, accepted, attested>>
    /\ \A j \in Jobs : j \in inbox' => j \in inbox \/ j \in External

(* The step that spends it.                                                *)
Spends(p) ==
    /\ Others(p)
    /\ proc'[p].job = proc[p].job
    /\ Sending(p)
    /\ ~ Sending(p)'
    /\ UNCHANGED <<job, draft, queue, attested>>
    /\ accepted'[proc[p].job] \in {accepted[proc[p].job], accepted[proc[p].job] + 1}
    /\ \A j \in Jobs \ {proc[p].job} :
          /\ accepted'[j] = accepted[j]
          /\ j \in inbox' => j \in inbox

(* A handler that begins to work on a job somebody knows.                  *)
Starts(p, j) ==
    /\ Others(p)
    /\ proc'[p].job = j
    /\ ~ Sending(p)'
    /\ draft[j] # "draft"
    /\ UNCHANGED <<job, draft, accepted, attested, inbox>>
    /\ \A i \in Jobs \ {j} : queue'[i] = queue[i]

(* The claim that wins the row's token.                                    *)
Takes(p) == Claim(p) /\ job[JobOf(p)].status \in Claimable

(* The step that gives it back to the row.                                 *)
Returns(p) == JobRetry(p) \/ JobRetryBlind(p)

Kinds(p) ==
    \/ Aside(p) \/ Keeps(p) \/ Spends(p) \/ Takes(p) \/ Returns(p)
    \/ \E j \in Jobs : Starts(p, j)

LEMMA OthersSending ==
    ASSUME NEW p \in Procs, Others(p), NEW q \in Procs \ {p}
    PROVE  /\ Sending(q)' <=> Sending(q)
           /\ proc'[q].job = proc[q].job
    BY DEF Others, Sending, At

LEMMA AsideOnce ==
    ASSUME TypeInv, OnceInv, NEW p \in Procs, Aside(p)
    PROVE  OnceInv'
<1>1. SentOnce'
    BY DEF OnceInv, SentOnce, Aside
<1>2. ASSUME NEW q \in Procs, Sending(q)'
      PROVE  q # p /\ Sending(q) /\ proc'[q].job = proc[q].job
    BY <1>2, OthersSending DEF Aside
<1>3. \A j \in Jobs : Unsent(j)' <=> Unsent(j)
    BY DEF Unsent, Aside
<1>4. \A j \in Jobs : Sendable(j)' => Sendable(j)
    BY DEF Sendable, Claimable, Aside
<1>5. RowsHold'
    BY <1>2, <1>3, <1>4 DEF OnceInv, RowsHold
<1>6. WorkersHold'
    <2>1. \A q \in Procs : Sending(q) => proc[q].job \in Jobs
        BY AtStatement DEF Sending, TypeInv, TypeOK
    <2>. QED
        BY <1>2, <1>3, <2>1 DEF OnceInv, WorkersHold
<1>7. DraftsIdle'
    <2>1. ASSUME NEW j \in Jobs, draft'[j] = "draft"
          PROVE  /\ j # proc[p].job
                 /\ job'[j].status = "none" /\ queue'[j] = 0 /\ accepted'[j] = 0
        BY <2>1 DEF OnceInv, DraftsIdle, Aside
    <2>2. ASSUME NEW j \in Jobs, draft'[j] = "draft", NEW q \in Procs
          PROVE  proc'[q].job # j
        BY <2>2, ConstantsAssumption DEF OnceInv, DraftsIdle, Aside, Others
    <2>. QED
        BY <2>1, <2>2 DEF DraftsIdle
<1>. QED
    BY <1>1, <1>5, <1>6, <1>7 DEF OnceInv

LEMMA KeepsOnce ==
    ASSUME TypeInv, OnceInv, NEW p \in Procs, Keeps(p)
    PROVE  OnceInv'
<1>1. SentOnce'
    BY DEF OnceInv, SentOnce, Keeps
<1>2. ASSUME NEW q \in Procs, Sending(q)'
      PROVE  Sending(q)
    BY <1>2, OthersSending DEF Keeps
<1>3. \A q \in Procs : proc'[q].job = proc[q].job
    BY DEF Keeps, Others
<1>4. \A j \in Jobs : Unsent(j) => Unsent(j)'
    BY DEF Unsent, Keeps
<1>5. \A j \in Jobs : Sendable(j)' <=> Sendable(j)
    BY DEF Sendable, Keeps
<1>6. \A q \in Procs : Sending(q) => proc[q].job \in Jobs
    BY AtStatement DEF Sending, TypeInv, TypeOK
<1>7. RowsHold' /\ WorkersHold'
    BY <1>2, <1>3, <1>4, <1>5, <1>6 DEF OnceInv, RowsHold, WorkersHold
<1>8. DraftsIdle'
    BY <1>3 DEF OnceInv, DraftsIdle, Keeps
<1>. QED
    BY <1>1, <1>7, <1>8 DEF OnceInv

LEMMA SpendsOnce ==
    ASSUME TypeInv, OnceInv, NEW p \in Procs, Spends(p)
    PROVE  OnceInv'
<1> DEFINE i == proc[p].job
<1>1. i \in Jobs /\ Unsent(i) /\ ~ Sendable(i) /\ accepted[i] = 0
    BY AtStatement
    DEF Spends, Sending, TypeInv, TypeOK, OnceInv, WorkersHold, RowsHold, Unsent
<1>2. SentOnce'
    BY <1>1 DEF OnceInv, SentOnce, Spends
<1>3. ASSUME NEW q \in Procs, Sending(q)'
      PROVE  Sending(q) /\ proc'[q].job = proc[q].job /\ proc[q].job \in Jobs \ {i}
    <2>1. q # p /\ Sending(q) /\ proc'[q].job = proc[q].job
        BY <1>3, OthersSending DEF Spends
    <2>2. proc[q].job \in Jobs
        BY <2>1, AtStatement DEF Sending, TypeInv, TypeOK
    <2>. QED
        BY <2>1, <2>2 DEF OnceInv, WorkersHold, Spends
<1>4. \A j \in Jobs \ {i} : Unsent(j) => Unsent(j)'
    BY DEF Unsent, Spends
<1>5. \A j \in Jobs : Sendable(j)' <=> Sendable(j)
    BY DEF Sendable, Spends
<1>6. RowsHold' /\ WorkersHold'
    BY <1>1, <1>3, <1>4, <1>5 DEF OnceInv, RowsHold, WorkersHold
<1>7. DraftsIdle'
    <2>1. \A q \in Procs : proc'[q].job = proc[q].job
        BY DEF Spends, Others
    <2>. QED
        BY <2>1 DEF OnceInv, DraftsIdle, Spends
<1>. QED
    BY <1>2, <1>6, <1>7 DEF OnceInv

LEMMA StartsOnce ==
    ASSUME TypeInv, OnceInv, NEW p \in Procs, NEW j \in Jobs, Starts(p, j)
    PROVE  OnceInv'
<1>1. SentOnce'
    BY DEF OnceInv, SentOnce, Starts
<1>2. ASSUME NEW q \in Procs, Sending(q)'
      PROVE  Sending(q) /\ proc'[q].job = proc[q].job
    BY <1>2, OthersSending DEF Starts
<1>3. \A i \in Jobs : (Unsent(i)' <=> Unsent(i)) /\ (Sendable(i)' <=> Sendable(i))
    BY DEF Unsent, Sendable, Starts
<1>4. \A q \in Procs : Sending(q) => proc[q].job \in Jobs
    BY AtStatement DEF Sending, TypeInv, TypeOK
<1>5. RowsHold' /\ WorkersHold'
    BY <1>2, <1>3, <1>4 DEF OnceInv, RowsHold, WorkersHold
<1>6. DraftsIdle'
    BY DEF OnceInv, DraftsIdle, Starts, Others
<1>. QED
    BY <1>1, <1>5, <1>6 DEF OnceInv

-----------------------------------------------------------------------------
(* Ways to move that take no token along.                                  *)

Leaves(p) ==
    /\ Others(p)
    /\ proc'[p].job \in {proc[p].job, NoJob}
    /\ ~ Sending(p)'

(* The first statement of a plan, unless the plan is one of the retries.   *)
LEMMA StartLeaves ==
    ASSUME TypeInv, NEW p \in Procs, NEW r, proc' = [proc EXCEPT ![p] = r],
           r.plan \in PlanNames \ {"idle", "retryLater", "retryBlind"}, r.step = 1
    PROVE  Others(p) /\ ~ Sending(p)' /\ proc'[p] = r
<1>1. proc'[p] = r /\ Others(p)
    BY DEF TypeInv, TypeOK, ProcTypes, Others
<1>2. Plan[r.plan][1] \notin Sends
    BY PlanTable DEF PlanFact
<1>. QED
    BY <1>1, <1>2 DEF Sending, At

LEMMA FollowLeaves ==
    ASSUME TypeInv, NEW p \in Procs,
           NEW pl \in PlanNames \ {"idle", "retryLater", "retryBlind"}, Follow(p, pl)
    PROVE  Leaves(p)
<1> DEFINE r == [proc[p] EXCEPT !.plan = pl, !.step = 1]
<1>1. proc[p] \in ProcType
    BY DEF TypeInv, TypeOK, ProcTypes
<1>2. r.plan = pl /\ r.step = 1 /\ r.job = proc[p].job
    BY <1>1 DEF ProcType
<1>3. proc' = [proc EXCEPT ![p] = r]
    BY DEF Follow, TypeInv, TypeOK, ProcTypes
<1>. HIDE DEF r
<1>. QED
    BY <1>2, <1>3, StartLeaves DEF Leaves

LEMMA FollowWithLeaves ==
    ASSUME TypeInv, NEW p \in Procs, NEW n,
           NEW pl \in PlanNames \ {"idle", "retryLater", "retryBlind"}, FollowWith(p, pl, n)
    PROVE  Leaves(p)
<1> DEFINE r == [proc[p] EXCEPT !.plan = pl, !.step = 1, !.retries = n]
<1>1. proc[p] \in ProcType
    BY DEF TypeInv, TypeOK, ProcTypes
<1>2. r.plan = pl /\ r.step = 1 /\ r.job = proc[p].job
    BY <1>1 DEF ProcType
<1>3. proc' = [proc EXCEPT ![p] = r]
    BY DEF FollowWith, TypeInv, TypeOK, ProcTypes
<1>. HIDE DEF r
<1>. QED
    BY <1>2, <1>3, StartLeaves DEF Leaves

LEMMA FinishLeaves ==
    ASSUME TypeInv, NEW p \in Procs, Finish(p)
    PROVE  Leaves(p)
<1>1. proc'[p] = IdleProc /\ Others(p)
    BY DEF Finish, Others, TypeInv, TypeOK, ProcTypes
<1>2. proc'[p].plan = "idle" /\ proc'[p].job = NoJob
    BY <1>1, IdleType DEF IdleProc
<1>3. DOMAIN Plan["idle"] = {}
    BY PlanTable DEF PlanFact, StepFact, PlanNames
<1>. QED
    BY <1>1, <1>2, <1>3 DEF Leaves, Sending, At

(* The next statement, outside the plan that sends.                        *)
LEMMA StepLeaves ==
    ASSUME TypeInv, NEW p \in Procs, NEW op, op \notin Ends, At(p, op),
           op \notin {"FindDebit", "Claim", "Check", "DeliverLocally"},
           NEW r, proc' = [proc EXCEPT ![p] = r],
           r.plan = proc[p].plan, r.step = proc[p].step + 1, r.job = proc[p].job
    PROVE  Leaves(p)
<1>1. proc'[p] = r /\ Others(p)
    BY DEF TypeInv, TypeOK, ProcTypes, Others
<1>2. /\ proc[p].step + 1 \in DOMAIN Plan[proc[p].plan]
      /\ Plan[proc[p].plan][proc[p].step + 1] \notin Sends
    <2>1. StepFact(proc[p].plan, proc[p].step, op)
        BY AtStatement DEF TypeInv, TypeOK
    <2>. QED
        BY <2>1 DEF StepFact, Ends
<1>. QED
    BY <1>1, <1>2 DEF Leaves, Sending, At

LEMMA AdvanceLeaves ==
    ASSUME TypeInv, NEW p \in Procs, NEW op, op \notin Ends, At(p, op),
           op \notin {"FindDebit", "Claim", "Check", "DeliverLocally"}, Advance(p)
    PROVE  Leaves(p)
<1> DEFINE r == [proc[p] EXCEPT !.step = @ + 1]
<1>1. proc[p] \in ProcType
    BY DEF TypeInv, TypeOK, ProcTypes
<1>2. r.plan = proc[p].plan /\ r.step = proc[p].step + 1 /\ r.job = proc[p].job
    BY <1>1 DEF ProcType
<1>3. proc' = [proc EXCEPT ![p] = r]
    BY DEF Advance, Skip, TypeInv, TypeOK, ProcTypes
<1>. HIDE DEF r
<1>. QED
    BY <1>2, <1>3, StepLeaves

(* A handler that leaves with the rows as they were, or finished.          *)
LEMMA QuietAside ==
    ASSUME NEW p \in Procs, Leaves(p), UNCHANGED <<job, draft, accepted, attested, inbox>>,
           \A j \in Jobs \ {proc[p].job} : queue'[j] = queue[j]
    PROVE  Aside(p)
    BY DEF Leaves, Aside

LEMMA WriteJobAside ==
    ASSUME TypeInv, NEW p \in Procs, NEW op, op \notin Ends, At(p, op),
           op \notin {"FindDebit", "Claim", "Check", "DeliverLocally"},
           NEW st \in {"sent", "failed"}, NEW n, NEW err, WriteJob(p, st, n, err)
    PROVE  Aside(p)
<1>1. Leaves(p)
    BY AdvanceLeaves DEF WriteJob
<1>2. \A j \in Jobs : /\ job'[j].status \in {job[j].status, st}
                      /\ j # proc[p].job => job'[j] = job[j]
    BY DEF WriteJob, JobOf, TypeInv, TypeOK, RowTypes
<1>. QED
    BY <1>1, <1>2 DEF WriteJob, Leaves, Aside, billingVars, worldVars

LEMMA WriteMessageAside ==
    ASSUME TypeInv, NEW p \in Procs, NEW op, op \notin Ends, At(p, op),
           op \notin {"FindDebit", "Claim", "Check", "DeliverLocally"},
           NEW st, NEW id, WriteMessage(p, st, id)
    PROVE  Aside(p)
<1>1. Leaves(p)
    BY AdvanceLeaves DEF WriteMessage
<1>. QED
    BY <1>1, QuietAside DEF WriteMessage, billingVars, worldVars

LEMMA WriteDraftAside ==
    ASSUME TypeInv, NEW p \in Procs, NEW op, op \notin Ends, At(p, op),
           op \notin {"FindDebit", "Claim", "Check", "DeliverLocally"},
           NEW st \in {"sent", "failed"}, WriteDraft(p, st)
    PROVE  Aside(p)
<1>1. Leaves(p)
    BY AdvanceLeaves DEF WriteDraft
<1>2. \A j \in Jobs : draft'[j] = "draft" => draft[j] = "draft"
    BY DEF WriteDraft, TypeInv, TypeOK, RowTypes
<1>. QED
    BY <1>1, <1>2 DEF WriteDraft, Leaves, Aside, billingVars, worldVars

-----------------------------------------------------------------------------
(* The statements every handler performs.                                  *)

LEMMA FindDebitAside ==
    ASSUME TypeInv, NEW p \in Procs, FindDebit(p)
    PROVE  Aside(p)
<1>1. /\ proc[p] \in ProcType
      /\ StepFact(proc[p].plan, proc[p].step, "FindDebit")
    BY AtStatement DEF TypeInv, TypeOK, FindDebit
<1>2. PICK n \in {1, 3, 5} : Skip(p, n)
    BY DEF FindDebit
<1> DEFINE r == [proc[p] EXCEPT !.step = @ + n]
<1>3. r.plan = proc[p].plan /\ r.step = proc[p].step + n /\ r.job = proc[p].job
    BY <1>1 DEF ProcType
<1>4. proc' = [proc EXCEPT ![p] = r] /\ proc'[p] = r /\ Others(p)
    BY <1>2 DEF Skip, TypeInv, TypeOK, ProcTypes, Others
<1>. HIDE DEF r
<1>5. Plan[proc[p].plan][proc[p].step + n] \notin Sends
    BY <1>1, <1>2 DEF StepFact, Ends
<1>6. Leaves(p)
    BY <1>3, <1>4, <1>5 DEF Leaves, Sending, At
<1>. QED
    BY <1>6, QuietAside DEF FindDebit, rowVars, worldVars

LEMMA SumAside ==
    ASSUME TypeInv, NEW p \in Procs, NEW op, op \notin Ends, At(p, op),
           op \notin {"FindDebit", "Claim", "Check", "DeliverLocally"},
           NEW x \in Int, proc' = [proc EXCEPT ![p].step = @ + 1, ![p].sum = x],
           UNCHANGED <<rowVars, worldVars>>
    PROVE  Aside(p)
<1> DEFINE r == [proc[p] EXCEPT !.step = @ + 1, !.sum = x]
<1>1. proc[p] \in ProcType
    BY DEF TypeInv, TypeOK, ProcTypes
<1>2. r.plan = proc[p].plan /\ r.step = proc[p].step + 1 /\ r.job = proc[p].job
    BY <1>1 DEF ProcType
<1>3. proc' = [proc EXCEPT ![p] = r]
    BY DEF TypeInv, TypeOK, ProcTypes
<1>. HIDE DEF r
<1>4. Leaves(p)
    BY <1>2, <1>3, StepLeaves
<1>. QED
    BY <1>4, QuietAside DEF rowVars, worldVars

LEMMA SharedAside ==
    ASSUME TypeInv, NEW p \in Procs, SharedStep(p)
    PROVE  Aside(p)
<1> USE DEF Ends
<1>1. CASE JobSent(p)
    BY <1>1, WriteJobAside DEF JobSent
<1>2. CASE MessageReplied(p) \/ MessageFailed(p)
    BY <1>2, WriteMessageAside DEF MessageReplied, MessageFailed
<1>3. CASE DraftSent(p) \/ DraftFailed(p)
    BY <1>3, WriteDraftAside DEF DraftSent, DraftFailed
<1>4. CASE FindDebit(p)
    BY <1>4, FindDebitAside
<1>5. CASE AppendDebit(p) \/ Capture(p) \/ Release(p)
    <2>1. PICK op \in {"AppendDebit", "Capture", "Release"} : At(p, op)
        BY <1>5 DEF AppendDebit, Capture, Release
    <2>2. Advance(p) /\ UNCHANGED <<rowVars, worldVars>>
        BY <1>5 DEF AppendDebit, Capture, Release
    <2>3. Leaves(p)
        BY <2>1, <2>2, AdvanceLeaves
    <2>. QED
        BY <2>2, <2>3, QuietAside DEF rowVars, worldVars
<1>6. CASE ReadLedger(p)
    BY <1>6, LedgerSize, SumAside DEF ReadLedger
<1>7. CASE WriteAvailable(p)
    <2>1. /\ At(p, "WriteAvailable")
          /\ proc' = [proc EXCEPT ![p].step = @ + 1, ![p].sum = 0]
          /\ UNCHANGED <<rowVars, worldVars>>
        BY <1>7 DEF WriteAvailable
    <2>2. "WriteAvailable" \notin Ends /\ 0 \in Int
        OBVIOUS
    <2>. QED
        BY <2>1, <2>2, SumAside
<1>. QED
    BY <1>1, <1>2, <1>3, <1>4, <1>5, <1>6, <1>7 DEF SharedStep

-----------------------------------------------------------------------------
(* The worker's steps.                                                     *)

LEMMA ReceiveStarts ==
    ASSUME TypeInv, OnceInv, NEW p \in Procs, NEW j \in Jobs, Receive(p, j)
    PROVE  Starts(p, j)
<1> DEFINE r == [IdleProc EXCEPT !.plan = "deliver", !.job = j]
<1>1. r.plan \in PlanNames \ {"idle", "retryLater", "retryBlind"} /\ r.step = 1 /\ r.job = j
    BY DEF IdleProc, PlanNames
<1>2. proc' = [proc EXCEPT ![p] = r] /\ queue' = [queue EXCEPT ![j] = @ - 1]
    BY DEF Receive
<1>. HIDE DEF r
<1>3. Others(p) /\ ~ Sending(p)' /\ proc'[p].job = j
    BY <1>1, <1>2, StartLeaves
<1>4. draft[j] # "draft"
    BY DEF Receive, OnceInv, DraftsIdle
<1>5. \A i \in Jobs \ {j} : queue'[i] = queue[i]
    BY <1>2 DEF TypeInv, TypeOK, WorldTypes
<1>6. UNCHANGED <<job, draft, accepted, attested, inbox>>
    BY DEF Receive, rowVars
<1>. QED
    BY <1>3, <1>4, <1>5, <1>6 DEF Starts

LEMMA QuitAside ==
    ASSUME TypeInv, NEW p \in Procs, Finish(p), proc[p].job \in Jobs,
           UNCHANGED <<job, draft, accepted, attested, inbox>>,
           queue' = queue \/ queue' = [queue EXCEPT ![proc[p].job] = @ + 1]
    PROVE  Aside(p)
<1>1. \A j \in Jobs \ {proc[p].job} : queue'[j] = queue[j]
    BY DEF TypeInv, TypeOK, WorldTypes
<1>. QED
    BY <1>1, FinishLeaves, QuietAside

LEMMA AckAside ==
    ASSUME TypeInv, NEW p \in Procs, Ack(p) \/ Redeliver(p)
    PROVE  Aside(p)
<1>1. PICK op \in {"Ack", "Redeliver"} : At(p, op)
    BY DEF Ack, Redeliver
<1>2. proc[p].job \in Jobs
    BY <1>1, AtStatement DEF TypeInv, TypeOK
<1>3. /\ UNCHANGED <<job, draft, accepted, attested, inbox>>
      /\ queue' = queue \/ queue' = [queue EXCEPT ![proc[p].job] = @ + 1]
      /\ Finish(p)
    BY DEF Ack, Redeliver, rowVars, worldVars, JobOf
<1>. QED
    BY <1>2, <1>3, QuitAside

LEMMA ReadJobAside ==
    ASSUME TypeInv, NEW p \in Procs, ReadJob(p)
    PROVE  Aside(p)
<1> DEFINE j == JobOf(p)
           b == j \in aged
           st == job[j].status
           n == job[j].retries
           r == [proc[p] EXCEPT !.step = @ + 1, !.seen = st, !.retries = n, !.late = b]
<1>1. At(p, "ReadJob") /\ "ReadJob" \notin Ends
    BY DEF ReadJob, Ends
<1>2. proc[p] \in ProcType
    BY DEF TypeInv, TypeOK, ProcTypes
<1>3. /\ proc' = [proc EXCEPT ![p] = r]
      /\ UNCHANGED <<rowVars, worldVars>>
    BY DEF ReadJob, TypeInv, TypeOK, ProcTypes
<1>. HIDE DEF j, b, st, n
<1>4. r.plan = proc[p].plan /\ r.step = proc[p].step + 1 /\ r.job = proc[p].job
    BY <1>2 DEF ProcType
<1>. HIDE DEF r
<1>5. Leaves(p)
    BY <1>1, <1>3, <1>4, StepLeaves
<1>. QED
    BY <1>3, <1>5, QuietAside DEF rowVars, worldVars

LEMMA ReadMessageAside ==
    ASSUME TypeInv, NEW p \in Procs, ReadMessage(p)
    PROVE  Aside(p)
<1> DEFINE m == msg[JobOf(p)]
           d == draft[JobOf(p)]
           r == [proc[p] EXCEPT !.step = @ + 1, !.row = m, !.draft = d]
<1>1. At(p, "ReadMessage") /\ "ReadMessage" \notin Ends
    BY DEF ReadMessage, Ends
<1>2. proc[p] \in ProcType
    BY DEF TypeInv, TypeOK, ProcTypes
<1>3. /\ proc' = [proc EXCEPT ![p] = r]
      /\ UNCHANGED <<rowVars, worldVars>>
    BY DEF ReadMessage, TypeInv, TypeOK, ProcTypes
<1>. HIDE DEF m, d
<1>4. r.plan = proc[p].plan /\ r.step = proc[p].step + 1 /\ r.job = proc[p].job
    BY <1>2 DEF ProcType
<1>. HIDE DEF r
<1>5. Leaves(p)
    BY <1>1, <1>3, <1>4, StepLeaves
<1>. QED
    BY <1>3, <1>5, QuietAside DEF rowVars, worldVars

LEMMA ReadEventsAside ==
    ASSUME TypeInv, NEW p \in Procs, ReadEvents(p)
    PROVE  Aside(p)
<1> DEFINE pl == BranchPlan(p, events[JobOf(p)])
           j == JobOf(p)
           n == proc[p].retries
           r == [IdleProc EXCEPT !.plan = pl, !.job = j, !.retries = n]
<1>1. pl \in PlanNames \ {"idle", "retryLater", "retryBlind"}
    <2>1. proc[p].seen \in JobStatus
        BY AtStatement DEF ReadEvents, TypeInv, TypeOK, ProcTypes, ProcType
    <2>. QED
        BY <2>1 DEF BranchPlan, ConvergePlan, PlanNames
<1>2. /\ proc' = [proc EXCEPT ![p] = r]
      /\ UNCHANGED <<rowVars, worldVars>>
      /\ j = proc[p].job
    BY DEF ReadEvents, JobOf
<1>. HIDE DEF pl, j, n
<1>3. r.plan = pl /\ r.step = 1 /\ r.job = j
    BY DEF IdleProc
<1>. HIDE DEF r
<1>4. Leaves(p)
    BY <1>1, <1>2, <1>3, StartLeaves DEF Leaves
<1>. QED
    BY <1>2, <1>4, QuietAside DEF rowVars, worldVars

(* The claim that comes too late.                                          *)
LEMMA ClaimAside ==
    ASSUME TypeInv, NEW p \in Procs, Claim(p), ~ Takes(p)
    PROVE  Aside(p)
<1>1. Follow(p, "ack") /\ UNCHANGED <<job, draft, queue, accepted, attested, inbox>>
    BY DEF Claim, Takes, worldVars
<1>2. "ack" \in PlanNames \ {"idle", "retryLater", "retryBlind"}
    BY DEF PlanNames
<1>3. Leaves(p)
    BY <1>1, <1>2, FollowLeaves
<1>. QED
    BY <1>1, <1>3, QuietAside

(* The claim that succeeds passes the token from the row to the worker.    *)
LEMMA TakesOnce ==
    ASSUME TypeInv, OnceInv, NEW p \in Procs, Takes(p)
    PROVE  OnceInv'
<1> DEFINE i == JobOf(p)
<1>a. /\ proc[p] \in ProcType /\ i \in Jobs /\ i = proc[p].job
      /\ proc[p].plan = "send"
    BY AtStatement DEF Takes, Claim, TypeInv, TypeOK, StepFact
<1>b. UNCHANGED <<draft, queue, accepted, attested, inbox>>
    BY DEF Takes, Claim, worldVars
<1>c. job[i].status \in Claimable /\ Claim(p)
    BY DEF Takes
<1> DEFINE r == [proc[p] EXCEPT !.step = @ + 1, !.owns = TRUE]
<1>1. proc' = [proc EXCEPT ![p] = r]
    BY <1>c DEF Claim, TypeInv, TypeOK, ProcTypes
<1>2. r.job = i
    BY <1>a DEF ProcType
<1>. HIDE DEF r
<1>3. proc'[p].job = i /\ Others(p)
    BY <1>1, <1>2 DEF TypeInv, TypeOK, ProcTypes, Others
<1>4. Unsent(i) /\ \A q \in Procs : Sending(q) => proc[q].job # i
    BY <1>a, <1>c DEF OnceInv, RowsHold, Sendable
<1>5. job' = [job EXCEPT ![i].status = "sending", ![i].error = "none"]
    BY <1>c DEF Claim
<1>6. /\ \A j \in Jobs \ {i} : job'[j] = job[j]
      /\ job'[i].status = "sending"
    BY <1>a, <1>5 DEF TypeInv, TypeOK, RowTypes
<1>7. ASSUME NEW q \in Procs, Sending(q)'
      PROVE  \/ q = p
             \/ Sending(q) /\ proc'[q].job = proc[q].job /\ proc[q].job \in Jobs \ {i}
    <2>1. CASE q = p
        BY <2>1
    <2>2. CASE q # p
        <3>1. Sending(q) /\ proc'[q].job = proc[q].job
            BY <1>3, <1>7, <2>2, OthersSending
        <3>2. proc[q].job \in Jobs
            BY <3>1, AtStatement DEF Sending, TypeInv, TypeOK
        <3>. QED
            BY <1>4, <3>1, <3>2
    <2>. QED
        BY <2>1, <2>2
<1>8. SentOnce'
    BY <1>b DEF OnceInv, SentOnce
<1>9. \A j \in Jobs : Unsent(j)' <=> Unsent(j)
    BY <1>b DEF Unsent
<1>10. RowsHold'
    <2>1. ASSUME NEW j \in Jobs, Sendable(j)'
          PROVE  j # i /\ Sendable(j)
        BY <1>6, <2>1 DEF Sendable, Claimable
    <2>. QED
        BY <1>3, <1>7, <1>9, <2>1 DEF OnceInv, RowsHold
<1>11. WorkersHold'
    BY <1>a, <1>3, <1>4, <1>7, <1>9 DEF OnceInv, WorkersHold
<1>12. DraftsIdle'
    <2>1. \A q \in Procs : proc'[q].job = proc[q].job
        BY <1>a, <1>3 DEF Others
    <2>2. draft[i] # "draft"
        BY <1>a DEF OnceInv, DraftsIdle
    <2>. QED
        BY <1>b, <1>6, <2>1, <2>2 DEF OnceInv, DraftsIdle
<1>. QED
    BY <1>8, <1>10, <1>11, <1>12 DEF OnceInv

(* The job is checked, or refused: the worker keeps its token.             *)
LEMMA CheckKeeps ==
    ASSUME TypeInv, NEW p \in Procs, Check(p)
    PROVE  Keeps(p)
<1> DEFINE n == job[JobOf(p)].retries
<1>1. Sending(p)
    BY DEF Check, Sending, Sends
<1>2. Others(p) /\ proc'[p].job = proc[p].job
    <2>1. \/ proc' = [proc EXCEPT ![p].step = @ + 1, ![p].retries = n]
          \/ \E pl : FollowWith(p, pl, n)
        BY DEF Check
    <2>2. CASE proc' = [proc EXCEPT ![p].step = @ + 1, ![p].retries = n]
        <3> DEFINE r == [proc[p] EXCEPT !.step = @ + 1, !.retries = n]
        <3>1. r.job = proc[p].job
            <4>. HIDE DEF n
            <4>. QED
                BY DEF TypeInv, TypeOK, ProcTypes, ProcType
        <3>2. proc'[p] = r /\ Others(p)
            BY <2>2 DEF Others, TypeInv, TypeOK, ProcTypes
        <3>. QED
            BY <3>1, <3>2
    <2>3. ASSUME NEW pl, FollowWith(p, pl, n)
          PROVE  Others(p) /\ proc'[p].job = proc[p].job
        <3> DEFINE r == [proc[p] EXCEPT !.plan = pl, !.step = 1, !.retries = n]
        <3>1. r.job = proc[p].job
            <4>. HIDE DEF n
            <4>. QED
                BY DEF TypeInv, TypeOK, ProcTypes, ProcType
        <3>2. proc'[p] = r /\ Others(p)
            BY <2>3 DEF FollowWith, Others, TypeInv, TypeOK, ProcTypes
        <3>. QED
            BY <3>1, <3>2
    <2>. QED
        BY <2>1, <2>2, <2>3
<1>3. UNCHANGED <<job, draft, queue, accepted, attested, inbox>>
    BY DEF Check, rowVars, worldVars
<1>. QED
    BY <1>1, <1>2, <1>3 DEF Keeps

(* Followed with the job and its handler as they are.                      *)
LEMMA FollowJob ==
    ASSUME TypeInv, NEW p \in Procs, NEW pl, Follow(p, pl)
    PROVE  Others(p) /\ proc'[p].job = proc[p].job
<1> DEFINE r == [proc[p] EXCEPT !.plan = pl, !.step = 1]
<1>1. r.job = proc[p].job
    BY DEF TypeInv, TypeOK, ProcTypes, ProcType
<1>2. proc'[p] = r /\ Others(p)
    BY DEF Follow, Others, TypeInv, TypeOK, ProcTypes
<1>. QED
    BY <1>1, <1>2

LEMMA AdvanceJob ==
    ASSUME TypeInv, NEW p \in Procs, Advance(p)
    PROVE  Others(p) /\ proc'[p].job = proc[p].job
<1> DEFINE r == [proc[p] EXCEPT !.step = @ + 1]
<1>1. r.job = proc[p].job
    BY DEF TypeInv, TypeOK, ProcTypes, ProcType
<1>2. proc'[p] = r /\ Others(p)
    BY DEF Advance, Skip, Others, TypeInv, TypeOK, ProcTypes
<1>. QED
    BY <1>1, <1>2

(* The copies of a job without external recipients are its whole delivery. *)
LEMMA DeliverLocallyKind ==
    ASSUME TypeInv, NEW p \in Procs, DeliverLocally(p)
    PROVE  Keeps(p) \/ Spends(p)
<1>1. Sending(p) /\ JobOf(p) = proc[p].job
    BY DEF DeliverLocally, Sending, Sends, JobOf
<1>2. /\ UNCHANGED <<job, draft, queue, accepted, attested>>
      /\ inbox' \subseteq inbox \union {proc[p].job}
    BY <1>1 DEF DeliverLocally, rowVars
<1>3. CASE JobOf(p) \in External
    <2>1. Others(p) /\ proc'[p].job = proc[p].job
        BY <1>3, AdvanceJob DEF DeliverLocally
    <2>. QED
        BY <1>1, <1>2, <1>3, <2>1 DEF Keeps
<1>4. CASE JobOf(p) \notin External
    <2>1. Follow(p, "accepted") /\ "accepted" \in PlanNames \ {"idle", "retryLater", "retryBlind"}
        BY <1>4 DEF DeliverLocally, PlanNames
    <2>2. Others(p) /\ proc'[p].job = proc[p].job /\ ~ Sending(p)'
        BY <2>1, FollowJob, FollowLeaves DEF Leaves
    <2>. QED
        BY <1>1, <1>2, <2>2 DEF Spends
<1>. QED
    BY <1>3, <1>4

LEMMA SubmitKind ==
    ASSUME TypeInv, NEW p \in Procs, SubmitAccepted(p) \/ SubmitRefused(p)
    PROVE  Keeps(p) \/ Spends(p)
<1>1. Sending(p) /\ JobOf(p) = proc[p].job
    BY DEF SubmitAccepted, SubmitRefused, Sending, Sends, JobOf
<1>2. CASE SubmitRefused(p)
    <2>1. Others(p) /\ proc'[p].job = proc[p].job
        BY <1>2, FollowJob DEF SubmitRefused
    <2>2. UNCHANGED <<job, draft, queue, accepted, attested, inbox>>
        BY <1>2 DEF SubmitRefused, rowVars, worldVars
    <2>. QED
        BY <1>1, <2>1, <2>2 DEF Keeps
<1>3. CASE SubmitAccepted(p)
    <2> DEFINE k == accepted[JobOf(p)] + 1
               r == [proc[p] EXCEPT !.plan = "accepted", !.step = 1, !.pid = k]
    <2>1. r.plan = "accepted" /\ r.step = 1 /\ r.job = proc[p].job
        <3>. HIDE DEF k
        <3>. QED
            BY DEF TypeInv, TypeOK, ProcTypes, ProcType
    <2>2. proc' = [proc EXCEPT ![p] = r]
        BY <1>3 DEF SubmitAccepted, TypeInv, TypeOK, ProcTypes
    <2>. HIDE DEF r
    <2>3. r.plan \in PlanNames \ {"idle", "retryLater", "retryBlind"}
        BY <2>1 DEF PlanNames
    <2>4. Others(p) /\ ~ Sending(p)' /\ proc'[p].job = proc[p].job
        BY <2>1, <2>2, <2>3, StartLeaves
    <2>5. /\ accepted'[proc[p].job] \in {accepted[proc[p].job], accepted[proc[p].job] + 1}
          /\ \A j \in Jobs \ {proc[p].job} : accepted'[j] = accepted[j]
        <3>1. proc[p].job \in Jobs
            BY <1>1, AtStatement DEF Sending, TypeInv, TypeOK
        <3>. QED
            BY <1>1, <1>3, <3>1 DEF SubmitAccepted, TypeInv, TypeOK, WorldTypes
    <2>6. UNCHANGED <<job, draft, queue, attested, inbox>>
        BY <1>3 DEF SubmitAccepted, rowVars
    <2>. QED
        BY <1>1, <2>4, <2>5, <2>6 DEF Spends
<1>. QED
    BY <1>2, <1>3

(* The catch block gives the token back to the row.                        *)
LEMMA ReturnsOnce ==
    ASSUME TypeInv, OnceInv, NEW p \in Procs, Returns(p)
    PROVE  OnceInv'
<1> DEFINE i == proc[p].job
<1>1. PICK op \in {"JobRetry", "JobRetryBlind"} : At(p, op)
    BY DEF Returns, JobRetry, JobRetryBlind
<1>2. Sending(p) /\ JobOf(p) = i /\ i \in Jobs
    BY <1>1, AtStatement DEF Sending, Sends, JobOf, TypeInv, TypeOK
<1>3. PICK n : WriteJob(p, "retry", n, "transient")
    BY DEF Returns, JobRetry, JobRetryBlind
<1>4. Others(p) /\ proc'[p].job = i /\ ~ Sending(p)'
    BY <1>1, <1>3, AdvanceJob, AdvanceLeaves DEF WriteJob, Leaves, Ends
<1>5. UNCHANGED <<draft, queue, accepted, attested, inbox>>
    BY <1>3 DEF WriteJob, worldVars
<1>6. \A j \in Jobs \ {i} : job'[j] = job[j]
    BY <1>2, <1>3 DEF WriteJob, TypeInv, TypeOK, RowTypes
<1>7. Unsent(i) /\ \A q \in Procs \ {p} : Sending(q) => proc[q].job # i
    BY <1>2 DEF OnceInv, WorkersHold
<1>8. ASSUME NEW q \in Procs, Sending(q)'
      PROVE  Sending(q) /\ proc'[q].job = proc[q].job /\ proc[q].job \in Jobs \ {i}
    <2>1. q # p /\ Sending(q) /\ proc'[q].job = proc[q].job
        BY <1>4, <1>8, OthersSending
    <2>2. proc[q].job \in Jobs
        BY <2>1, AtStatement DEF Sending, TypeInv, TypeOK
    <2>. QED
        BY <1>7, <2>1, <2>2
<1>9. \A j \in Jobs : Unsent(j)' <=> Unsent(j)
    BY <1>5 DEF Unsent
<1>10. \A j \in Jobs \ {i} : Sendable(j)' <=> Sendable(j)
    BY <1>6 DEF Sendable
<1>11. RowsHold'
    BY <1>7, <1>8, <1>9, <1>10 DEF OnceInv, RowsHold
<1>12. WorkersHold'
    BY <1>8, <1>9 DEF OnceInv, WorkersHold
<1>13. DraftsIdle'
    <2>1. draft[i] # "draft"
        BY <1>2 DEF OnceInv, DraftsIdle
    <2>2. \A q \in Procs : proc'[q].job = proc[q].job
        BY <1>4 DEF Others
    <2>. QED
        BY <1>5, <1>6, <2>1, <2>2 DEF OnceInv, DraftsIdle
<1>14. SentOnce'
    BY <1>5 DEF OnceInv, SentOnce
<1>. QED
    BY <1>11, <1>12, <1>13, <1>14 DEF OnceInv

LEMMA WorkerWriteAside ==
    ASSUME TypeInv, NEW p \in Procs,
           MessageSent(p) \/ JobFailed(p) \/ JobUncertain(p) \/ JobExhausted(p)
    PROVE  Aside(p)
<1> USE DEF Ends
<1>1. CASE MessageSent(p)
    BY <1>1, WriteMessageAside DEF MessageSent
<1>2. CASE JobFailed(p)
    BY <1>2, WriteJobAside DEF JobFailed
<1>3. CASE JobUncertain(p)
    BY <1>3, WriteJobAside DEF JobUncertain
<1>4. CASE JobExhausted(p)
    BY <1>4, WriteJobAside DEF JobExhausted
<1>. QED
    BY <1>1, <1>2, <1>3, <1>4

LEMMA WorkerCrashAside ==
    ASSUME TypeInv, NEW p \in Procs, WorkerCrash(p)
    PROVE  Aside(p)
<1>1. proc[p].job \in Jobs /\ JobOf(p) = proc[p].job
    BY DEF WorkerCrash, JobOf, TypeInv, TypeOK, ProcTypes
<1>2. /\ UNCHANGED <<job, draft, accepted, attested, inbox>>
      /\ queue' = [queue EXCEPT ![proc[p].job] = @ + 1]
      /\ Finish(p)
    BY <1>1 DEF WorkerCrash, rowVars
<1>. QED
    BY <1>1, <1>2, QuitAside

LEMMA WorkerKinds ==
    ASSUME Reliable, TypeInv, OnceInv, NEW w \in Procs, WorkerStep(w) \/ WorkerFault(w)
    PROVE  Kinds(w)
<1>1. ~ (ReadFails(w) \/ SubmitAmbiguous(w) \/ WorkerWriteFails(w))
    BY DEF Reliable, ReadFails, SubmitAmbiguous, WorkerWriteFails, Counted
<1>2. CASE Ack(w) \/ Redeliver(w) \/ ReadJob(w) \/ ReadMessage(w) \/ ReadEvents(w)
    BY <1>2, AckAside, ReadJobAside, ReadMessageAside, ReadEventsAside DEF Kinds
<1>3. CASE MessageSent(w) \/ JobFailed(w) \/ JobUncertain(w) \/ JobExhausted(w)
    BY <1>3, WorkerWriteAside DEF Kinds
<1>4. CASE SharedStep(w) \/ WorkerCrash(w)
    BY <1>4, SharedAside, WorkerCrashAside DEF Kinds
<1>5. CASE Check(w) \/ DeliverLocally(w) \/ SubmitAccepted(w) \/ SubmitRefused(w)
    BY <1>5, CheckKeeps, DeliverLocallyKind, SubmitKind DEF Kinds
<1>6. CASE Claim(w) \/ JobRetry(w) \/ JobRetryBlind(w)
    BY <1>6, ClaimAside DEF Kinds, Returns
<1>7. CASE \E j \in Jobs : Receive(w, j)
    BY <1>7, ReceiveStarts DEF Kinds
<1>. QED
    BY <1>1, <1>2, <1>3, <1>4, <1>5, <1>6, <1>7 DEF WorkerStep, WorkerFault

-----------------------------------------------------------------------------
(* The webhook's steps, the steps of nobody, and the theorems.             *)

(* A notification names a job whose email was accepted, so its draft was   *)
(* sent.                                                                   *)
LEMMA NotifyStarts ==
    ASSUME TypeInv, OnceInv, NEW p \in Procs, NEW j \in Jobs, NEW k \in 1..accepted[j],
           NEW e \in TerminalEvents, Notify(p, j, k, e)
    PROVE  Starts(p, j)
<1> DEFINE r == [IdleProc EXCEPT !.plan = "hook", !.job = j, !.pid = k, !.event = e]
<1>1. r.plan \in PlanNames \ {"idle", "retryLater", "retryBlind"} /\ r.step = 1 /\ r.job = j
    BY DEF IdleProc, PlanNames
<1>2. proc' = [proc EXCEPT ![p] = r]
    BY DEF Notify
<1>. HIDE DEF r
<1>3. Others(p) /\ ~ Sending(p)' /\ proc'[p].job = j
    BY <1>1, <1>2, StartLeaves
<1>4. draft[j] # "draft"
    BY DEF OnceInv, DraftsIdle, TypeInv, TypeOK, WorldTypes
<1>5. UNCHANGED <<job, draft, accepted, attested, inbox, queue>>
    BY DEF Notify, rowVars, worldVars
<1>. QED
    BY <1>3, <1>4, <1>5 DEF Starts

LEMMA ReadJobForEventAside ==
    ASSUME TypeInv, NEW p \in Procs, ReadJobForEvent(p)
    PROVE  Aside(p)
<1> DEFINE st == job[JobOf(p)].status
           r == [proc[p] EXCEPT !.step = @ + 1, !.seen = st]
<1>1. At(p, "ReadJobForEvent") /\ "ReadJobForEvent" \notin Ends
    BY DEF ReadJobForEvent, Ends
<1>2. proc[p] \in ProcType
    BY DEF TypeInv, TypeOK, ProcTypes
<1>3. /\ proc' = [proc EXCEPT ![p] = r]
      /\ UNCHANGED <<rowVars, worldVars>>
    BY DEF ReadJobForEvent, TypeInv, TypeOK, ProcTypes
<1>. HIDE DEF st
<1>4. r.plan = proc[p].plan /\ r.step = proc[p].step + 1 /\ r.job = proc[p].job
    BY <1>2 DEF ProcType
<1>. HIDE DEF r
<1>5. Leaves(p)
    BY <1>1, <1>3, <1>4, StepLeaves
<1>. QED
    BY <1>3, <1>5, QuietAside DEF rowVars, worldVars

LEMMA ReadOutcomeAside ==
    ASSUME TypeInv, NEW p \in Procs, ReadOutcome(p)
    PROVE  Aside(p)
<1> DEFINE pl == OutcomePlan(p)
           r == [proc[p] EXCEPT !.plan = pl, !.step = 1, !.seen = "none", !.pid = 0]
<1>1. pl \in PlanNames \ {"idle", "retryLater", "retryBlind"}
    BY DEF OutcomePlan, PlanNames
<1>2. /\ proc' = [proc EXCEPT ![p] = r]
      /\ UNCHANGED <<rowVars, worldVars>>
    BY DEF ReadOutcome, TypeInv, TypeOK, ProcTypes
<1>. HIDE DEF pl
<1>3. r.plan = pl /\ r.step = 1 /\ r.job = proc[p].job
    BY DEF TypeInv, TypeOK, ProcTypes, ProcType
<1>. HIDE DEF r
<1>4. Leaves(p)
    BY <1>1, <1>2, <1>3, StartLeaves DEF Leaves
<1>. QED
    BY <1>2, <1>4, QuietAside DEF rowVars, worldVars

LEMMA HookStepAside ==
    ASSUME TypeInv, NEW h \in Procs, HookStep(h)
    PROVE  Aside(h)
<1> USE DEF Ends
<1>1. CASE StoreEvent(h) \/ Backfill(h) \/ Suppress(h)
    <2>1. PICK op \in {"StoreEvent", "Backfill", "Suppress"} : At(h, op)
        BY <1>1 DEF StoreEvent, Backfill, Suppress
    <2>2. Advance(h) /\ UNCHANGED <<job, draft, accepted, attested, inbox, queue>>
        BY <1>1 DEF StoreEvent, Backfill, Suppress, rowVars, worldVars
    <2>3. Leaves(h)
        BY <2>1, <2>2, AdvanceLeaves
    <2>. QED
        BY <2>2, <2>3, QuietAside
<1>2. CASE JobBounced(h)
    BY <1>2, WriteJobAside DEF JobBounced
<1>3. CASE Respond(h)
    <2>1. Finish(h) /\ UNCHANGED <<job, draft, accepted, attested, inbox, queue>>
        BY <1>3 DEF Respond, rowVars, worldVars
    <2>2. proc[h].job \in Jobs
        BY <1>3, AtStatement DEF Respond, TypeInv, TypeOK
    <2>. QED
        BY <2>1, <2>2, QuitAside
<1>. QED
    BY <1>1, <1>2, <1>3, ReadJobForEventAside, ReadOutcomeAside, SharedAside DEF HookStep

LEMMA HookKinds ==
    ASSUME Reliable, TypeInv, OnceInv, NEW h \in Procs, HookNext(h)
    PROVE  Kinds(h)
<1>1. CASE HookFault(h)
    <2>1. HookCrash(h)
        BY <1>1 DEF HookFault, Reliable, HookWriteFails, Counted
    <2>2. Finish(h) /\ UNCHANGED <<job, draft, accepted, attested, inbox, queue>>
        BY <2>1 DEF HookCrash, rowVars
    <2>3. proc[h].job \in Jobs
        BY <2>1 DEF HookCrash, TypeInv, TypeOK, ProcTypes
    <2>. QED
        BY <2>2, <2>3, QuitAside DEF Kinds
<1>. QED
    BY <1>1, NotifyStarts, HookStepAside DEF HookNext, Kinds

LEMMA KindsOnce ==
    ASSUME TypeInv, OnceInv, NEW p \in Procs, Kinds(p)
    PROVE  OnceInv'
    BY AsideOnce, KeepsOnce, SpendsOnce, StartsOnce, TakesOnce, ReturnsOnce DEF Kinds

LEMMA NobodyOnce ==
    ASSUME TypeInv, OnceInv, NEW i \in Jobs,
           EnqueueDraftSend(i) \/ Duplicate(i) \/ Age(i)
    PROVE  OnceInv'
<1>1. UNCHANGED <<accepted, attested, inbox, proc>>
    BY DEF EnqueueDraftSend, Duplicate, Age, worldVars
<1>2. \A q \in Procs : Sending(q)' <=> Sending(q)
    BY <1>1 DEF Sending, At
<1>3. \A j \in Jobs : Unsent(j)' <=> Unsent(j)
    BY <1>1 DEF Unsent
<1>4. \A j \in Jobs : Sendable(j)' => Sendable(j)
    <2>1. CASE EnqueueDraftSend(i)
        <3>1. job' = [job EXCEPT ![i].status = "queued"] /\ job[i].status = "none"
            BY <2>1 DEF EnqueueDraftSend, OnceInv, DraftsIdle
        <3>. QED
            BY <3>1 DEF Sendable, Claimable, TypeInv, TypeOK, RowTypes
    <2>2. CASE Duplicate(i) \/ Age(i)
        BY <2>2 DEF Duplicate, Age, rowVars, Sendable
    <2>. QED
        BY <2>1, <2>2
<1>5. RowsHold' /\ WorkersHold'
    <2>1. \A q \in Procs : Sending(q) => proc[q].job \in Jobs
        BY AtStatement DEF Sending, TypeInv, TypeOK
    <2>. QED
        BY <1>1, <1>2, <1>3, <1>4, <2>1 DEF OnceInv, RowsHold, WorkersHold
<1>6. DraftsIdle'
    <2>1. CASE EnqueueDraftSend(i)
        <3>1. /\ job' = [job EXCEPT ![i].status = "queued"]
              /\ queue' = [queue EXCEPT ![i] = @ + 1]
              /\ draft' = [draft EXCEPT ![i] = "queued"]
            BY <2>1 DEF EnqueueDraftSend
        <3>2. /\ draft'[i] # "draft"
              /\ \A j \in Jobs \ {i} : /\ job'[j] = job[j] /\ queue'[j] = queue[j]
                                       /\ draft'[j] = draft[j]
            BY <3>1 DEF TypeInv, TypeOK, RowTypes, WorldTypes
        <3>. QED
            BY <1>1, <3>2 DEF OnceInv, DraftsIdle
    <2>2. CASE Duplicate(i)
        <3>1. /\ UNCHANGED <<job, draft>>
              /\ queue' = [queue EXCEPT ![i] = @ + 1]
              /\ job[i].status # "none"
            BY <2>2 DEF Duplicate, rowVars
        <3>2. \A j \in Jobs \ {i} : queue'[j] = queue[j]
            BY <3>1 DEF TypeInv, TypeOK, WorldTypes
        <3>. QED
            BY <1>1, <3>1, <3>2 DEF OnceInv, DraftsIdle
    <2>3. CASE Age(i)
        BY <1>1, <2>3 DEF Age, rowVars, worldVars, OnceInv, DraftsIdle
    <2>. QED
        BY <2>1, <2>2, <2>3
<1>. QED
    BY <1>1, <1>5, <1>6 DEF OnceInv, SentOnce

LEMMA InitOnce == Init => OnceInv
<1> SUFFICES ASSUME Init PROVE OnceInv
    OBVIOUS
<1>1. \A p \in Procs : proc[p].plan = "idle" /\ proc[p].job = NoJob
    BY DEF Init, IdleProc
<1>2. DOMAIN Plan["idle"] = {}
    BY PlanTable DEF PlanFact, StepFact, PlanNames
<1>3. \A p \in Procs : ~ Sending(p)
    BY <1>1, <1>2 DEF Sending, At
<1>4. \A j \in Jobs : accepted[j] = 0 /\ j \notin attested /\ j \notin inbox
    BY DEF Init
<1>5. DraftsIdle
    BY <1>1, <1>4, ConstantsAssumption DEF Init, DraftsIdle
<1>. QED
    BY <1>3, <1>4, <1>5 DEF OnceInv, SentOnce, RowsHold, WorkersHold, Unsent

LEMMA NextOnce == Reliable /\ TypeInv /\ OnceInv /\ [Next]_vars => OnceInv'
<1> SUFFICES ASSUME Reliable, TypeInv, OnceInv, [Next]_vars PROVE OnceInv'
    OBVIOUS
<1>1. CASE UNCHANGED vars
    <2>1. UNCHANGED <<job, draft, queue, accepted, attested, inbox, proc>>
        BY <1>1 DEF vars, rowVars, worldVars
    <2>. QED
        BY <2>1 DEF OnceInv, SentOnce, RowsHold, WorkersHold, DraftsIdle, Unsent, Sendable,
                    Sending, At
<1>2. CASE Next
    BY <1>2, NobodyOnce, WorkerKinds, HookKinds, KindsOnce DEF Next, Procs, Reliable
<1>. QED
    BY <1>1, <1>2

(* The provider is given a job's email at most once, however many copies   *)
(* of its queue message are delivered, whichever invocations crash, and    *)
(* however stale the state is that a recovery or a webhook acts on.        *)
THEOREM AtMostOneSubmission == ASSUME Reliable PROVE Spec => []SentOnce
<1>1. Init => TypeInv /\ OnceInv
    BY InitTypes, InitOnce
<1>2. TypeInv /\ OnceInv /\ [Next]_vars => (TypeInv /\ OnceInv)'
    BY NextTypes, NextOnce
<1>3. TypeInv /\ OnceInv => SentOnce
    BY DEF OnceInv
<1>. QED
    BY <1>1, <1>2, <1>3, PTL DEF Spec

(* A job that may still be sent has left no trace of having been.          *)
LEMMA UnsentUntraced ==
    ASSUME ChargeInv, NEW j \in Jobs, Unsent(j)
    PROVE  job[j].status # "sent"
    BY ConstantsAssumption DEF ChargeInv, RowsBacked, Traced, Delivered, Reached, Unsent

LEMMA FinalStep ==
    ASSUME Reliable, TypeInv, ChargeInv, OnceInv, [Next]_vars,
           NEW j \in Jobs, job[j].status = "sent"
    PROVE  job'[j].status \notin Unfinished
<1> USE DEF Unfinished
<1>1. ASSUME NEW p \in Procs, Kinds(p)
      PROVE  job'[j].status \notin Unfinished
    <2>1. CASE Aside(p)
        BY <2>1 DEF Aside
    <2>2. CASE Keeps(p) \/ Spends(p) \/ \E i \in Jobs : Starts(p, i)
        <3>1. UNCHANGED job
            BY <2>2 DEF Keeps, Spends, Starts
        <3>. QED
            BY <3>1
    <2>3. CASE Takes(p)
        <3>1. JobOf(p) \in Jobs
            BY <2>3, AtStatement DEF Takes, Claim, TypeInv, TypeOK
        <3>2. JobOf(p) # j
            BY <2>3 DEF Takes, Claimable
        <3>. QED
            BY <2>3, <3>1, <3>2 DEF Takes, Claim, TypeInv, TypeOK, RowTypes
    <2>4. CASE Returns(p)
        <3>1. PICK op \in {"JobRetry", "JobRetryBlind"} : At(p, op)
            BY <2>4 DEF Returns, JobRetry, JobRetryBlind
        <3>2. Sending(p) /\ JobOf(p) \in Jobs /\ JobOf(p) = proc[p].job
            BY <3>1, AtStatement DEF Sending, Sends, TypeInv, TypeOK
        <3>3. JobOf(p) # j
            BY <3>2, UnsentUntraced DEF OnceInv, WorkersHold
        <3>4. PICK n : WriteJob(p, "retry", n, "transient")
            BY <2>4 DEF Returns, JobRetry, JobRetryBlind
        <3>. QED
            BY <3>2, <3>3, <3>4 DEF WriteJob, TypeInv, TypeOK, RowTypes
    <2>. QED
        BY <1>1, <2>1, <2>2, <2>3, <2>4 DEF Kinds
<1>2. ASSUME NEW i \in Jobs, EnqueueDraftSend(i) \/ Duplicate(i) \/ Age(i)
      PROVE  job'[j].status \notin Unfinished
    <2>1. CASE EnqueueDraftSend(i)
        <3>1. i # j
            BY <2>1 DEF EnqueueDraftSend, OnceInv, DraftsIdle
        <3>. QED
            BY <2>1, <3>1 DEF EnqueueDraftSend, TypeInv, TypeOK, RowTypes
    <2>2. CASE Duplicate(i) \/ Age(i)
        BY <2>2 DEF Duplicate, Age, rowVars
    <2>. QED
        BY <1>2, <2>1, <2>2
<1>3. CASE UNCHANGED vars
    BY <1>3 DEF vars, rowVars
<1>. QED
    BY <1>1, <1>2, <1>3, WorkerKinds, HookKinds DEF Next, Procs, Reliable

(* A job that was sent is never made sendable again: not by a worker that  *)
(* read it before, nor by one whose claim it lost, nor by a late event.    *)
THEOREM SentForGood == ASSUME Reliable PROVE Spec => SentIsFinal
<1>1. Init => TypeInv /\ ChargeInv /\ OnceInv
    BY InitTypes, InitBacked, InitOnce
<1>2. TypeInv /\ ChargeInv /\ OnceInv /\ [Next]_vars => (TypeInv /\ ChargeInv /\ OnceInv)'
    BY NextTypes, NextBacked, NextOnce
<1>3. TypeInv /\ ChargeInv /\ OnceInv /\ [Next]_vars
          => [\A j \in Jobs : job[j].status = "sent" => job'[j].status \notin Unfinished]_vars
    BY FinalStep
<1>. QED
    BY <1>1, <1>2, <1>3, PTL DEF Spec, SentIsFinal

-----------------------------------------------------------------------------
(* No job is forgotten.                                                    *)

(* No operator acts and no write fails.  An operator's retry that dies     *)
(* before it enqueues leaves a `queued` job without a copy, and a worker   *)
(* whose `sent` fails to be written acknowledges and leaves it `sending`.  *)
Attended == Operators = {} /\ "write" \notin Faults

(* The worker is on its way to a statement that answers for its job.       *)
Undertakes(w) ==
    \/ \E k \in DOMAIN Plan[proc[w].plan] :
          k >= proc[w].step /\ Plan[proc[w].plan][k] \in Answers
    \/ At(w, "Check") \/ At(w, "DeliverLocally") \/ At(w, "Submit")

HasReadJob(w) == At(w, "ReadMessage") \/ At(w, "ReadEvents")

(* It is, or will be once it has read the job, or has read a job it can    *)
(* still claim.                                                            *)
Carries(w) ==
    \/ Undertakes(w)
    \/ At(w, "ReadJob")
    \/ HasReadJob(w) /\ proc[w].seen = "sending"
    \/ /\ job[proc[w].job].status \in Claimable
       /\ At(w, "Claim") \/ (HasReadJob(w) /\ proc[w].seen # "sent")

(* NotStranded is not inductive: that somebody works on the job does not   *)
(* say that it will be answered.                                           *)
Held(j) == queue[j] > 0 \/ \E w \in Workers : proc[w].job = j /\ Carries(w)

CarryInv == \A j \in Jobs : job[j].status \in Unfinished => Held(j)

(* The handler p holds its own job j after the step.                       *)
HoldsOn(p, j) ==
    \/ queue'[j] > 0
    \/ p \in Workers /\ proc'[p].job = j /\ Carries(p)'

(* A step that touches no job but its own, and does not let go of that     *)
(* unless it is finished or another carries it.                            *)
Passes(p) ==
    /\ Others(p)
    /\ \A j \in Jobs \ {proc[p].job} : job'[j] = job[j] /\ queue'[j] = queue[j]
    /\ \A j \in Jobs : j = proc[p].job =>
          /\ queue'[j] >= queue[j]
          /\ \/ job'[j].status \notin Unfinished
             \/ HoldsOn(p, j)
             \/ job'[j].status = job[j].status /\ (p \in Workers => ~ Carries(p))

LEMMA OthersCarry ==
    ASSUME NEW p \in Procs, Others(p), NEW q \in Procs \ {p}, Carries(q),
           job[proc[q].job].status \in Claimable => job'[proc[q].job].status \in Claimable
    PROVE  Carries(q)'
<1>1. proc'[q] = proc[q]
    BY DEF Others
<1>. QED
    BY <1>1 DEF Carries, Undertakes, HasReadJob, At

LEMMA PassesCarried ==
    ASSUME TypeInv, TypeInv', CarryInv, NEW p \in Procs, Passes(p)
    PROVE  CarryInv'
<1> SUFFICES ASSUME NEW j \in Jobs, job'[j].status \in Unfinished
             PROVE  Held(j)'
    BY DEF CarryInv
<1>1. CASE HoldsOn(p, j)
    BY <1>1 DEF HoldsOn, Held
<1>2. CASE ~ HoldsOn(p, j)
    <2>1. job'[j].status = job[j].status /\ queue'[j] >= queue[j]
        BY <1>2 DEF Passes, TypeInv, TypeOK, WorldTypes
    <2>2. CASE queue[j] > 0
        <3>1. queue[j] \in Nat /\ queue'[j] \in Nat
            BY DEF TypeInv, TypeOK, WorldTypes
        <3>. QED
            BY <2>1, <2>2, <3>1 DEF Held
    <2>3. CASE \E w \in Workers : proc[w].job = j /\ Carries(w)
        <3>1. PICK w \in Workers : proc[w].job = j /\ Carries(w)
            BY <2>3
        <3>2. w # p /\ w \in Procs
            BY <1>2, <3>1 DEF Passes, Procs
        <3>3. proc'[w].job = j /\ Carries(w)'
            BY <2>1, <3>1, <3>2, OthersCarry DEF Passes, Others
        <3>. QED
            BY <3>1, <3>3 DEF Held
    <2>. QED
        BY <2>1, <2>2, <2>3 DEF CarryInv, Held
<1>. QED
    BY <1>1, <1>2

(* Steps that leave the rows of jobs and the queue alone.                  *)
LEMMA QuietPasses ==
    ASSUME TypeInv, NEW p \in Procs, Others(p), UNCHANGED <<job, queue>>,
           p \in Workers /\ Carries(p) => proc'[p].job = proc[p].job /\ Carries(p)'
    PROVE  Passes(p)
<1>1. \A j \in Jobs : queue'[j] >= queue[j]
    BY DEF TypeInv, TypeOK, WorldTypes
<1>. QED
    BY <1>1 DEF Passes, HoldsOn

(* A plan that answers.                                                    *)
LEMMA AnswerUndertakes ==
    ASSUME NEW p \in Procs, proc'[p].plan \in AnswerPlans, proc'[p].step = 1
    PROVE  Carries(p)'
<1>1. AnswerPlans \subseteq PlanNames
    BY DEF AnswerPlans, PlanNames
<1>2. \E k \in DOMAIN Plan[proc'[p].plan] : k >= 1 /\ Plan[proc'[p].plan][k] \in Answers
    BY <1>1, PlanTable DEF PlanFact
<1>. QED
    BY <1>2 DEF Carries, Undertakes

LEMMA FollowPasses ==
    ASSUME TypeInv, NEW p \in Procs, NEW pl \in AnswerPlans, Follow(p, pl),
           UNCHANGED <<job, queue>>
    PROVE  Passes(p)
<1> DEFINE r == [proc[p] EXCEPT !.plan = pl, !.step = 1]
<1>1. r.job = proc[p].job /\ r.plan = pl /\ r.step = 1
    BY DEF TypeInv, TypeOK, ProcTypes, ProcType
<1>2. proc'[p] = r
    BY DEF Follow, TypeInv, TypeOK, ProcTypes
<1>. HIDE DEF r
<1>. QED
    BY <1>1, <1>2, AnswerUndertakes, FollowJob, QuietPasses

(* What a worker carries at a statement that is none of the special ones.  *)
LEMMA PlainCarries ==
    ASSUME TypeInv, NEW p \in Procs, NEW op, At(p, op), Carries(p),
           op \notin {"ReadJob", "ReadMessage", "ReadEvents", "Claim", "Check",
                     "DeliverLocally", "Submit"} \union Answers
    PROVE  \E k \in DOMAIN Plan[proc[p].plan] :
              k >= proc[p].step + 1 /\ Plan[proc[p].plan][k] \in Answers
<1>1. PICK k \in DOMAIN Plan[proc[p].plan] :
          k >= proc[p].step /\ Plan[proc[p].plan][k] \in Answers
    BY DEF Carries, Undertakes, HasReadJob, At
<1>2. k # proc[p].step
    BY <1>1 DEF At
<1>3. k \in Nat /\ proc[p].step \in Nat
    <2>1. proc[p].plan \in PlanNames
        BY AtStatement DEF TypeInv, TypeOK
    <2>. QED
        BY <1>1, <2>1, AtStatement, PlanTable DEF PlanFact, StepFact, TypeInv, TypeOK
<1>. QED
    BY <1>1, <1>2, <1>3

LEMMA StepPasses ==
    ASSUME TypeInv, NEW p \in Procs, NEW op, At(p, op),
           op \notin {"ReadJob", "ReadMessage", "ReadEvents", "Claim", "Check",
                     "DeliverLocally", "Submit"} \union Answers,
           NEW r, proc' = [proc EXCEPT ![p] = r],
           r.plan = proc[p].plan, r.step = proc[p].step + 1, r.job = proc[p].job,
           UNCHANGED <<job, queue>>
    PROVE  Passes(p)
<1>1. proc'[p] = r /\ Others(p)
    BY DEF TypeInv, TypeOK, ProcTypes, Others
<1>2. Carries(p) => Carries(p)'
    <2>1. HAVE Carries(p)
    <2>2. \E k \in DOMAIN Plan[proc[p].plan] :
              k >= proc[p].step + 1 /\ Plan[proc[p].plan][k] \in Answers
        BY <2>1, PlainCarries
    <2>. QED
        BY <1>1, <2>2 DEF Carries, Undertakes
<1>. QED
    BY <1>1, <1>2, QuietPasses

LEMMA AdvancePasses ==
    ASSUME TypeInv, NEW p \in Procs, NEW op, At(p, op), Advance(p),
           op \notin {"ReadJob", "ReadMessage", "ReadEvents", "Claim", "Check",
                     "DeliverLocally", "Submit"} \union Answers,
           UNCHANGED <<job, queue>>
    PROVE  Passes(p)
<1> DEFINE r == [proc[p] EXCEPT !.step = @ + 1]
<1>1. r.plan = proc[p].plan /\ r.step = proc[p].step + 1 /\ r.job = proc[p].job
    BY DEF TypeInv, TypeOK, ProcTypes, ProcType
<1>2. proc' = [proc EXCEPT ![p] = r]
    BY DEF Advance, Skip, TypeInv, TypeOK, ProcTypes
<1>. HIDE DEF r
<1>. QED
    BY <1>1, <1>2, StepPasses

(* A write that finishes the job.                                          *)
LEMMA FinalPasses ==
    ASSUME TypeInv, NEW p \in Procs, NEW op, At(p, op),
           NEW st \in {"sent", "failed"}, NEW n, NEW err, WriteJob(p, st, n, err)
    PROVE  Passes(p)
<1>1. proc[p].job \in Jobs /\ JobOf(p) = proc[p].job
    BY AtStatement DEF TypeInv, TypeOK
<1>2. Others(p)
    BY AdvanceJob DEF WriteJob
<1>3. job'[proc[p].job].status = st /\ \A j \in Jobs \ {proc[p].job} : job'[j] = job[j]
    BY <1>1 DEF WriteJob, TypeInv, TypeOK, RowTypes
<1>4. UNCHANGED queue /\ \A j \in Jobs : queue[j] >= queue[j]
    BY DEF WriteJob, worldVars, TypeInv, TypeOK, WorldTypes
<1>5. st \notin Unfinished
    BY DEF Unfinished
<1>. QED
    BY <1>2, <1>3, <1>4, <1>5 DEF Passes

(* A copy handed back to the queue.                                        *)
LEMMA RequeuePasses ==
    ASSUME TypeInv, NEW p \in Procs, Finish(p), proc[p].job \in Jobs, UNCHANGED job,
           queue' = [queue EXCEPT ![proc[p].job] = @ + 1]
    PROVE  Passes(p)
<1>1. Others(p)
    BY DEF Finish, Others, TypeInv, TypeOK, ProcTypes
<1>2. /\ queue'[proc[p].job] > 0
      /\ queue'[proc[p].job] >= queue[proc[p].job]
      /\ \A j \in Jobs \ {proc[p].job} : queue'[j] = queue[j]
    BY DEF TypeInv, TypeOK, WorldTypes
<1>. QED
    BY <1>1, <1>2 DEF Passes, HoldsOn

(* A step after which its worker carries its own job.                      *)
LEMMA CarriedPasses ==
    ASSUME TypeInv, NEW p \in Workers, Others(p), proc'[p].job = proc[p].job, Carries(p)',
           \A j \in Jobs \ {proc[p].job} : job'[j] = job[j], UNCHANGED queue
    PROVE  Passes(p)
<1>1. \A j \in Jobs : queue'[j] >= queue[j]
    BY DEF TypeInv, TypeOK, WorldTypes
<1>. QED
    BY <1>1 DEF Passes, HoldsOn

LEMMA AckPasses ==
    ASSUME TypeInv, NEW p \in Procs, Ack(p)
    PROVE  Passes(p)
<1>1. Others(p) /\ UNCHANGED <<job, queue>>
    BY DEF Ack, Finish, Others, TypeInv, TypeOK, ProcTypes, rowVars, worldVars
<1>2. ~ Carries(p)
    <2>1. At(p, "Ack") /\ proc[p].plan \in PlanNames
        BY AtStatement DEF Ack, TypeInv, TypeOK
    <2>2. StepFact(proc[p].plan, proc[p].step, "Ack")
        BY <2>1, AtStatement DEF TypeInv, TypeOK
    <2>3. ~ Undertakes(p)
        BY <2>1, <2>2 DEF StepFact, Undertakes, At
    <2>. QED
        BY <2>1, <2>3 DEF Carries, HasReadJob, At
<1>. QED
    BY <1>1, <1>2, QuietPasses

LEMMA RedeliverPasses ==
    ASSUME TypeInv, NEW p \in Procs, Redeliver(p) \/ WorkerCrash(p)
    PROVE  Passes(p)
<1>1. proc[p].job \in Jobs /\ JobOf(p) = proc[p].job
    BY AtStatement DEF Redeliver, WorkerCrash, JobOf, TypeInv, TypeOK, ProcTypes
<1>2. /\ queue' = [queue EXCEPT ![proc[p].job] = @ + 1]
      /\ Finish(p) /\ UNCHANGED job
    BY <1>1 DEF Redeliver, WorkerCrash, rowVars
<1>. QED
    BY <1>1, <1>2, RequeuePasses

(* A worker that has just read an unfinished job carries it.               *)
LEMMA ReadJobPasses ==
    ASSUME TypeInv, NEW p \in Workers, ReadJob(p)
    PROVE  Passes(p)
<1> DEFINE st == job[JobOf(p)].status
           n == job[JobOf(p)].retries
           b == JobOf(p) \in aged
           r == [proc[p] EXCEPT !.step = @ + 1, !.seen = st, !.retries = n, !.late = b]
<1>1. At(p, "ReadJob") /\ p \in Procs /\ JobOf(p) = proc[p].job
    BY DEF ReadJob, Procs, JobOf
<1>2. /\ proc[p].plan \in PlanNames \ {"idle"}
      /\ StepFact(proc[p].plan, proc[p].step, "ReadJob")
      /\ proc[p] \in ProcType
    BY <1>1, AtStatement DEF TypeInv, TypeOK
<1>3. proc' = [proc EXCEPT ![p] = r] /\ UNCHANGED <<job, queue>>
    BY DEF ReadJob, rowVars, worldVars
<1>. HIDE DEF n, b
<1>4. r.plan = proc[p].plan /\ r.step = proc[p].step + 1 /\ r.job = proc[p].job /\ r.seen = st
    BY <1>2 DEF ProcType
<1>. HIDE DEF r
<1>5. proc'[p] = r /\ Others(p)
    BY <1>1, <1>3 DEF Others, TypeInv, TypeOK, ProcTypes
<1>6. At(p, "ReadMessage")'
    BY <1>2, <1>4, <1>5 DEF At, StepFact, Ends
<1>7. CASE st \in Unfinished
    <2>1. Carries(p)'
        BY <1>1, <1>3, <1>4, <1>5, <1>6, <1>7 DEF Carries, HasReadJob, Claimable, Unfinished
    <2>. QED
        BY <1>3, <1>4, <1>5, <2>1, CarriedPasses
<1>8. CASE st \notin Unfinished
    <2>1. \A j \in Jobs : queue'[j] >= queue[j]
        BY <1>3 DEF TypeInv, TypeOK, WorldTypes
    <2>. QED
        BY <1>1, <1>3, <1>5, <1>8, <2>1 DEF Passes
<1>. QED
    BY <1>7, <1>8

LEMMA ReadMessagePasses ==
    ASSUME TypeInv, NEW p \in Workers, ReadMessage(p)
    PROVE  Passes(p)
<1> DEFINE m == msg[JobOf(p)]
           d == draft[JobOf(p)]
           r == [proc[p] EXCEPT !.step = @ + 1, !.row = m, !.draft = d]
<1>1. At(p, "ReadMessage") /\ p \in Procs
    BY DEF ReadMessage, Procs
<1>2. /\ proc[p].plan \in PlanNames \ {"idle"} /\ proc[p].step \in Nat
      /\ StepFact(proc[p].plan, proc[p].step, "ReadMessage")
      /\ proc[p] \in ProcType
    BY <1>1, AtStatement DEF TypeInv, TypeOK
<1>3. proc' = [proc EXCEPT ![p] = r] /\ UNCHANGED <<job, queue>>
    BY DEF ReadMessage, rowVars, worldVars
<1>. HIDE DEF m, d
<1>4. /\ r.plan = proc[p].plan /\ r.step = proc[p].step + 1 /\ r.job = proc[p].job
      /\ r.seen = proc[p].seen
    BY <1>2 DEF ProcType
<1>. HIDE DEF r
<1>5. proc'[p] = r /\ Others(p)
    BY <1>1, <1>3 DEF Others, TypeInv, TypeOK, ProcTypes
<1>6. At(p, "ReadEvents")'
    BY <1>2, <1>4, <1>5 DEF At, StepFact, Ends
<1>7. Carries(p) => Carries(p)'
    <2>1. CASE Undertakes(p)
        <3>1. PICK k \in DOMAIN Plan[proc[p].plan] :
                  k >= proc[p].step /\ Plan[proc[p].plan][k] \in Answers
            BY <1>1, <2>1 DEF Undertakes, At
        <3>2. k # proc[p].step /\ k \in Nat
            BY <1>1, <1>2, <3>1, PlanTable DEF At, Answers, PlanFact, StepFact
        <3>3. k >= proc[p].step + 1
            BY <1>2, <3>1, <3>2
        <3>. QED
            BY <1>4, <1>5, <3>1, <3>3 DEF Carries, Undertakes
    <2>2. CASE ~ Undertakes(p)
        BY <1>1, <1>3, <1>4, <1>5, <1>6, <2>2 DEF Carries, HasReadJob, At
    <2>. QED
        BY <2>1, <2>2
<1>. QED
    BY <1>1, <1>3, <1>4, <1>5, <1>7, QuietPasses

(* A job read as `sending` is answered for, and one read as sendable is on *)
(* its way to the claim.                                                   *)
LEMMA ReadEventsPasses ==
    ASSUME TypeInv, NEW p \in Workers, ReadEvents(p)
    PROVE  Passes(p)
<1> DEFINE pl == BranchPlan(p, events[JobOf(p)])
           i == JobOf(p)
           n == proc[p].retries
           r == [IdleProc EXCEPT !.plan = pl, !.job = i, !.retries = n]
<1>1. At(p, "ReadEvents") /\ p \in Procs
    BY DEF ReadEvents, Procs
<1>2. /\ proc[p].plan \in PlanNames \ {"idle"} /\ proc[p].step \in Nat
      /\ StepFact(proc[p].plan, proc[p].step, "ReadEvents")
      /\ i = proc[p].job
    BY <1>1, AtStatement DEF TypeInv, TypeOK
<1>3. proc' = [proc EXCEPT ![p] = r] /\ UNCHANGED <<job, queue>>
    BY DEF ReadEvents, rowVars, worldVars
<1>4. proc[p].seen = "sending" => pl \in AnswerPlans
    BY DEF BranchPlan, AnswerPlans
<1>5. proc[p].seen # "sending" /\ proc[p].seen # "sent" => pl = "send"
    BY DEF BranchPlan
<1>. HIDE DEF pl, i, n
<1>6. r.plan = pl /\ r.step = 1 /\ r.job = i
    BY DEF IdleProc
<1>. HIDE DEF r
<1>7. proc'[p] = r /\ Others(p)
    BY <1>1, <1>3 DEF Others, TypeInv, TypeOK, ProcTypes
<1>8. ~ Undertakes(p)
    BY <1>1, <1>2 DEF StepFact, Undertakes, At
<1>9. Carries(p) => Carries(p)'
    <2>1. HAVE Carries(p)
    <2>2. CASE proc[p].seen = "sending"
        BY <1>1, <1>4, <1>6, <1>7, <2>2, AnswerUndertakes
    <2>3. CASE proc[p].seen # "sending"
        <3>1. /\ job[proc[p].job].status \in Claimable
              /\ proc[p].seen # "sent"
            BY <1>1, <1>8, <2>1, <2>3 DEF Carries, HasReadJob, At
        <3>2. At(p, "Claim")'
            <4>1. 1 \in DOMAIN Plan["send"] /\ Plan["send"][1] = "Claim"
                BY PlanTable DEF PlanFact, PlanNames
            <4>. QED
                BY <1>5, <1>6, <1>7, <2>3, <3>1, <4>1 DEF At
        <3>. QED
            BY <1>2, <1>3, <1>6, <1>7, <3>1, <3>2 DEF Carries
    <2>. QED
        BY <2>2, <2>3
<1>. QED
    BY <1>1, <1>2, <1>3, <1>6, <1>7, <1>9, QuietPasses

(* The claim decides: whoever loses it leaves the job to another.          *)
LEMMA ClaimPasses ==
    ASSUME TypeInv, NEW p \in Workers, Claim(p)
    PROVE  Passes(p)
<1> DEFINE i == JobOf(p)
<1>1. At(p, "Claim") /\ p \in Procs
    BY DEF Claim, Procs
<1>2. /\ proc[p].plan \in PlanNames \ {"idle"} /\ proc[p].step \in Nat
      /\ StepFact(proc[p].plan, proc[p].step, "Claim")
      /\ proc[p] \in ProcType
      /\ i = proc[p].job /\ i \in Jobs
    BY <1>1, AtStatement DEF TypeInv, TypeOK
<1>3. UNCHANGED queue
    BY DEF Claim, worldVars
<1>4. CASE job[i].status \in Claimable
    <2> DEFINE r == [proc[p] EXCEPT !.step = @ + 1, !.owns = TRUE]
    <2>1. /\ proc' = [proc EXCEPT ![p] = r]
          /\ job' = [job EXCEPT ![i].status = "sending", ![i].error = "none"]
        BY <1>1, <1>4 DEF Claim, TypeInv, TypeOK, ProcTypes
    <2>2. r.plan = proc[p].plan /\ r.step = proc[p].step + 1 /\ r.job = proc[p].job
        BY <1>2 DEF ProcType
    <2>. HIDE DEF r
    <2>3. proc'[p] = r /\ Others(p)
        BY <1>1, <2>1 DEF Others, TypeInv, TypeOK, ProcTypes
    <2>4. Carries(p)'
        BY <1>2, <2>2, <2>3 DEF At, StepFact, Ends, Carries, Undertakes
    <2>5. \A j \in Jobs \ {i} : job'[j] = job[j]
        BY <1>2, <2>1 DEF TypeInv, TypeOK, RowTypes
    <2>. QED
        BY <1>2, <1>3, <2>2, <2>3, <2>4, <2>5, CarriedPasses
<1>5. CASE job[i].status \notin Claimable
    <2>1. Follow(p, "ack") /\ UNCHANGED job
        BY <1>5 DEF Claim
    <2>2. ~ Undertakes(p)
        BY <1>1, <1>2 DEF StepFact, Undertakes, At
    <2>3. ~ Carries(p)
        BY <1>1, <1>2, <1>5, <2>2 DEF Carries, HasReadJob, At
    <2>. QED
        BY <1>1, <1>3, <2>1, <2>3, FollowJob, QuietPasses
<1>. QED
    BY <1>4, <1>5

(* The catch block answers for the job in each of its branches.            *)
LEMMA CatchAnswers ==
    ASSUME NEW p, NEW loaded \in {"job", "draft", "recipients"}
    PROVE  CatchPlan(p, loaded) \in AnswerPlans
    BY DEF CatchPlan, AnswerPlans

LEMMA CheckPasses ==
    ASSUME TypeInv, NEW p \in Workers, Check(p)
    PROVE  Passes(p)
<1> DEFINE n == job[JobOf(p)].retries
<1>1. At(p, "Check") /\ p \in Procs
    BY DEF Check, Procs
<1>2. /\ proc[p].plan \in PlanNames \ {"idle"} /\ proc[p].step \in Nat
      /\ StepFact(proc[p].plan, proc[p].step, "Check")
      /\ proc[p] \in ProcType
    BY <1>1, AtStatement DEF TypeInv, TypeOK
<1>3. UNCHANGED <<job, queue>>
    BY DEF Check, rowVars, worldVars
<1>4. \/ proc' = [proc EXCEPT ![p].step = @ + 1, ![p].retries = n]
      \/ \E pl \in AnswerPlans : FollowWith(p, pl, n)
    BY DEF Check, AnswerPlans
<1>5. CASE proc' = [proc EXCEPT ![p].step = @ + 1, ![p].retries = n]
    <2> DEFINE r == [proc[p] EXCEPT !.step = @ + 1, !.retries = n]
    <2>1. proc' = [proc EXCEPT ![p] = r]
        BY <1>5 DEF TypeInv, TypeOK, ProcTypes
    <2>2. r.plan = proc[p].plan /\ r.step = proc[p].step + 1 /\ r.job = proc[p].job
        <3>. HIDE DEF n
        <3>. QED
            BY <1>2 DEF ProcType
    <2>. HIDE DEF r
    <2>3. proc'[p] = r /\ Others(p)
        BY <1>1, <2>1 DEF Others, TypeInv, TypeOK, ProcTypes
    <2>4. Carries(p)'
        BY <1>2, <2>2, <2>3 DEF At, StepFact, Ends, Carries, Undertakes
    <2>. QED
        BY <1>3, <2>2, <2>3, <2>4, CarriedPasses
<1>6. ASSUME NEW pl \in AnswerPlans, FollowWith(p, pl, n)
      PROVE  Passes(p)
    <2> DEFINE r == [proc[p] EXCEPT !.plan = pl, !.step = 1, !.retries = n]
    <2>1. proc' = [proc EXCEPT ![p] = r]
        BY <1>6 DEF FollowWith, TypeInv, TypeOK, ProcTypes
    <2>2. r.plan = pl /\ r.step = 1 /\ r.job = proc[p].job
        <3>. HIDE DEF n
        <3>. QED
            BY <1>2 DEF ProcType
    <2>. HIDE DEF r
    <2>3. proc'[p] = r /\ Others(p)
        BY <1>1, <2>1 DEF Others, TypeInv, TypeOK, ProcTypes
    <2>. QED
        BY <1>1, <1>3, <2>2, <2>3, AnswerUndertakes, CarriedPasses
<1>. QED
    BY <1>4, <1>5, <1>6

LEMMA DeliverLocallyPasses ==
    ASSUME TypeInv, NEW p \in Workers, DeliverLocally(p)
    PROVE  Passes(p)
<1>1. At(p, "DeliverLocally") /\ p \in Procs
    BY DEF DeliverLocally, Procs
<1>2. /\ proc[p].plan \in PlanNames \ {"idle"} /\ proc[p].step \in Nat
      /\ StepFact(proc[p].plan, proc[p].step, "DeliverLocally")
    BY <1>1, AtStatement DEF TypeInv, TypeOK
<1>3. UNCHANGED <<job, queue>>
    BY DEF DeliverLocally, rowVars
<1>4. CASE JobOf(p) \in External
    <2>1. Advance(p)
        BY <1>4 DEF DeliverLocally
    <2> DEFINE r == [proc[p] EXCEPT !.step = @ + 1]
    <2>2. r.plan = proc[p].plan /\ r.step = proc[p].step + 1 /\ r.job = proc[p].job
        BY DEF TypeInv, TypeOK, ProcTypes, ProcType
    <2>3. proc'[p] = r
        BY <1>1, <2>1 DEF Advance, Skip, TypeInv, TypeOK, ProcTypes
    <2>. HIDE DEF r
    <2>4. Carries(p)'
        BY <1>2, <2>2, <2>3 DEF At, StepFact, Ends, Carries, Undertakes
    <2>. QED
        BY <1>1, <1>3, <2>1, <2>4, AdvanceJob, CarriedPasses
<1>5. CASE JobOf(p) \notin External
    BY <1>1, <1>3, <1>5, FollowPasses DEF DeliverLocally, AnswerPlans
<1>. QED
    BY <1>4, <1>5

LEMMA SubmitPasses ==
    ASSUME TypeInv, NEW p \in Workers,
           SubmitAccepted(p) \/ SubmitRefused(p) \/ SubmitAmbiguous(p)
    PROVE  Passes(p)
<1>1. p \in Procs /\ UNCHANGED <<job, queue>>
    BY DEF Procs, SubmitAccepted, SubmitRefused, SubmitAmbiguous, rowVars, worldVars
<1>2. CASE SubmitRefused(p) \/ SubmitAmbiguous(p)
    BY <1>1, <1>2, CatchAnswers, FollowPasses DEF SubmitRefused, SubmitAmbiguous
<1>3. CASE SubmitAccepted(p)
    <2> DEFINE k == accepted[JobOf(p)] + 1
               r == [proc[p] EXCEPT !.plan = "accepted", !.step = 1, !.pid = k]
    <2>1. r.plan = "accepted" /\ r.step = 1 /\ r.job = proc[p].job
        <3>. HIDE DEF k
        <3>. QED
            BY <1>1 DEF TypeInv, TypeOK, ProcTypes, ProcType
    <2>2. proc' = [proc EXCEPT ![p] = r]
        BY <1>1, <1>3 DEF SubmitAccepted, TypeInv, TypeOK, ProcTypes
    <2>. HIDE DEF r
    <2>3. proc'[p] = r /\ Others(p)
        BY <1>1, <2>2 DEF Others, TypeInv, TypeOK, ProcTypes
    <2>4. proc'[p].plan \in AnswerPlans /\ proc'[p].step = 1
        BY <2>1, <2>3 DEF AnswerPlans
    <2>. QED
        BY <1>1, <2>1, <2>3, <2>4, AnswerUndertakes, CarriedPasses
<1>. QED
    BY <1>2, <1>3

(* The catch block writes `retry` just before it hands the copy back.      *)
LEMMA JobRetryPasses ==
    ASSUME TypeInv, NEW p \in Workers, JobRetry(p) \/ JobRetryBlind(p)
    PROVE  Passes(p)
<1>1. PICK op \in {"JobRetry", "JobRetryBlind"} : At(p, op)
    BY DEF JobRetry, JobRetryBlind
<1>2. PICK n : WriteJob(p, "retry", n, "transient")
    BY DEF JobRetry, JobRetryBlind
<1>3. p \in Procs
    BY DEF Procs
<1>4. /\ proc[p].plan \in PlanNames \ {"idle"} /\ proc[p].step \in Nat
      /\ StepFact(proc[p].plan, proc[p].step, op)
      /\ JobOf(p) = proc[p].job /\ proc[p].job \in Jobs
    BY <1>1, <1>3, AtStatement DEF TypeInv, TypeOK
<1>5. /\ Advance(p) /\ UNCHANGED queue
      /\ \A j \in Jobs \ {proc[p].job} : job'[j] = job[j]
    BY <1>2, <1>4 DEF WriteJob, worldVars, TypeInv, TypeOK, RowTypes
<1> DEFINE r == [proc[p] EXCEPT !.step = @ + 1]
<1>6. r.plan = proc[p].plan /\ r.step = proc[p].step + 1 /\ r.job = proc[p].job
    BY <1>3 DEF TypeInv, TypeOK, ProcTypes, ProcType
<1>7. proc'[p] = r
    BY <1>3, <1>5 DEF Advance, Skip, TypeInv, TypeOK, ProcTypes
<1>. HIDE DEF r
<1>8. /\ proc'[p].step \in DOMAIN Plan[proc'[p].plan]
      /\ proc'[p].step >= proc'[p].step
      /\ Plan[proc'[p].plan][proc'[p].step] = "Redeliver"
    BY <1>4, <1>6, <1>7 DEF StepFact, Ends
<1>9. Carries(p)'
    BY <1>8 DEF Carries, Undertakes, Answers
<1>. QED
    BY <1>3, <1>5, <1>9, AdvanceJob, CarriedPasses

(* The search for the debit skips statements of the settlement only.       *)
LEMMA FindDebitPasses ==
    ASSUME TypeInv, NEW p \in Procs, FindDebit(p)
    PROVE  Passes(p)
<1>1. At(p, "FindDebit") /\ UNCHANGED <<job, queue>>
    BY DEF FindDebit, rowVars, worldVars
<1>2. PICK n \in {1, 3, 5} : Skip(p, n)
    BY DEF FindDebit
<1> DEFINE r == [proc[p] EXCEPT !.step = @ + n]
<1>3. r.plan = proc[p].plan /\ r.step = proc[p].step + n /\ r.job = proc[p].job
    BY DEF TypeInv, TypeOK, ProcTypes, ProcType
<1>4. proc'[p] = r /\ Others(p)
    BY <1>2 DEF Skip, Others, TypeInv, TypeOK, ProcTypes
<1>. HIDE DEF r
<1>5. /\ proc[p].plan \in PlanNames \ {"idle"} /\ proc[p].step \in Nat
      /\ StepFact(proc[p].plan, proc[p].step, "FindDebit")
    BY <1>1, AtStatement DEF TypeInv, TypeOK
<1>6. Carries(p) => Carries(p)'
    <2>1. HAVE Carries(p)
    <2>2. PICK k \in DOMAIN Plan[proc[p].plan] :
              k >= proc[p].step /\ Plan[proc[p].plan][k] \in Answers
        BY <1>1, <2>1 DEF Carries, Undertakes, HasReadJob, At
    <2>3. k >= proc[p].step + 5
        BY <1>5, <2>2 DEF StepFact
    <2>4. k \in Nat
        BY <1>5, <2>2, PlanTable DEF PlanFact, StepFact
    <2>5. k >= proc[p].step + n
        BY <1>5, <2>3, <2>4
    <2>. QED
        BY <1>3, <1>4, <2>2, <2>5 DEF Carries, Undertakes
<1>. QED
    BY <1>1, <1>3, <1>4, <1>6, QuietPasses

(* The two statements that touch a handler's sum.                          *)
LEMMA SumPasses ==
    ASSUME TypeInv, NEW p \in Procs, NEW op \in {"ReadLedger", "WriteAvailable"}, At(p, op),
           NEW n, proc' = [proc EXCEPT ![p].step = @ + 1, ![p].sum = n],
           UNCHANGED <<job, queue>>
    PROVE  Passes(p)
<1> DEFINE r == [proc[p] EXCEPT !.step = @ + 1, !.sum = n]
<1>1. r.plan = proc[p].plan /\ r.step = proc[p].step + 1 /\ r.job = proc[p].job
    BY DEF TypeInv, TypeOK, ProcTypes, ProcType
<1>2. proc' = [proc EXCEPT ![p] = r]
    BY DEF TypeInv, TypeOK, ProcTypes
<1>. HIDE DEF r
<1>. QED
    BY <1>1, <1>2, StepPasses DEF Answers

LEMMA SharedPasses ==
    ASSUME TypeInv, NEW p \in Procs, SharedStep(p)
    PROVE  Passes(p)
<1> USE DEF Answers, rowVars, worldVars
<1>1. CASE JobSent(p)
    BY <1>1, FinalPasses DEF JobSent
<1>2. CASE MessageReplied(p)
    BY <1>2, AdvancePasses DEF MessageReplied, WriteMessage
<1>3. CASE MessageFailed(p)
    BY <1>3, AdvancePasses DEF MessageFailed, WriteMessage
<1>4. CASE DraftSent(p)
    BY <1>4, AdvancePasses DEF DraftSent, WriteDraft
<1>5. CASE DraftFailed(p)
    BY <1>5, AdvancePasses DEF DraftFailed, WriteDraft
<1>6. CASE FindDebit(p)
    BY <1>6, FindDebitPasses
<1>7. CASE AppendDebit(p)
    BY <1>7, AdvancePasses DEF AppendDebit
<1>8. CASE Capture(p)
    BY <1>8, AdvancePasses DEF Capture
<1>9. CASE ReadLedger(p)
    BY <1>9, SumPasses DEF ReadLedger
<1>10. CASE WriteAvailable(p)
    BY <1>10, SumPasses DEF WriteAvailable
<1>11. CASE Release(p)
    BY <1>11, AdvancePasses DEF Release
<1>. QED
    BY <1>1, <1>2, <1>3, <1>4, <1>5, <1>6, <1>7, <1>8, <1>9, <1>10, <1>11 DEF SharedStep

LEMMA ReadFailsPasses ==
    ASSUME TypeInv, NEW p \in Procs, ReadFails(p)
    PROVE  Passes(p)
<1>1. PICK pl \in AnswerPlans : Follow(p, pl)
    BY CatchAnswers DEF ReadFails, AnswerPlans
<1>2. UNCHANGED <<job, queue>>
    BY DEF ReadFails, rowVars
<1>. QED
    BY <1>1, <1>2, FollowPasses

LEMMA WorkerWritePasses ==
    ASSUME TypeInv, NEW p \in Procs,
           MessageSent(p) \/ JobFailed(p) \/ JobUncertain(p) \/ JobExhausted(p)
    PROVE  Passes(p)
<1>1. CASE MessageSent(p)
    BY <1>1, AdvancePasses DEF MessageSent, WriteMessage, Answers, worldVars
<1>2. CASE JobFailed(p)
    BY <1>2, FinalPasses DEF JobFailed
<1>3. CASE JobUncertain(p)
    BY <1>3, FinalPasses DEF JobUncertain
<1>4. CASE JobExhausted(p)
    BY <1>4, FinalPasses DEF JobExhausted
<1>. QED
    BY <1>1, <1>2, <1>3, <1>4

LEMMA WorkerPasses ==
    ASSUME Attended, TypeInv, NEW w \in Workers, WorkerStep(w) \/ WorkerFault(w)
    PROVE  Passes(w) \/ \E j \in Jobs : Receive(w, j)
<1>1. w \in Procs
    BY DEF Procs
<1>2. ~ WorkerWriteFails(w)
    BY DEF Attended, WorkerWriteFails, Counted
<1>3. CASE Ack(w) \/ Redeliver(w) \/ WorkerCrash(w)
    BY <1>1, <1>3, AckPasses, RedeliverPasses
<1>4. CASE ReadJob(w) \/ ReadMessage(w) \/ ReadEvents(w) \/ ReadFails(w)
    BY <1>1, <1>4, ReadJobPasses, ReadMessagePasses, ReadEventsPasses, ReadFailsPasses
<1>5. CASE Claim(w) \/ Check(w) \/ DeliverLocally(w)
    BY <1>5, ClaimPasses, CheckPasses, DeliverLocallyPasses
<1>6. CASE SubmitAccepted(w) \/ SubmitRefused(w) \/ SubmitAmbiguous(w)
    BY <1>6, SubmitPasses
<1>7. CASE MessageSent(w) \/ JobFailed(w) \/ JobUncertain(w) \/ JobExhausted(w)
    BY <1>1, <1>7, WorkerWritePasses
<1>8. CASE JobRetry(w) \/ JobRetryBlind(w) \/ SharedStep(w)
    BY <1>1, <1>8, JobRetryPasses, SharedPasses
<1>9. CASE \E j \in Jobs : Receive(w, j)
    BY <1>9
<1>. QED
    BY <1>2, <1>3, <1>4, <1>5, <1>6, <1>7, <1>8, <1>9 DEF WorkerStep, WorkerFault

LEMMA HookPasses ==
    ASSUME Attended, TypeInv, NEW h \in Hooks, HookNext(h)
    PROVE  Passes(h)
<1>1. h \in Procs /\ h \notin Workers
    BY ConstantsAssumption DEF Procs
<1>2. CASE SharedStep(h)
    BY <1>1, <1>2, SharedPasses
<1>3. CASE JobBounced(h)
    BY <1>1, <1>3, FinalPasses DEF JobBounced
<1>4. CASE \E j \in Jobs, e \in TerminalEvents : \E k \in 1..accepted[j] : Notify(h, j, k, e)
    <2>1. Others(h) /\ UNCHANGED <<job, queue>>
        BY <1>1, <1>4 DEF Notify, Others, rowVars, worldVars, TypeInv, TypeOK, ProcTypes
    <2>. QED
        BY <1>1, <2>1, QuietPasses
<1>5. CASE StoreEvent(h) \/ Backfill(h) \/ Suppress(h)
    <2>1. Advance(h) /\ UNCHANGED <<job, queue>>
        BY <1>5 DEF StoreEvent, Backfill, Suppress, rowVars, worldVars
    <2>. QED
        BY <1>1, <2>1, AdvanceJob, QuietPasses
<1>6. CASE ReadJobForEvent(h) \/ ReadOutcome(h)
    <2>1. UNCHANGED <<job, queue>>
        BY <1>6 DEF ReadJobForEvent, ReadOutcome, rowVars, worldVars
    <2>2. Others(h)
        BY <1>1, <1>6 DEF ReadJobForEvent, ReadOutcome, Others, TypeInv, TypeOK, ProcTypes
    <2>. QED
        BY <1>1, <2>1, <2>2, QuietPasses
<1>7. CASE Respond(h) \/ HookFault(h)
    <2>1. ~ HookWriteFails(h)
        BY DEF Attended, HookWriteFails, Counted
    <2>2. Finish(h) /\ UNCHANGED <<job, queue>>
        BY <1>7, <2>1 DEF Respond, HookFault, HookCrash, rowVars, worldVars
    <2>3. Others(h)
        BY <1>1, <2>2 DEF Finish, Others, TypeInv, TypeOK, ProcTypes
    <2>. QED
        BY <1>1, <2>2, <2>3, QuietPasses
<1>. QED
    BY <1>2, <1>3, <1>4, <1>5, <1>6, <1>7 DEF HookNext, HookStep

(* The queue's copy becomes the worker's.                                  *)
LEMMA ReceiveCarried ==
    ASSUME TypeInv, TypeInv', CarryInv, NEW p \in Workers, NEW i \in Jobs, Receive(p, i)
    PROVE  CarryInv'
<1> DEFINE r == [IdleProc EXCEPT !.plan = "deliver", !.job = i]
<1>1. r.plan = "deliver" /\ r.step = 1 /\ r.job = i
    BY DEF IdleProc
<1>2. p \in Procs /\ proc' = [proc EXCEPT ![p] = r] /\ UNCHANGED job
    BY DEF Receive, Procs, rowVars
<1>. HIDE DEF r
<1>3. proc'[p] = r /\ Others(p)
    BY <1>2 DEF Others, TypeInv, TypeOK, ProcTypes
<1>4. Carries(p)'
    <2>1. 1 \in DOMAIN Plan["deliver"] /\ Plan["deliver"][1] = "ReadJob"
        BY PlanTable DEF PlanFact, PlanNames
    <2>. QED
        BY <1>1, <1>3, <2>1 DEF Carries, At
<1>5. ~ Carries(p)
    <2>1. proc[p].plan = "idle"
        BY DEF Receive
    <2>2. DOMAIN Plan["idle"] = {}
        BY PlanTable DEF PlanFact, StepFact, PlanNames
    <2>. QED
        BY <2>1, <2>2 DEF Carries, Undertakes, HasReadJob, At
<1>6. ASSUME NEW j \in Jobs \ {i}, Held(j)
      PROVE  Held(j)'
    <2>1. queue'[j] = queue[j]
        BY DEF Receive, TypeInv, TypeOK, WorldTypes
    <2>2. ASSUME NEW w \in Workers, proc[w].job = j, Carries(w)
          PROVE  proc'[w].job = j /\ Carries(w)'
        <3>1. w \in Procs \ {p}
            BY <1>5, <2>2 DEF Procs
        <3>. QED
            BY <1>2, <1>3, <2>2, <3>1, OthersCarry DEF Others
    <2>. QED
        BY <1>6, <2>1, <2>2 DEF Held
<1>7. Held(i)'
    BY <1>1, <1>3, <1>4 DEF Held
<1>. QED
    BY <1>2, <1>6, <1>7 DEF CarryInv

(* Nobody's steps: an enqueued job comes with its copy, and a job that     *)
(* ages or whose copy is repeated keeps what it has.                       *)
LEMMA NobodyCarried ==
    ASSUME TypeInv, TypeInv', CarryInv, NEW i \in Jobs,
           EnqueueDraftSend(i) \/ Duplicate(i) \/ Age(i)
    PROVE  CarryInv'
<1>1. UNCHANGED proc
    BY DEF EnqueueDraftSend, Duplicate, Age
<1>2. queue'[i] > 0 \/ (UNCHANGED <<job, queue>>)
    BY DEF EnqueueDraftSend, Duplicate, Age, TypeInv, TypeOK, WorldTypes, rowVars, worldVars
<1>3. \A j \in Jobs \ {i} : job'[j] = job[j] /\ queue'[j] = queue[j]
    BY DEF EnqueueDraftSend, Duplicate, Age, TypeInv, TypeOK, WorldTypes, RowTypes, rowVars,
           worldVars
<1>4. ASSUME NEW j \in Jobs, job'[j].status \in Unfinished
      PROVE  Held(j)'
    <2>1. CASE j = i /\ queue'[i] > 0
        BY <2>1 DEF Held
    <2>2. CASE ~ (j = i /\ queue'[i] > 0)
        <3>1. job'[j] = job[j] /\ queue'[j] = queue[j]
            BY <1>2, <1>3, <2>2
        <3>2. Held(j)
            BY <1>4, <3>1 DEF CarryInv
        <3>3. ASSUME NEW w \in Workers, proc[w].job = j, Carries(w)
              PROVE  proc'[w].job = j /\ Carries(w)'
            BY <1>1, <3>1, <3>3 DEF Carries, Undertakes, HasReadJob, At
        <3>. QED
            BY <3>1, <3>2, <3>3 DEF Held
    <2>. QED
        BY <2>1, <2>2
<1>. QED
    BY <1>4 DEF CarryInv

LEMMA InitCarry == Init => CarryInv
    BY DEF Init, CarryInv, Unfinished

LEMMA NextCarry ==
    ASSUME Attended, TypeInv, TypeInv', CarryInv, [Next]_vars
    PROVE  CarryInv'
<1>1. CASE UNCHANGED vars
    <2>1. UNCHANGED <<job, queue, proc>>
        BY <1>1 DEF vars, rowVars, worldVars
    <2>. QED
        BY <2>1 DEF CarryInv, Held, Carries, Undertakes, HasReadJob, At
<1>2. CASE \E j \in Jobs : EnqueueDraftSend(j) \/ Duplicate(j) \/ Age(j)
    BY <1>2, NobodyCarried
<1>3. ASSUME NEW w \in Workers, WorkerStep(w) \/ WorkerFault(w)
      PROVE  CarryInv'
    BY <1>3, WorkerPasses, ReceiveCarried, PassesCarried DEF Procs
<1>4. ASSUME NEW h \in Hooks, HookNext(h)
      PROVE  CarryInv'
    BY <1>4, HookPasses, PassesCarried DEF Procs
<1>. QED
    BY <1>1, <1>2, <1>3, <1>4 DEF Next, Attended

(* A job is never forgotten: while it is queued, waits for a retry or is   *)
(* being sent, the queue has a copy of its message or an invocation has    *)
(* one that it will not acknowledge before it has answered for the job,    *)
(* whichever invocations crash, reads throw or responses get lost.         *)
THEOREM NoJobForgotten == ASSUME Attended PROVE Spec => []NotStranded
<1>1. Init => TypeInv /\ CarryInv
    BY InitTypes, InitCarry
<1>2. TypeInv /\ CarryInv /\ [Next]_vars => (TypeInv /\ CarryInv)'
    BY NextTypes, NextCarry
<1>3. TypeInv /\ CarryInv => NotStranded
    BY DEF CarryInv, Held, NotStranded, Quiet, Procs, TypeInv, TypeOK, WorldTypes
<1>. QED
    BY <1>1, <1>2, <1>3, PTL DEF Spec

-----------------------------------------------------------------------------
(* Where a handler goes.                                                   *)

Goes(w, pl, n) ==
    /\ Others(w) /\ proc'[w].job = proc[w].job
    /\ proc'[w].plan = pl /\ proc'[w].step = n

LEMMA AdvanceGoes ==
    ASSUME TypeInv, NEW w \in Procs, Advance(w)
    PROVE  Goes(w, proc[w].plan, proc[w].step + 1)
    BY DEF Goes, Others, Advance, Skip, TypeInv, TypeOK, ProcTypes, ProcType

LEMMA SkipGoes ==
    ASSUME TypeInv, NEW w \in Procs, NEW n, Skip(w, n)
    PROVE  Goes(w, proc[w].plan, proc[w].step + n)
    BY DEF Goes, Others, Skip, TypeInv, TypeOK, ProcTypes, ProcType

LEMMA FollowGoes ==
    ASSUME TypeInv, NEW w \in Procs, NEW pl, Follow(w, pl)
    PROVE  Goes(w, pl, 1)
    BY DEF Goes, Others, Follow, TypeInv, TypeOK, ProcTypes, ProcType

LEMMA FollowWithGoes ==
    ASSUME TypeInv, NEW w \in Procs, NEW pl, NEW n, FollowWith(w, pl, n)
    PROVE  Goes(w, pl, 1)
    BY DEF Goes, Others, FollowWith, TypeInv, TypeOK, ProcTypes, ProcType

LEMMA FinishGoes ==
    ASSUME TypeInv, NEW w \in Procs, Finish(w)
    PROVE  Others(w) /\ proc'[w] = IdleProc
    BY DEF Others, Finish, TypeInv, TypeOK, ProcTypes

-----------------------------------------------------------------------------
(* A delivery prevails.                                                    *)

(* No operator acts, and webhook requests come one at a time.              *)
OneRequest == Operators = {} /\ \A g, h \in Hooks : g = h

HookPlans == {"idle", "hook", "hookDelivered", "hookBounced", "hookBouncedFailed"}
Bounces == {"hookBounced", "hookBouncedFailed"}

(* One copy of the job's message, or one invocation that has it; after the *)
(* submission the invocation that made it, which only records it.          *)
OneHolder(j) ==
    /\ queue[j] \in {0, 1} /\ (queue[j] = 1 => \A w \in Workers : proc[w].job # j)
    /\ \A v, w \in Workers : proc[v].job = j /\ proc[w].job = j => v = w
    /\ draft[j] = "draft" =>
         queue[j] = 0 /\ accepted[j] = 0 /\ \A w \in Workers : proc[w].job # j
    /\ accepted[j] > 0 =>
         queue[j] = 0 /\ \A w \in Workers : proc[w].job = j => proc[w].plan = "accepted"

(* A webhook request is still to write, as its n-th statement, what a      *)
(* delivery means.                                                         *)
StillTo(n, j) ==
    \E h \in Hooks : /\ proc[h].job = j
                     /\ proc[h].plan = "hook" \/ (proc[h].plan = "hookDelivered" /\ proc[h].step <= n)
Prevails(j) ==
    "delivery" \in events[j] =>
      /\ accepted[j] > 0
      /\ msg[j].status = "replied" \/ StillTo(6, j)
      /\ job[j].status = "sent" \/ StillTo(7, j)
Informed(h) ==
    /\ proc[h].plan \in HookPlans
    /\ proc[h].plan # "idle" => accepted[proc[h].job] > 0
    /\ proc[h].plan \in Bounces => "delivery" \notin events[proc[h].job]

PrevailInv ==
    faults = 0 =>
      /\ \A j \in Jobs : OneHolder(j) /\ Prevails(j)
      /\ \A h \in Hooks : Informed(h)
-----------------------------------------------------------------------------
(* Which statements the plans of a webhook request have, and where.        *)

HookFact(pl, i, op) ==
    /\ pl = "hookDelivered" =>
         /\ i = 6 <=> op = "MessageReplied"
         /\ i = 7 <=> op = "JobSent"
         /\ op = "FindDebit" => i = 1
    /\ op \in {"MessageFailed", "DraftFailed", "JobBounced", "Release"} => pl \in Bounces
    /\ op = "ReadOutcome" => pl = "hook"
    /\ op = "Respond" => pl # "hook" /\ (pl = "hookDelivered" => i > 7)
    /\ pl = "hook" => op \notin Ends \ {"ReadOutcome"} /\ op # "FindDebit"

LEMMA HookPlaces ==
    \A pl \in HookPlans : \A i \in DOMAIN Plan[pl] : HookFact(pl, i, Plan[pl][i])
<1>. DEFINE F(pl) == \A i \in DOMAIN Plan[pl] : HookFact(pl, i, Plan[pl][i])
<1>. USE DEF HookFact, Bounces, Plan, PlanNames, Ends
<1>1. F("idle") /\ F("hook")
    OBVIOUS
<1>2. F("hookDelivered")
    OBVIOUS
<1>3. F("hookBounced")
    OBVIOUS
<1>4. F("hookBouncedFailed")
    OBVIOUS
<1>. HIDE DEF F, HookFact, Plan
<1>5. \A pl \in HookPlans : F(pl)
    BY <1>1, <1>2, <1>3, <1>4 DEF HookPlans
<1>. QED
    BY <1>5 DEF F

LEMMA AcceptedPlaces ==
    \A i \in DOMAIN Plan["accepted"] :
      Plan["accepted"][i] \in {"JobSent", "MessageSent", "DraftSent", "FindDebit", "AppendDebit",
                               "Capture", "ReadLedger", "WriteAvailable", "Ack"}
BY DEF Plan, PlanNames

-----------------------------------------------------------------------------
(* A step of a handler on its job.                                         *)

OnItsJob(p) ==
    /\ Others(p) /\ proc'[p].job = proc[p].job
    /\ UNCHANGED <<queue, accepted>>
    /\ \A j \in Jobs : draft'[j] = "draft" => draft[j] = "draft"
    /\ \A j \in Jobs \ {proc[p].job} : job'[j] = job[j] /\ msg'[j] = msg[j]

(* A step of an invocation: after the submission it only records it.       *)
Records(w) ==
    /\ OnItsJob(w) /\ events' = events
    /\ proc[w].plan = "accepted" =>
         LET j == proc[w].job IN
         /\ proc'[w].plan = "accepted"
         /\ job'[j].status \in {job[j].status, "sent"}
         /\ msg'[j].status \in {msg[j].status, "replied"}

LEMMA HooksApart ==
    ASSUME NEW w \in Workers, Others(w)
    PROVE  \A h \in Hooks : proc'[h] = proc[h]
BY ConstantsAssumption DEF Others, Procs

LEMMA RecordsPrevail ==
    ASSUME TypeInv, faults = 0, PrevailInv, NEW w \in Workers, proc[w].job \in Jobs,
           proc[w].plan # "idle", Records(w)
    PROVE  PrevailInv'
<1>. DEFINE i == proc[w].job
<1>1. /\ \A j \in Jobs : OneHolder(j) /\ Prevails(j)
      /\ \A h \in Hooks : Informed(h) /\ proc'[h] = proc[h]
      /\ \A v \in Workers : proc'[v].job = proc[v].job
      /\ \A v \in Workers \ {w} : proc'[v] = proc[v]
      /\ w \in Procs
    BY HooksApart DEF PrevailInv, Records, OnItsJob, Others, Procs
<1>2. ASSUME NEW j \in Jobs
      PROVE  OneHolder(j)'
    BY <1>1 DEF OneHolder, Records, OnItsJob
<1>3. ASSUME NEW n, NEW j
      PROVE  StillTo(n, j)' = StillTo(n, j)
    BY <1>1 DEF StillTo
<1>4. ASSUME NEW j \in Jobs
      PROVE  Prevails(j)'
    <2>1. CASE j # i
        BY <1>1, <1>3, <2>1 DEF Prevails, Records, OnItsJob
    <2>2. CASE j = i /\ "delivery" \in events[j]
        <3>1. accepted[j] > 0 /\ proc[w].plan = "accepted"
            BY <1>1, <2>2 DEF Prevails, OneHolder
        <3>. QED
            BY <1>1, <1>3, <2>2, <3>1 DEF Prevails, Records, OnItsJob
    <2>. QED
        BY <2>1, <2>2 DEF Prevails, Records
<1>5. ASSUME NEW h \in Hooks
      PROVE  Informed(h)'
    BY <1>1 DEF Informed, Records, OnItsJob
<1>. QED
    BY <1>2, <1>4, <1>5 DEF PrevailInv

(* A step of a webhook request that is the only one.                       *)
LEMMA ReportPrevails ==
    ASSUME OneRequest, TypeInv, faults = 0, PrevailInv, NEW h \in Hooks, proc[h].job \in Jobs,
           OnItsJob(h), Informed(h)', Prevails(proc[h].job)',
           \A j \in Jobs \ {proc[h].job} : events'[j] = events[j]
    PROVE  PrevailInv'
<1>1. /\ \A j \in Jobs : OneHolder(j) /\ Prevails(j)
      /\ \A g \in Hooks : g = h
      /\ \A w \in Workers : proc'[w] = proc[w]
    BY ConstantsAssumption DEF PrevailInv, OneRequest, OnItsJob, Others, Procs
<1>2. ASSUME NEW j \in Jobs
      PROVE  OneHolder(j)'
    BY <1>1 DEF OneHolder, OnItsJob
<1>3. ASSUME NEW j \in Jobs, j # proc[h].job
      PROVE  Prevails(j)'
    <2>1. ~StillTo(6, j) /\ ~StillTo(7, j)
        BY <1>1, <1>3 DEF StillTo
    <2>. QED
        BY <1>1, <1>3, <2>1 DEF Prevails, OnItsJob
<1>4. ASSUME NEW g \in Hooks
      PROVE  Informed(g)'
    BY <1>1
<1>5. ASSUME NEW j \in Jobs
      PROVE  Prevails(j)'
    <2>1. CASE j = proc[h].job
        BY <2>1 DEF OnItsJob
    <2>. QED
        BY <1>3, <2>1
<1>. QED
    BY <1>2, <1>4, <1>5 DEF PrevailInv
-----------------------------------------------------------------------------
(* What the single statements write.                                       *)

LEMMA NothingWritten ==
    ASSUME NEW p \in Procs, NEW pl, NEW n, Goes(p, pl, n), UNCHANGED <<rowVars, queue, accepted>>
    PROVE  OnItsJob(p)
BY DEF OnItsJob, Goes, rowVars

LEMMA JobWritten ==
    ASSUME TypeInv, NEW p \in Procs, NEW op, At(p, op), NEW st, NEW n, NEW e, WriteJob(p, st, n, e)
    PROVE  /\ OnItsJob(p) /\ Goes(p, proc[p].plan, proc[p].step + 1)
           /\ job'[proc[p].job].status = st /\ UNCHANGED <<msg, events>>
<1>1. proc[p].job \in Jobs /\ JobOf(p) = proc[p].job
    BY AtStatement DEF TypeInv, TypeOK
<1>2. Goes(p, proc[p].plan, proc[p].step + 1)
    BY AdvanceGoes DEF WriteJob
<1>. QED
    BY <1>1, <1>2 DEF OnItsJob, Goes, WriteJob, worldVars, TypeInv, TypeOK, RowTypes

LEMMA MessageWritten ==
    ASSUME TypeInv, NEW p \in Procs, NEW op, At(p, op), NEW st, NEW id, WriteMessage(p, st, id)
    PROVE  /\ OnItsJob(p) /\ Goes(p, proc[p].plan, proc[p].step + 1)
           /\ msg'[proc[p].job].status = st /\ UNCHANGED <<job, events>>
<1>1. proc[p].job \in Jobs /\ JobOf(p) = proc[p].job
    BY AtStatement DEF TypeInv, TypeOK
<1>2. Goes(p, proc[p].plan, proc[p].step + 1)
    BY AdvanceGoes DEF WriteMessage
<1>. QED
    BY <1>1, <1>2 DEF OnItsJob, Goes, WriteMessage, worldVars, TypeInv, TypeOK, RowTypes

LEMMA DraftWritten ==
    ASSUME TypeInv, NEW p \in Procs, NEW op, At(p, op), NEW st, st # "draft", WriteDraft(p, st)
    PROVE  /\ OnItsJob(p) /\ Goes(p, proc[p].plan, proc[p].step + 1) /\ UNCHANGED <<job, msg, events>>
<1>1. proc[p].job \in Jobs /\ JobOf(p) = proc[p].job
    BY AtStatement DEF TypeInv, TypeOK
<1>2. Goes(p, proc[p].plan, proc[p].step + 1)
    BY AdvanceGoes DEF WriteDraft
<1>. QED
    BY <1>1, <1>2 DEF OnItsJob, Goes, WriteDraft, worldVars, TypeInv, TypeOK, RowTypes

Unwritten == {"DraftSent", "DraftFailed", "AppendDebit", "Capture", "ReadLedger", "WriteAvailable",
              "Release"}
Effect(p) ==
    LET j == proc[p].job
        next == proc'[p].step = proc[p].step + 1
    IN
    \/ At(p, "JobSent") /\ job'[j].status = "sent" /\ msg' = msg /\ next
    \/ At(p, "MessageReplied") /\ msg'[j].status = "replied" /\ job' = job /\ next
    \/ At(p, "MessageFailed") /\ next
    \/ /\ At(p, "FindDebit") /\ UNCHANGED <<job, msg>>
       /\ proc'[p].step \in {proc[p].step + 1, proc[p].step + 3, proc[p].step + 5}
    \/ (\E op \in Unwritten : At(p, op)) /\ UNCHANGED <<job, msg>> /\ next

LEMMA SharedWrites ==
    ASSUME TypeInv, NEW p \in Procs, SharedStep(p)
    PROVE  OnItsJob(p) /\ Effect(p) /\ proc'[p].plan = proc[p].plan /\ events' = events
<1>1. CASE JobSent(p)
    BY <1>1, JobWritten DEF JobSent, Effect, Goes
<1>2. CASE MessageReplied(p)
    BY <1>2, MessageWritten DEF MessageReplied, Effect, Goes
<1>3. CASE MessageFailed(p)
    BY <1>3, MessageWritten DEF MessageFailed, Effect, Goes
<1>4. CASE DraftSent(p)
    BY <1>4, DraftWritten DEF DraftSent, Effect, Goes, Unwritten
<1>5. CASE DraftFailed(p)
    BY <1>5, DraftWritten DEF DraftFailed, Effect, Goes, Unwritten
<1>6. CASE FindDebit(p)
    <2>1. PICK n \in {1, 3, 5} : Skip(p, n)
        BY <1>6 DEF FindDebit
    <2>2. Goes(p, proc[p].plan, proc[p].step + n)
        BY <2>1, SkipGoes
    <2>. QED
        BY <1>6, <2>2, NothingWritten DEF FindDebit, Effect, Goes, rowVars, worldVars
<1>7. CASE AppendDebit(p) \/ Capture(p) \/ Release(p)
    <2>1. Goes(p, proc[p].plan, proc[p].step + 1)
        BY <1>7, AdvanceGoes DEF AppendDebit, Capture, Release
    <2>. QED
        BY <1>7, <2>1, NothingWritten
           DEF AppendDebit, Capture, Release, Effect, Goes, Unwritten, rowVars, worldVars
<1>8. CASE ReadLedger(p) \/ WriteAvailable(p)
    <2>1. Goes(p, proc[p].plan, proc[p].step + 1)
        BY <1>8 DEF ReadLedger, WriteAvailable, Goes, Others, TypeInv, TypeOK, ProcTypes, ProcType
    <2>. QED
        BY <1>8, <2>1, NothingWritten
           DEF ReadLedger, WriteAvailable, Effect, Goes, Unwritten, rowVars, worldVars
<1>. QED
    BY <1>1, <1>2, <1>3, <1>4, <1>5, <1>6, <1>7, <1>8 DEF SharedStep

-----------------------------------------------------------------------------
(* The steps of an invocation.                                             *)

AcceptedOps == {"JobSent", "MessageSent", "DraftSent", "FindDebit", "AppendDebit",
                "Capture", "ReadLedger", "WriteAvailable", "Ack"}

LEMMA NotRecording ==
    ASSUME TypeInv, NEW p \in Procs, NEW op, op \notin AcceptedOps, At(p, op)
    PROVE  proc[p].plan # "accepted"
BY AcceptedPlaces DEF At, AcceptedOps

LEMMA WorkerRecords ==
    ASSUME TypeInv, NEW w \in Workers,
           \/ ReadJob(w) \/ ReadMessage(w) \/ ReadEvents(w) \/ Claim(w) \/ Check(w)
           \/ DeliverLocally(w) \/ SubmitRefused(w) \/ MessageSent(w) \/ JobFailed(w)
           \/ JobUncertain(w) \/ JobRetryBlind(w) \/ JobRetry(w) \/ JobExhausted(w)
           \/ SharedStep(w)
    PROVE  Records(w)
<1>0. w \in Procs /\ proc \in [Procs -> ProcType]
    BY DEF Procs, TypeInv, TypeOK, ProcTypes
<1>1. CASE ReadJob(w) \/ ReadMessage(w)
    <2>1. Goes(w, proc[w].plan, proc[w].step + 1)
        BY <1>0, <1>1 DEF ReadJob, ReadMessage, Goes, Others, ProcType
    <2>2. proc[w].plan # "accepted"
        BY <1>0, <1>1, NotRecording DEF ReadJob, ReadMessage, AcceptedOps
    <2>. QED
        BY <1>0, <1>1, <2>1, <2>2, NothingWritten
           DEF ReadJob, ReadMessage, Records, rowVars, worldVars
<1>2. CASE ReadEvents(w)
    <2>1. JobOf(w) = proc[w].job
        BY DEF JobOf
    <2>2. Goes(w, BranchPlan(w, events[JobOf(w)]), 1)
        BY <1>0, <1>2, <2>1 DEF ReadEvents, Goes, Others, IdleProc
    <2>3. proc[w].plan # "accepted"
        BY <1>0, <1>2, NotRecording DEF ReadEvents, AcceptedOps
    <2>. QED
        BY <1>0, <1>2, <2>2, <2>3, NothingWritten DEF ReadEvents, Records, rowVars, worldVars
<1>3. CASE Claim(w)
    <2>1. proc[w].job \in Jobs /\ JobOf(w) = proc[w].job /\ proc[w].plan # "accepted"
        BY <1>0, <1>3, AtStatement, NotRecording DEF Claim, AcceptedOps, TypeInv, TypeOK
    <2>2. \E pl, n : Goes(w, pl, n)
        <3>1. CASE job[JobOf(w)].status \in Claimable
            <4>1. Goes(w, proc[w].plan, proc[w].step + 1)
                BY <1>0, <1>3, <3>1 DEF Claim, Goes, Others, ProcType
            <4>. QED
                BY <4>1
        <3>2. CASE job[JobOf(w)].status \notin Claimable
            BY <1>0, <1>3, <3>2, FollowGoes DEF Claim
        <3>. QED
            BY <3>1, <3>2
    <2>3. /\ UNCHANGED <<msg, draft, queue, accepted, events>>
          /\ \A j \in Jobs \ {proc[w].job} : job'[j] = job[j]
        BY <1>3, <2>1 DEF Claim, worldVars, TypeInv, TypeOK, RowTypes
    <2>. QED
        BY <2>1, <2>2, <2>3 DEF Records, OnItsJob, Goes
<1>4. CASE Check(w)
    <2>1. proc[w].plan # "accepted"
        BY <1>0, <1>4, NotRecording DEF Check, AcceptedOps
    <2>2. \E pl, n : Goes(w, pl, n)
        <3>1. CASE proc' = [proc EXCEPT ![w].step = @ + 1, ![w].retries = job[JobOf(w)].retries]
            <4>1. Goes(w, proc[w].plan, proc[w].step + 1)
                BY <1>0, <3>1 DEF Goes, Others, ProcType
            <4>. QED
                BY <4>1
        <3>2. ASSUME NEW pl, FollowWith(w, pl, job[JobOf(w)].retries)
              PROVE  \E x, n : Goes(w, x, n)
            BY <1>0, <3>2, FollowWithGoes
        <3>. QED
            BY <1>4, <3>1, <3>2 DEF Check
    <2>. QED
        BY <1>0, <1>4, <2>1, <2>2, NothingWritten DEF Check, Records, rowVars, worldVars
<1>5. CASE DeliverLocally(w) \/ SubmitRefused(w)
    <2>1. proc[w].plan # "accepted"
        BY <1>0, <1>5, NotRecording DEF DeliverLocally, SubmitRefused, AcceptedOps
    <2>2. \E pl, n : Goes(w, pl, n)
        BY <1>0, <1>5, AdvanceGoes, FollowGoes DEF DeliverLocally, SubmitRefused
    <2>. QED
        BY <1>0, <1>5, <2>1, <2>2, NothingWritten
           DEF DeliverLocally, SubmitRefused, Records, rowVars, worldVars
<1>6. CASE MessageSent(w)
    BY <1>0, <1>6, MessageWritten DEF MessageSent, Records, Goes
<1>7. CASE JobFailed(w) \/ JobUncertain(w) \/ JobRetryBlind(w) \/ JobRetry(w) \/ JobExhausted(w)
    <2>1. proc[w].plan # "accepted"
        BY <1>0, <1>7, NotRecording
           DEF JobFailed, JobUncertain, JobRetryBlind, JobRetry, JobExhausted, AcceptedOps
    <2>. QED
        BY <1>0, <1>7, <2>1, JobWritten
           DEF JobFailed, JobUncertain, JobRetryBlind, JobRetry, JobExhausted, Records
<1>8. CASE SharedStep(w)
    <2>1. OnItsJob(w) /\ Effect(w) /\ proc'[w].plan = proc[w].plan /\ events' = events
        BY <1>0, <1>8, SharedWrites
    <2>2. proc[w].plan = "accepted" => ~At(w, "MessageFailed")
        BY <1>0, NotRecording DEF AcceptedOps
    <2>. QED
        BY <2>1, <2>2 DEF Records, Effect
<1>. QED
    BY <1>1, <1>2, <1>3, <1>4, <1>5, <1>6, <1>7, <1>8
(* The invocation takes a copy, submits the email, or is done.             *)
LEMMA InvocationPrevails ==
    ASSUME TypeInv, faults = 0, PrevailInv, NEW w \in Workers, Others(w),
           UNCHANGED <<job, msg, draft, events>>,
           \A j \in Jobs : (accepted[j] > 0 => accepted'[j] > 0) /\ OneHolder(j)'
    PROVE  PrevailInv'
<1>1. /\ \A j \in Jobs : Prevails(j)
      /\ \A h \in Hooks : Informed(h) /\ proc'[h] = proc[h] /\ h \in Procs
    BY HooksApart DEF PrevailInv, Procs
<1>2. ASSUME NEW n, NEW j
      PROVE  StillTo(n, j)' = StillTo(n, j)
    BY <1>1 DEF StillTo
<1>. QED
    BY <1>1, <1>2 DEF PrevailInv, Prevails, Informed, TypeInv, TypeOK, ProcTypes

LEMMA ReceivePrevails ==
    ASSUME TypeInv, faults = 0, PrevailInv, NEW w \in Workers, NEW i \in Jobs, Receive(w, i)
    PROVE  PrevailInv'
<1>1. /\ w \in Procs /\ proc \in [Procs -> ProcType] /\ i # NoJob
      /\ queue \in [Jobs -> Nat] /\ accepted \in [Jobs -> Nat]
    BY ConstantsAssumption DEF Procs, TypeInv, TypeOK, ProcTypes, WorldTypes
<1>2. Others(w) /\ proc'[w].job = i /\ \A v \in Workers \ {w} : proc'[v] = proc[v]
    BY <1>1 DEF Receive, Others, Procs, IdleProc
<1>3. queue[i] = 1 /\ queue'[i] = 0 /\ \A j \in Jobs \ {i} : queue'[j] = queue[j]
    BY <1>1 DEF Receive, PrevailInv, OneHolder
<1>4. UNCHANGED <<job, msg, draft, events, accepted>>
    BY DEF Receive, rowVars
<1>5. ASSUME NEW j \in Jobs
      PROVE  OneHolder(j)'
    <2>1. OneHolder(j)
        BY DEF PrevailInv
    <2>. QED
        BY <1>2, <1>3, <1>4, <2>1 DEF OneHolder
<1>. QED
    BY <1>1, <1>2, <1>4, <1>5, InvocationPrevails

LEMMA DonePrevails ==
    ASSUME TypeInv, faults = 0, PrevailInv, NEW w \in Workers, Ack(w) \/ Redeliver(w)
    PROVE  PrevailInv'
<1>. DEFINE i == proc[w].job
<1>1. /\ w \in Procs /\ i \in Jobs /\ JobOf(w) = i /\ i # NoJob
      /\ queue \in [Jobs -> Nat] /\ accepted \in [Jobs -> Nat]
    BY AtStatement, ConstantsAssumption DEF Procs, TypeInv, TypeOK, WorldTypes, Ack, Redeliver
<1>2. /\ Others(w) /\ proc'[w].job = NoJob /\ \A v \in Workers \ {w} : proc'[v] = proc[v]
      /\ \A j \in Jobs : j # NoJob
    BY <1>1, FinishGoes, ConstantsAssumption DEF Ack, Redeliver, Others, Procs, IdleProc
<1>3. UNCHANGED <<job, msg, draft, events, accepted>>
    BY DEF Ack, Redeliver, rowVars, worldVars
<1>4. \/ queue' = queue
      \/ /\ queue' = [queue EXCEPT ![i] = @ + 1] /\ accepted[i] = 0
    <2>1. Redeliver(w) => proc[w].plan # "accepted"
        BY <1>1, NotRecording DEF Redeliver, AcceptedOps
    <2>. QED
        BY <1>1, <2>1 DEF Ack, Redeliver, worldVars, PrevailInv, OneHolder
<1>5. ASSUME NEW j \in Jobs
      PROVE  OneHolder(j)'
    <2>1. OneHolder(j)
        BY DEF PrevailInv
    <2>2. \A v \in Workers : proc'[v].job = j => v # w /\ proc[v].job = j /\ proc'[v] = proc[v]
        BY <1>2
    <2>3. CASE queue'[j] = queue[j]
        BY <1>3, <2>1, <2>2, <2>3 DEF OneHolder
    <2>4. CASE j = i /\ queue'[j] = queue[j] + 1 /\ accepted[j] = 0
        BY <1>1, <1>3, <2>1, <2>2, <2>4 DEF OneHolder
    <2>. QED
        BY <1>1, <1>4, <2>3, <2>4
<1>. QED
    BY <1>1, <1>2, <1>3, <1>5, InvocationPrevails

LEMMA SubmitPrevails ==
    ASSUME TypeInv, faults = 0, PrevailInv, NEW w \in Workers, SubmitAccepted(w)
    PROVE  PrevailInv'
<1>. DEFINE i == proc[w].job
<1>1. /\ w \in Procs /\ i \in Jobs /\ JobOf(w) = i /\ proc[w] \in ProcType
      /\ accepted \in [Jobs -> Nat]
    BY AtStatement DEF Procs, TypeInv, TypeOK, WorldTypes, SubmitAccepted
<1>2. /\ Others(w) /\ proc'[w].job = i /\ proc'[w].plan = "accepted"
      /\ \A v \in Workers \ {w} : proc'[v] = proc[v]
    BY <1>1 DEF SubmitAccepted, Others, Procs, ProcType, TypeInv, TypeOK, ProcTypes
<1>3. /\ UNCHANGED <<job, msg, draft, events, queue>>
      /\ accepted' = [accepted EXCEPT ![i] = @ + 1]
    BY <1>1 DEF SubmitAccepted, rowVars
<1>4. ASSUME NEW j \in Jobs
      PROVE  OneHolder(j)'
    <2>1. OneHolder(j) /\ OneHolder(i)
        BY <1>1 DEF PrevailInv
    <2>2. queue[i] = 0
        BY <1>1, <2>1 DEF OneHolder
    <2>3. CASE j = i
        BY <1>1, <1>2, <1>3, <2>1, <2>2, <2>3 DEF OneHolder
    <2>4. CASE j # i
        BY <1>1, <1>2, <1>3, <2>1, <2>4 DEF OneHolder
    <2>. QED
        BY <2>3, <2>4
<1>5. \A j \in Jobs : accepted[j] > 0 => accepted'[j] > 0
    BY <1>1, <1>3
<1>. QED
    BY <1>2, <1>3, <1>4, <1>5, InvocationPrevails

(* A failure is counted.                                                   *)
LEMMA NoneCounted ==
    ASSUME TypeInv, NEW k, Counted(k)
    PROVE  faults' # 0
BY DEF Counted, TypeInv, TypeOK, WorldTypes

LEMMA WorkerPrevails ==
    ASSUME TypeInv, faults = 0, faults' = 0, PrevailInv, NEW w \in Workers,
           WorkerStep(w) \/ WorkerFault(w)
    PROVE  PrevailInv'
<1>1. WorkerStep(w)
    BY NoneCounted DEF WorkerFault, ReadFails, SubmitAmbiguous, WorkerWriteFails, WorkerCrash
<1>2. CASE \E j \in Jobs : Receive(w, j)
    BY <1>2, ReceivePrevails
<1>3. CASE Ack(w) \/ Redeliver(w)
    BY <1>3, DonePrevails
<1>4. CASE SubmitAccepted(w)
    BY <1>4, SubmitPrevails
<1>5. CASE \/ ReadJob(w) \/ ReadMessage(w) \/ ReadEvents(w) \/ Claim(w) \/ Check(w)
           \/ DeliverLocally(w) \/ SubmitRefused(w) \/ MessageSent(w) \/ JobFailed(w)
           \/ JobUncertain(w) \/ JobRetryBlind(w) \/ JobRetry(w) \/ JobExhausted(w)
           \/ SharedStep(w)
    <2>1. Records(w)
        BY <1>5, WorkerRecords
    <2>2. proc[w].job \in Jobs /\ proc[w].plan # "idle"
        <3>1. w \in Procs /\ \E op : At(w, op)
            BY <1>5 DEF Procs, ReadJob, ReadMessage, ReadEvents, Claim, Check, DeliverLocally,
                        SubmitRefused, MessageSent, JobFailed, JobUncertain, JobRetryBlind,
                        JobRetry, JobExhausted, SharedStep, JobSent, MessageReplied,
                        MessageFailed, DraftSent, DraftFailed, FindDebit, AppendDebit, Capture,
                        ReadLedger, WriteAvailable, Release
        <3>. QED
            BY <3>1, AtStatement DEF TypeInv, TypeOK
    <2>. QED
        BY <2>1, <2>2, RecordsPrevail
<1>. QED
    BY <1>1, <1>2, <1>3, <1>4, <1>5 DEF WorkerStep
-----------------------------------------------------------------------------
(* The steps of a webhook request.                                         *)

LEMMA NotifyPrevails ==
    ASSUME OneRequest, TypeInv, faults = 0, PrevailInv, NEW h \in Hooks, NEW i \in Jobs,
           NEW k \in 1..accepted[i], NEW e, Notify(h, i, k, e)
    PROVE  PrevailInv'
<1>1. /\ proc[h].plan = "idle" /\ \A g \in Hooks : g = h
      /\ proc'[h].plan = "hook" /\ proc'[h].job = i
      /\ \A w \in Workers : proc'[w] = proc[w]
      /\ UNCHANGED <<job, msg, draft, queue, accepted, events>>
    BY ConstantsAssumption
       DEF Notify, OneRequest, Procs, TypeInv, TypeOK, ProcTypes, IdleProc, rowVars, worldVars
<1>2. accepted[i] > 0
    BY DEF TypeInv, TypeOK, WorldTypes
<1>3. ASSUME NEW j \in Jobs
      PROVE  OneHolder(j)' /\ Prevails(j)'
    <2>1. OneHolder(j) /\ Prevails(j) /\ \A n : ~StillTo(n, j)
        BY <1>1 DEF PrevailInv, StillTo
    <2>. QED
        BY <1>1, <2>1 DEF OneHolder, Prevails
<1>4. Informed(h)'
    BY <1>1, <1>2 DEF Informed, HookPlans, Bounces
<1>. QED
    BY <1>1, <1>3, <1>4 DEF PrevailInv

(* The only request, while it runs.                                        *)
LEMMA RequestIs ==
    ASSUME OneRequest, NEW h \in Hooks, NEW n, NEW j
    PROVE  StillTo(n, j) <=>
             /\ proc[h].job = j
             /\ proc[h].plan = "hook" \/ (proc[h].plan = "hookDelivered" /\ proc[h].step <= n)
BY DEF OneRequest, StillTo

LEMMA HookAt ==
    ASSUME TypeInv, faults = 0, PrevailInv, NEW h \in Hooks, NEW op, At(h, op)
    PROVE  /\ h \in Procs /\ proc[h].job \in Jobs /\ JobOf(h) = proc[h].job
           /\ proc[h].step \in Nat /\ proc[h] \in ProcType
           /\ proc[h].plan \in HookPlans \ {"idle"} /\ accepted[proc[h].job] > 0
           /\ Informed(h) /\ Prevails(proc[h].job)
           /\ HookFact(proc[h].plan, proc[h].step, op)
           /\ op \in {"StoreEvent", "Backfill", "ReadJobForEvent", "ReadOutcome"} =>
                proc[h].plan = "hook"
<1>1. h \in Procs
    BY DEF Procs
<1>2. /\ proc[h] \in ProcType /\ proc[h].plan # "idle" /\ proc[h].job \in Jobs
      /\ JobOf(h) = proc[h].job /\ proc[h].step \in DOMAIN Plan[proc[h].plan]
      /\ StepFact(proc[h].plan, proc[h].step, op) /\ proc[h].step \in Nat
    BY <1>1, AtStatement DEF TypeInv, TypeOK
<1>3. Informed(h) /\ Prevails(proc[h].job)
    BY <1>2 DEF PrevailInv
<1>4. HookFact(proc[h].plan, proc[h].step, op)
    BY <1>2, <1>3, HookPlaces DEF Informed, At
<1>. QED
    BY <1>1, <1>2, <1>3, <1>4 DEF Informed, StepFact

LEMMA StoreEventPrevails ==
    ASSUME OneRequest, TypeInv, faults = 0, PrevailInv, NEW h \in Hooks, StoreEvent(h)
    PROVE  PrevailInv'
<1>1. /\ h \in Procs /\ proc[h].job \in Jobs /\ JobOf(h) = proc[h].job
      /\ proc[h].plan = "hook" /\ accepted[proc[h].job] > 0
    BY HookAt DEF StoreEvent
<1>2. Goes(h, "hook", proc[h].step + 1)
    BY <1>1, AdvanceGoes DEF StoreEvent
<1>3. OnItsJob(h)
    BY <1>1, <1>2, NothingWritten DEF StoreEvent
<1>4. /\ proc'[h].plan = "hook" /\ proc'[h].job = proc[h].job
      /\ UNCHANGED <<job, msg, accepted>>
    BY <1>2 DEF Goes, StoreEvent, rowVars
<1>5. Informed(h)'
    BY <1>1, <1>4 DEF Informed, HookPlans, Bounces
<1>6. Prevails(proc[h].job)'
    BY <1>1, <1>4 DEF Prevails, StillTo
<1>7. \A j \in Jobs \ {proc[h].job} : events'[j] = events[j]
    BY <1>1 DEF StoreEvent, TypeInv, TypeOK, WorldTypes
<1>. QED
    BY <1>1, <1>3, <1>5, <1>6, <1>7, ReportPrevails

LEMMA HookReadsPrevail ==
    ASSUME OneRequest, TypeInv, faults = 0, PrevailInv, NEW h \in Hooks,
           Backfill(h) \/ ReadJobForEvent(h) \/ ReadOutcome(h)
    PROVE  PrevailInv'
<1>. DEFINE i == proc[h].job
<1>1. /\ h \in Procs /\ i \in Jobs /\ JobOf(h) = i /\ proc[h] \in ProcType
      /\ proc[h].plan = "hook" /\ accepted[i] > 0 /\ Informed(h) /\ Prevails(i)
    BY HookAt DEF Backfill, ReadJobForEvent, ReadOutcome
<1>2. /\ UNCHANGED <<job, draft, queue, accepted, events>>
      /\ \A j \in Jobs : msg'[j].status = msg[j].status
      /\ \A j \in Jobs \ {i} : msg'[j] = msg[j]
    BY <1>1 DEF Backfill, ReadJobForEvent, ReadOutcome, rowVars, worldVars, TypeInv, TypeOK, RowTypes
<1>3. /\ Others(h) /\ proc'[h].job = i
      /\ \/ proc'[h].plan = "hook"
         \/ proc'[h].plan = OutcomePlan(h) /\ proc'[h].step = 1
    <2>1. CASE Backfill(h)
        BY <1>1, <2>1, AdvanceGoes DEF Backfill, Goes
    <2>2. CASE ReadJobForEvent(h) \/ ReadOutcome(h)
        BY <1>1, <2>2
           DEF ReadJobForEvent, ReadOutcome, Others, ProcType, TypeInv, TypeOK, ProcTypes
    <2>. QED
        BY <2>1, <2>2
<1>4. OnItsJob(h)
    BY <1>2, <1>3 DEF OnItsJob
<1>5. /\ OutcomePlan(h) \in {"hookDelivered", "hookBounced", "hookBouncedFailed"}
      /\ "delivery" \in events[i] => OutcomePlan(h) = "hookDelivered"
    BY <1>1 DEF OutcomePlan
<1>6. Informed(h)'
    BY <1>1, <1>2, <1>3, <1>5 DEF Informed, HookPlans, Bounces
<1>7. Prevails(i)'
    BY <1>1, <1>2, <1>3, <1>5 DEF Prevails, StillTo
<1>. QED
    BY <1>1, <1>2, <1>4, <1>6, <1>7, ReportPrevails

LEMMA HookWritesPrevail ==
    ASSUME OneRequest, TypeInv, faults = 0, PrevailInv, NEW h \in Hooks,
           JobBounced(h) \/ Suppress(h) \/ SharedStep(h)
    PROVE  PrevailInv'
<1>. DEFINE i == proc[h].job
<1>0. h \in Procs
    BY DEF Procs
<1>1. /\ OnItsJob(h) /\ proc'[h].plan = proc[h].plan /\ events' = events
      /\ \/ Effect(h)
         \/ At(h, "JobBounced")
         \/ At(h, "Suppress") /\ UNCHANGED <<job, msg>> /\ proc'[h].step = proc[h].step + 1
    <2>1. CASE JobBounced(h)
        BY <1>0, <2>1, JobWritten DEF JobBounced, Goes
    <2>2. CASE Suppress(h)
        BY <1>0, <2>2, AdvanceGoes, NothingWritten DEF Suppress, Goes, rowVars
    <2>3. CASE SharedStep(h)
        BY <1>0, <2>3, SharedWrites
    <2>. QED
        BY <2>1, <2>2, <2>3
<1>2. PICK op : At(h, op)
    BY <1>1 DEF Effect
<1>3. /\ i \in Jobs /\ proc[h].step \in Nat
      /\ proc[h].plan \in HookPlans \ {"idle"} /\ accepted[i] > 0
      /\ Informed(h) /\ Prevails(i)
    BY <1>2, HookAt
<1>4. Informed(h)'
    BY <1>1, <1>3 DEF Informed, OnItsJob
<1>5. ASSUME "delivery" \in events[i]
      PROVE  /\ msg'[i].status = "replied" \/ StillTo(6, i)'
             /\ job'[i].status = "sent" \/ StillTo(7, i)'
    <2>1. /\ proc[h].plan \in {"hook", "hookDelivered"}
          /\ msg[i].status = "replied" \/ StillTo(6, i)
          /\ job[i].status = "sent" \/ StillTo(7, i)
        BY <1>3, <1>5 DEF Informed, Prevails, HookPlans, Bounces
    <2>2. CASE proc[h].plan = "hook"
        BY <1>1, <2>2 DEF StillTo, OnItsJob
    <2>3. CASE proc[h].plan = "hookDelivered"
        <3>1. /\ msg[i].status = "replied" \/ proc[h].step <= 6
              /\ job[i].status = "sent" \/ proc[h].step <= 7
            BY <2>1, <2>3, RequestIs
        <3>2. \A x : At(h, x) => HookFact("hookDelivered", proc[h].step, x)
            BY <2>3, HookAt
        <3>3. ~At(h, "JobBounced") /\ ~At(h, "MessageFailed")
            BY <3>2 DEF HookFact, Bounces
        <3>4. /\ msg'[i].status = "replied" \/ proc'[h].step <= 6
              /\ job'[i].status = "sent" \/ proc'[h].step <= 7
            <4>1. CASE At(h, "JobSent")
                BY <1>1, <1>3, <3>1, <3>2, <4>1 DEF Effect, HookFact, At, Unwritten
            <4>2. CASE At(h, "MessageReplied")
                BY <1>1, <1>3, <3>1, <3>2, <4>2 DEF Effect, HookFact, At, Unwritten
            <4>3. CASE At(h, "FindDebit")
                BY <1>1, <1>3, <3>1, <3>2, <4>3 DEF Effect, HookFact, At, Unwritten
            <4>4. CASE ~At(h, "JobSent") /\ ~At(h, "MessageReplied") /\ ~At(h, "FindDebit")
                <5>1. UNCHANGED <<job, msg>> /\ proc'[h].step = proc[h].step + 1
                    BY <1>1, <3>3, <4>4 DEF Effect
                <5>2. proc[h].step # 6 /\ proc[h].step # 7
                    BY <1>2, <3>2, <4>4 DEF HookFact
                <5>. QED
                    BY <1>3, <3>1, <5>1, <5>2
            <4>. QED
                BY <4>1, <4>2, <4>3, <4>4
        <3>. QED
            BY <1>1, <2>3, <3>4 DEF StillTo, OnItsJob
    <2>. QED
        BY <2>1, <2>2, <2>3
<1>6. Prevails(i)'
    BY <1>1, <1>3, <1>5 DEF Prevails, OnItsJob
<1>. QED
    BY <1>1, <1>3, <1>4, <1>6, ReportPrevails

LEMMA RespondPrevails ==
    ASSUME OneRequest, TypeInv, faults = 0, PrevailInv, NEW h \in Hooks, Respond(h)
    PROVE  PrevailInv'
<1>. DEFINE i == proc[h].job
<1>1. /\ h \in Procs /\ i \in Jobs /\ Informed(h) /\ proc[h].step \in Nat
      /\ proc[h].plan # "hook" /\ (proc[h].plan = "hookDelivered" => proc[h].step > 7)
    BY HookAt DEF Respond, HookFact
<1>2. /\ Others(h) /\ proc'[h] = IdleProc /\ \A w \in Workers : proc'[w] = proc[w]
      /\ UNCHANGED <<job, msg, draft, queue, accepted, events>>
    BY <1>1, FinishGoes, ConstantsAssumption DEF Respond, Others, Procs, rowVars, worldVars
<1>3. ASSUME NEW j \in Jobs
      PROVE  OneHolder(j)' /\ Prevails(j)'
    <2>1. OneHolder(j) /\ Prevails(j) /\ ~StillTo(6, j) /\ ~StillTo(7, j)
        BY <1>1, RequestIs DEF PrevailInv
    <2>. QED
        BY <1>2, <2>1 DEF OneHolder, Prevails
<1>4. Informed(h)'
    BY <1>2 DEF Informed, IdleProc, HookPlans, Bounces
<1>. QED
    BY <1>3, <1>4 DEF PrevailInv, OneRequest
LEMMA HookPrevails ==
    ASSUME OneRequest, TypeInv, faults = 0, faults' = 0, PrevailInv, NEW h \in Hooks, HookNext(h)
    PROVE  PrevailInv'
<1>1. ~HookFault(h)
    BY NoneCounted DEF HookFault, HookWriteFails, HookCrash
<1>. QED
    BY <1>1, NotifyPrevails, StoreEventPrevails, HookReadsPrevail, HookWritesPrevail,
       RespondPrevails DEF HookNext, HookStep

-----------------------------------------------------------------------------
(* The other steps, and what follows.                                      *)

LEMMA EnqueuePrevails ==
    ASSUME TypeInv, faults = 0, PrevailInv, NEW i \in Jobs, EnqueueDraftSend(i)
    PROVE  PrevailInv'
<1>1. /\ draft[i] = "draft" /\ OneHolder(i) /\ Prevails(i)
      /\ queue \in [Jobs -> Nat] /\ draft \in [Jobs -> DraftStatus]
    BY DEF EnqueueDraftSend, PrevailInv, TypeInv, TypeOK, RowTypes, WorldTypes
<1>2. /\ queue' = [queue EXCEPT ![i] = @ + 1] /\ draft' = [draft EXCEPT ![i] = "queued"]
      /\ UNCHANGED <<proc, accepted, events>>
      /\ \A j \in Jobs \ {i} : job'[j] = job[j] /\ msg'[j] = msg[j]
    BY DEF EnqueueDraftSend, TypeInv, TypeOK, RowTypes
<1>3. /\ queue[i] = 0 /\ accepted[i] = 0 /\ "delivery" \notin events[i]
      /\ \A w \in Workers : proc[w].job # i
    BY <1>1 DEF OneHolder, Prevails
<1>4. ASSUME NEW j \in Jobs
      PROVE  OneHolder(j)' /\ Prevails(j)'
    <2>1. OneHolder(j) /\ Prevails(j)
        BY DEF PrevailInv
    <2>2. CASE j = i
        BY <1>1, <1>2, <1>3, <2>2 DEF OneHolder, Prevails
    <2>3. CASE j # i
        BY <1>1, <1>2, <2>1, <2>3 DEF OneHolder, Prevails, StillTo
    <2>. QED
        BY <2>2, <2>3
<1>. QED
    BY <1>2, <1>4 DEF PrevailInv, Informed

LEMMA InitPrevails == Init => PrevailInv
<1>. SUFFICES ASSUME Init PROVE PrevailInv
    OBVIOUS
<1>1. /\ \A p \in Workers : proc[p].job = NoJob
      /\ \A h \in Hooks : proc[h].plan = "idle"
    BY DEF Init, IdleProc, Procs
<1>2. \A j \in Jobs : queue[j] = 0 /\ accepted[j] = 0 /\ events[j] = {} /\ j # NoJob
    BY ConstantsAssumption DEF Init
<1>. QED
    BY <1>1, <1>2 DEF PrevailInv, OneHolder, Prevails, Informed, HookPlans, Bounces

(* Failures are counted and not forgotten.                                 *)
LEMMA FaultsGrow ==
    ASSUME Next, Operators = {}
    PROVE  faults' \in {faults, faults + 1}
<1>1. ASSUME NEW p, SharedStep(p)
      PROVE  faults' = faults
    BY <1>1 DEF SharedStep, JobSent, MessageReplied, MessageFailed, DraftSent, DraftFailed,
                WriteJob, WriteMessage, WriteDraft, FindDebit, AppendDebit, Capture, ReadLedger,
                WriteAvailable, Release, worldVars
<1>2. ASSUME NEW w \in Workers, WorkerStep(w)
      PROVE  faults' = faults
    <2>1. CASE (\E j \in Jobs : Receive(w, j)) \/ Ack(w) \/ Redeliver(w) \/ ReadJob(w)
               \/ ReadMessage(w) \/ ReadEvents(w)
        BY <2>1, Zenon DEF Receive, Ack, Redeliver, ReadJob, ReadMessage, ReadEvents, worldVars
    <2>2. CASE Claim(w) \/ Check(w) \/ DeliverLocally(w) \/ SubmitAccepted(w) \/ SubmitRefused(w)
        BY <2>2, Zenon DEF Claim, Check, DeliverLocally, SubmitAccepted, SubmitRefused, worldVars
    <2>3. CASE MessageSent(w) \/ JobFailed(w) \/ JobUncertain(w) \/ JobRetryBlind(w)
               \/ JobRetry(w) \/ JobExhausted(w)
        BY <2>3, Zenon DEF MessageSent, JobFailed, JobUncertain, JobRetryBlind, JobRetry,
                           JobExhausted, WriteJob, WriteMessage, worldVars
    <2>. QED
        BY <1>1, <1>2, <2>1, <2>2, <2>3 DEF WorkerStep
<1>3. ASSUME NEW w \in Workers, WorkerFault(w)
      PROVE  faults' = faults + 1
    BY <1>3 DEF WorkerFault, ReadFails, SubmitAmbiguous, WorkerWriteFails, WorkerCrash, Counted
<1>4. ASSUME NEW h \in Hooks, HookNext(h)
      PROVE  faults' \in {faults, faults + 1}
    <2>1. CASE StoreEvent(h) \/ Backfill(h) \/ ReadJobForEvent(h) \/ ReadOutcome(h)
               \/ JobBounced(h) \/ Suppress(h) \/ Respond(h)
        BY <2>1, Zenon DEF StoreEvent, Backfill, ReadJobForEvent, ReadOutcome, JobBounced,
                           Suppress, Respond, WriteJob, worldVars
    <2>2. CASE HookFault(h)
        BY <2>2 DEF HookFault, HookWriteFails, HookCrash, Counted
    <2>3. ASSUME NEW j, NEW k, NEW e, Notify(h, j, k, e)
          PROVE  faults' = faults
        BY <2>3 DEF Notify, worldVars
    <2>. QED
        BY <1>1, <1>4, <2>1, <2>2, <2>3 DEF HookNext, HookStep
<1>5. ASSUME NEW j \in Jobs, EnqueueDraftSend(j) \/ Duplicate(j) \/ Age(j)
      PROVE  faults' \in {faults, faults + 1}
    BY <1>5 DEF EnqueueDraftSend, Duplicate, Age, Counted, worldVars
<1>. QED
    BY <1>2, <1>3, <1>4, <1>5 DEF Next

LEMMA NextPrevails == OneRequest /\ TypeInv /\ PrevailInv /\ [Next]_vars => PrevailInv'
<1>. SUFFICES ASSUME OneRequest, TypeInv, PrevailInv, [Next]_vars, faults' = 0
              PROVE  PrevailInv'
    BY DEF PrevailInv
<1>1. CASE UNCHANGED vars
    BY <1>1 DEF vars, rowVars, worldVars, PrevailInv, OneHolder, Prevails, StillTo, Informed
<1>2. CASE Next
    <2>1. faults = 0
        BY <1>2, FaultsGrow DEF OneRequest, TypeInv, TypeOK, WorldTypes
    <2>2. CASE \E j \in Jobs : EnqueueDraftSend(j)
        BY <2>1, <2>2, EnqueuePrevails
    <2>3. CASE \E j \in Jobs : Duplicate(j)
        BY <2>3, NoneCounted DEF Duplicate
    <2>4. CASE \E j \in Jobs : Age(j)
        BY <2>4 DEF Age, rowVars, worldVars, PrevailInv, OneHolder, Prevails, StillTo, Informed
    <2>5. CASE \E w \in Workers : WorkerStep(w) \/ WorkerFault(w)
        BY <2>1, <2>5, WorkerPrevails
    <2>6. CASE \E h \in Hooks : HookNext(h)
        BY <2>1, <2>6, HookPrevails
    <2>. QED
        BY <1>2, <2>2, <2>3, <2>4, <2>5, <2>6 DEF Next, OneRequest
<1>. QED
    BY <1>1, <1>2

(* A delivery that was reported prevails over bounces in whatever order    *)
(* they are reported, and over what the worker writes meanwhile: at rest   *)
(* the job is sent and its message replied (POST /v1/webhooks/ses,         *)
(* handleOutboundSend), while no operator acts and webhook requests do not *)
(* overlap.                                                                *)
THEOREM DeliveriesPrevail == ASSUME OneRequest PROVE Spec => []DeliveryPrevails
<1>1. PrevailInv => DeliveryPrevails
    BY DEF PrevailInv, Prevails, StillTo, DeliveryPrevails, Quiet, Procs
<1>. QED
    BY <1>1, InitTypes, NextTypes, InitPrevails, NextPrevails, PTL DEF Spec
=============================================================================
