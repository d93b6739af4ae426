-------------------------- MODULE OutboundCharges --------------------------
(***************************************************************************)
(* Type correctness of OutboundSend, and the facts about plans and about   *)
(* the ways a handler moves that every proof needs; then what a tenant is  *)
(* debited for, never an email that was not accepted and never the same    *)
(* email twice, and what is reported as sent, never a job whose local      *)
(* copies are missing: for any number of jobs, invocations, webhook        *)
(* requests and operators and any failures.                                *)
(***************************************************************************)
EXTENDS OutboundSend, FiniteSetTheorems, TLAPS

-----------------------------------------------------------------------------
(* The table of plans.                                                     *)

(* The statements after which a handler leaves its plan.                   *)
Ends == {"ReadEvents", "Submit", "ReadOutcome", "Ack", "Redeliver", "Respond"}

(* The statements of a worker that sends the job or hands it on to be sent.*)
Sends == {"Check", "DeliverLocally", "Submit", "JobRetry", "JobRetryBlind"}

(* The statements with which a worker answers for its job: they finish it  *)
(* or hand its copy back to the queue.  And the plans that lead to one.    *)
Answers == {"JobSent", "JobFailed", "JobUncertain", "JobExhausted", "Redeliver"}
AnswerPlans ==
    {"accepted", "recoverSent", "recoverFailed", "inDoubt", "retryBlind", "retryLater",
     "giveUp", "giveUpUnparsed", "giveUpNoDraft", "redeliver"}

(* The plans of a handler that knows the job's email was accepted.         *)
SuccessPlans ==
    {"accepted", "settled", "convergeMessage", "convergeDraft", "converge",
     "recoverSent", "hookDelivered", "resolveSent"}
EvidencePlans ==
    SuccessPlans \union {"hook"}

StepFact(pl, i, op) ==
        /\ i \in Nat \ {0}
        /\ pl # "idle"
        /\ op \notin Ends => i + 1 \in DOMAIN Plan[pl]
        /\ op = "FindDebit" =>
              /\ i + 3 \in DOMAIN Plan[pl] /\ Plan[pl][i + 3] \notin {"AppendDebit", "Submit"}
              /\ i + 5 \in DOMAIN Plan[pl] /\ Plan[pl][i + 5] \notin {"AppendDebit", "Submit"}
        /\ i + 1 \in DOMAIN Plan[pl] /\ op # "FindDebit" => Plan[pl][i + 1] # "AppendDebit"
        /\ i + 1 \in DOMAIN Plan[pl] /\ op # "DeliverLocally" => Plan[pl][i + 1] # "Submit"
        /\ op \in {"FindDebit", "AppendDebit", "JobSent", "MessageSent", "MessageReplied"}
              => pl \in SuccessPlans
        /\ op \in {"StoreEvent", "Backfill", "ReadJobForEvent", "ReadOutcome"}
              => pl = "hook"
        /\ op = "ReadEvents" => pl = "deliver"
        /\ op \in {"Ack", "Redeliver"} => pl # "adminRollback"
        /\ op \in {"Claim", "Check", "DeliverLocally", "Submit"} <=> pl = "send"
        /\ op = "JobRetry" => pl = "retryLater"
        /\ op = "JobRetryBlind" => pl = "retryBlind"
        /\ i + 1 \in DOMAIN Plan[pl] /\ Plan[pl][i + 1] \in Sends => pl = "send"
        /\ op = "FindDebit" => Plan[pl][i + 3] \notin Sends /\ Plan[pl][i + 5] \notin Sends
        /\ op \in {"Ack", "Claim", "ReadEvents"} =>
              \A k \in DOMAIN Plan[pl] : k >= i => Plan[pl][k] \notin Answers
        /\ op = "FindDebit" =>
              \A k \in DOMAIN Plan[pl] : k >= i /\ Plan[pl][k] \in Answers => k >= i + 5
        /\ op = "ReadJob" => Plan[pl][i + 1] = "ReadMessage"
        /\ op = "ReadMessage" => Plan[pl][i + 1] = "ReadEvents"
        /\ op = "Claim" => Plan[pl][i + 1] = "Check"
        /\ op = "Check" => Plan[pl][i + 1] = "DeliverLocally"
        /\ op = "DeliverLocally" => Plan[pl][i + 1] = "Submit"
        /\ op \in {"JobRetry", "JobRetryBlind"} => Plan[pl][i + 1] = "Redeliver"
        /\ op = "Respond" =>
              pl \notin {"retryBlind", "retryLater", "giveUp", "giveUpUnparsed",
                        "giveUpNoDraft", "inDoubt"}

PlanFact(pl) ==
    /\ pl # "idle" => 1 \in DOMAIN Plan[pl] /\ Plan[pl][1] \notin {"AppendDebit", "Submit"}
    /\ pl # "idle" /\ Plan[pl][1] \in Sends => pl \in {"retryLater", "retryBlind"}
    /\ pl = "deliver" => Plan[pl][1] = "ReadJob"
    /\ pl = "send" => Plan[pl][1] = "Claim"
    /\ pl \in AnswerPlans => \E k \in DOMAIN Plan[pl] : k >= 1 /\ Plan[pl][k] \in Answers
    /\ \A i \in DOMAIN Plan[pl] : StepFact(pl, i, Plan[pl][i])

(* What the proofs need of the plans: where a handler may stand, that the  *)
(* debit is appended only after it was looked for and an email submitted   *)
(* only after the local copies, and that a handler writes `sent`, settles  *)
(* or stores an event only in a plan of evidence.                          *)
LEMMA PlanTable == \A pl \in PlanNames : PlanFact(pl)
<1> USE DEF PlanFact, StepFact, Plan, PlanNames, Ends, Sends, Answers, AnswerPlans,
            SuccessPlans
<1>1. PlanFact("idle")
    OBVIOUS
<1>2. PlanFact("deliver")
    OBVIOUS
<1>3. PlanFact("send")
    OBVIOUS
<1>4. PlanFact("accepted")
    OBVIOUS
<1>5. PlanFact("settled")
    OBVIOUS
<1>6. PlanFact("convergeMessage")
    OBVIOUS
<1>7. PlanFact("convergeDraft")
    OBVIOUS
<1>8. PlanFact("converge")
    OBVIOUS
<1>9. PlanFact("recoverSent")
    OBVIOUS
<1>10. PlanFact("recoverFailed")
    OBVIOUS
<1>11. PlanFact("inDoubt")
    OBVIOUS
<1>12. PlanFact("retryBlind")
    OBVIOUS
<1>13. PlanFact("retryLater")
    OBVIOUS
<1>14. PlanFact("giveUp")
    OBVIOUS
<1>15. PlanFact("giveUpUnparsed")
    OBVIOUS
<1>16. PlanFact("giveUpNoDraft")
    OBVIOUS
<1>17. PlanFact("ack")
    OBVIOUS
<1>18. PlanFact("redeliver")
    OBVIOUS
<1>19. PlanFact("hook")
    OBVIOUS
<1>20. PlanFact("hookDelivered")
    OBVIOUS
<1>21. PlanFact("hookBounced")
    OBVIOUS
<1>22. PlanFact("hookBouncedFailed")
    OBVIOUS
<1>23. PlanFact("adminRetry")
    OBVIOUS
<1>24. PlanFact("adminRollback")
    OBVIOUS
<1>25. PlanFact("resolveSent")
    OBVIOUS
<1>26. PlanFact("resolveNotSent")
    OBVIOUS
<1>27. PlanFact("respond")
    OBVIOUS
<1>. HIDE DEF PlanFact, StepFact, Plan
<1>. QED
    BY <1>1, <1>2, <1>3, <1>4, <1>5, <1>6, <1>7, <1>8, <1>9, <1>10, <1>11, <1>12,
       <1>13, <1>14, <1>15, <1>16, <1>17, <1>18, <1>19, <1>20, <1>21, <1>22, <1>23,
       <1>24, <1>25, <1>26, <1>27

-----------------------------------------------------------------------------
(* Types.                                                                  *)

(* The ledger stays finite, so that its size is a number and the ids and   *)
(* the balance computed from it are too.                                   *)
TypeInv == TypeOK /\ IsFiniteSet(ledger)

(* A handler at a statement is running, and the table speaks of it.        *)
LEMMA AtStatement ==
    ASSUME ProcTypes, NEW p \in Procs, NEW op, At(p, op)
    PROVE  /\ proc[p] \in ProcType
           /\ proc[p].plan \in PlanNames \ {"idle"}
           /\ proc[p].job \in Jobs
           /\ JobOf(p) = proc[p].job
           /\ proc[p].step \in DOMAIN Plan[proc[p].plan]
           /\ StepFact(proc[p].plan, proc[p].step, op)
           /\ proc[p].step \in Nat
<1>1. proc[p] \in ProcType /\ proc[p].plan \in PlanNames
    BY DEF ProcTypes, ProcType
<1>2. /\ proc[p].step \in DOMAIN Plan[proc[p].plan]
      /\ op = Plan[proc[p].plan][proc[p].step]
    BY DEF At
<1>3. StepFact(proc[p].plan, proc[p].step, op)
    BY <1>1, <1>2, PlanTable DEF PlanFact
<1>. QED
    BY <1>1, <1>2, <1>3 DEF StepFact, ProcTypes, JobOf

LEMMA NextStatement ==
    ASSUME ProcTypes, NEW p \in Procs, NEW op, op \notin Ends, At(p, op)
    PROVE  /\ proc[p] \in ProcType
           /\ proc[p].job \in Jobs
           /\ proc[p].step + 1 \in Nat
           /\ proc[p].step + 1 \in DOMAIN Plan[proc[p].plan]
    BY AtStatement DEF StepFact

(* The ways a handler moves keep it at a statement of a plan.              *)
LEMMA MoveTypes ==
    ASSUME ProcTypes, NEW p \in Procs, NEW r \in ProcType,
           r.plan # "idle" => r.job \in Jobs /\ r.step \in DOMAIN Plan[r.plan],
           proc' = [proc EXCEPT ![p] = r]
    PROVE  ProcTypes'
    BY DEF ProcTypes

LEMMA FollowTypes ==
    ASSUME ProcTypes, NEW p \in Procs, NEW pl \in PlanNames \ {"idle"},
           proc[p].plan # "idle", Follow(p, pl)
    PROVE  ProcTypes'
<1>1. 1 \in DOMAIN Plan[pl]
    BY PlanTable DEF PlanFact
<1> DEFINE r == [proc[p] EXCEPT !.plan = pl, !.step = 1]
<1>2. proc[p] \in ProcType /\ proc[p].job \in Jobs
    BY DEF ProcTypes
<1>3. r \in ProcType /\ r.plan = pl /\ r.step = 1 /\ r.job = proc[p].job
    BY <1>2 DEF ProcType
<1>4. proc' = [proc EXCEPT ![p] = r]
    BY DEF Follow, ProcTypes
<1>. HIDE DEF r
<1>. QED
    BY <1>1, <1>2, <1>3, <1>4, MoveTypes

(* A handler that goes on to its next statement and remembers a sum.       *)
LEMMA SumTypes ==
    ASSUME ProcTypes, NEW p \in Procs, NEW op, op \notin Ends, At(p, op),
           NEW x \in Int, proc' = [proc EXCEPT ![p].step = @ + 1, ![p].sum = x]
    PROVE  ProcTypes'
<1> DEFINE r == [proc[p] EXCEPT !.step = @ + 1, !.sum = x]
<1>1. /\ proc[p] \in ProcType /\ proc[p].job \in Jobs
      /\ proc[p].step + 1 \in Nat
      /\ proc[p].step + 1 \in DOMAIN Plan[proc[p].plan]
    BY NextStatement
<1>2. r \in ProcType /\ r.job \in Jobs /\ r.step \in DOMAIN Plan[r.plan]
    BY <1>1 DEF ProcType
<1>3. proc' = [proc EXCEPT ![p] = r]
    BY DEF ProcTypes
<1>. HIDE DEF r
<1>. QED
    BY <1>2, <1>3, MoveTypes

LEMMA AdvanceTypes ==
    ASSUME ProcTypes, NEW p \in Procs, NEW op, op \notin Ends, At(p, op), Advance(p)
    PROVE  ProcTypes'
    BY AtStatement DEF ProcTypes, ProcType, Advance, Skip, StepFact

LEMMA FinishTypes ==
    ASSUME ProcTypes, NEW p \in Procs, Finish(p)
    PROVE  ProcTypes'
    BY DEF ProcTypes, ProcType, Finish, IdleProc, PlanNames, JobStatus,
           MessageStatus, DraftStatus, JobError, TerminalEvents

-----------------------------------------------------------------------------
(* The statements every handler performs keep the types.                   *)

(* The single-statement writes keep the types of their rows.               *)
LEMMA WriteJobTypes ==
    ASSUME TypeInv, NEW p \in Procs, NEW op, op \notin Ends, At(p, op),
           NEW st \in JobStatus, NEW n \in Nat, NEW err \in JobError,
           WriteJob(p, st, n, err)
    PROVE  TypeInv'
<1>1. ProcTypes'
    BY AdvanceTypes DEF TypeInv, TypeOK, WriteJob
<1>2. JobOf(p) \in Jobs
    BY AtStatement DEF TypeInv, TypeOK
<1>. QED
    BY <1>1, <1>2 DEF TypeInv, TypeOK, RowTypes, BillingTypes, WorldTypes, WriteJob,
                      billingVars, worldVars

LEMMA WriteMessageTypes ==
    ASSUME TypeInv, NEW p \in Procs, NEW op, op \notin Ends, At(p, op),
           NEW st \in MessageStatus, NEW id \in Int, WriteMessage(p, st, id)
    PROVE  TypeInv'
<1>1. ProcTypes'
    BY AdvanceTypes DEF TypeInv, TypeOK, WriteMessage
<1>2. JobOf(p) \in Jobs
    BY AtStatement DEF TypeInv, TypeOK
<1>. QED
    BY <1>1, <1>2 DEF TypeInv, TypeOK, RowTypes, BillingTypes, WorldTypes, WriteMessage,
                      billingVars, worldVars

LEMMA WriteDraftTypes ==
    ASSUME TypeInv, NEW p \in Procs, NEW op, op \notin Ends, At(p, op),
           NEW st \in DraftStatus, WriteDraft(p, st)
    PROVE  TypeInv'
<1>1. ProcTypes'
    BY AdvanceTypes DEF TypeInv, TypeOK, WriteDraft
<1>2. JobOf(p) \in Jobs
    BY AtStatement DEF TypeInv, TypeOK
<1>. QED
    BY <1>1, <1>2 DEF TypeInv, TypeOK, RowTypes, BillingTypes, WorldTypes, WriteDraft,
                      billingVars, worldVars

(* The balance is a number, and so is the next ledger id.                  *)
LEMMA LedgerSize == TypeInv => Cardinality(ledger) \in Nat /\ Balance \in Int
    BY FS_CardinalityType, ConstantsAssumption DEF TypeInv, Balance

LEMMA SharedTypes ==
    ASSUME TypeInv, NEW p \in Procs, SharedStep(p)
    PROVE  TypeInv'
<1> USE DEF TypeInv, TypeOK
<1>0. \A op : At(p, op) => JobOf(p) \in Jobs /\ job[JobOf(p)].retries \in Nat
                           /\ msg[JobOf(p)].pid \in Int
    BY AtStatement DEF RowTypes
<1>1. CASE JobSent(p)
    BY <1>0, <1>1, WriteJobTypes DEF JobSent, Ends, JobStatus, JobError
<1>2. CASE MessageReplied(p)
    BY <1>0, <1>2, WriteMessageTypes DEF MessageReplied, Ends, MessageStatus
<1>3. CASE MessageFailed(p)
    BY <1>0, <1>3, WriteMessageTypes DEF MessageFailed, Ends, MessageStatus
<1>4. CASE DraftSent(p)
    BY <1>4, WriteDraftTypes DEF DraftSent, Ends, DraftStatus
<1>5. CASE DraftFailed(p)
    BY <1>5, WriteDraftTypes DEF DraftFailed, Ends, DraftStatus
<1>6. CASE FindDebit(p)
    <2>1. StepFact(proc[p].plan, proc[p].step, "FindDebit") /\ proc[p].step \in Nat
        BY <1>6, AtStatement DEF FindDebit
    <2>2. \E n \in {1, 3, 5} : Skip(p, n)
        BY <1>6 DEF FindDebit
    <2>3. ProcTypes'
        BY <2>1, <2>2 DEF StepFact, Skip, ProcTypes, ProcType, Ends
    <2>. QED
        BY <1>6, <2>3 DEF FindDebit, RowTypes, BillingTypes, WorldTypes, rowVars,
                          billingVars, worldVars
<1>7. CASE AppendDebit(p)
    <2>1. ProcTypes'
        BY <1>7, AdvanceTypes DEF AppendDebit, Ends
    <2>2. IsFiniteSet(ledger')
        BY <1>7, FS_AddElement DEF AppendDebit
    <2>3. BillingTypes'
        BY <1>0, <1>7, LedgerSize DEF AppendDebit, BillingTypes
    <2>. QED
        BY <1>7, <2>1, <2>2, <2>3 DEF AppendDebit, RowTypes, WorldTypes, rowVars, worldVars
<1>8. CASE Capture(p)
    <2>1. ProcTypes'
        BY <1>8, AdvanceTypes DEF Capture, Ends
    <2>2. BillingTypes'
        BY <1>0, <1>8 DEF Capture, BillingTypes
    <2>. QED
        BY <1>8, <2>1, <2>2 DEF Capture, RowTypes, WorldTypes, rowVars, worldVars
<1>9. CASE ReadLedger(p)
    <2>1. ProcTypes'
        BY <1>9, SumTypes, LedgerSize DEF ReadLedger, Ends
    <2>. QED
        BY <1>9, <2>1 DEF ReadLedger, RowTypes, BillingTypes, WorldTypes, rowVars,
                          billingVars, worldVars
<1>10. CASE WriteAvailable(p)
    <2>0. /\ At(p, "WriteAvailable")
          /\ proc' = [proc EXCEPT ![p].step = @ + 1, ![p].sum = 0]
        BY <1>10 DEF WriteAvailable
    <2>1. ProcTypes'
        <3>1. "WriteAvailable" \notin Ends /\ 0 \in Int
            BY DEF Ends
        <3>. QED
            BY <3>1, <2>0, SumTypes
    <2>2. BillingTypes'
        BY <1>10, AtStatement DEF WriteAvailable, BillingTypes, ProcType
    <2>. QED
        BY <1>10, <2>1, <2>2 DEF WriteAvailable, RowTypes, WorldTypes, rowVars, worldVars
<1>11. CASE Release(p)
    <2>1. ProcTypes'
        BY <1>11, AdvanceTypes DEF Release, Ends
    <2>2. BillingTypes'
        BY <1>0, <1>11 DEF Release, BillingTypes
    <2>. QED
        BY <1>11, <2>1, <2>2 DEF Release, RowTypes, WorldTypes, rowVars, worldVars
<1>. QED
    BY <1>1, <1>2, <1>3, <1>4, <1>5, <1>6, <1>7, <1>8, <1>9, <1>10, <1>11 DEF SharedStep

-----------------------------------------------------------------------------
(* How a handler that reads or branches moves.                             *)

(* Why a handler's record keeps its type, for the shapes its updates take. *)
LEMMA IdleType == IdleProc \in ProcType /\ IdleProc.plan = "idle"
    BY DEF IdleProc, ProcType, PlanNames, JobStatus, MessageStatus, DraftStatus,
           JobError, TerminalEvents

LEMMA StartTypes ==
    ASSUME ProcTypes, NEW p \in Procs, NEW j \in Jobs, NEW n \in Nat,
           NEW pl \in PlanNames \ {"idle"},
           proc' = [proc EXCEPT ![p] = [IdleProc EXCEPT !.plan = pl, !.job = j, !.retries = n]]
    PROVE  ProcTypes'
<1> DEFINE r == [IdleProc EXCEPT !.plan = pl, !.job = j, !.retries = n]
<1>1. IdleProc \in ProcType /\ IdleProc.step = 1
    BY IdleType DEF IdleProc
<1>2. r \in ProcType /\ r.plan = pl /\ r.job = j /\ r.step = 1
    BY <1>1 DEF ProcType
<1>3. 1 \in DOMAIN Plan[pl]
    BY PlanTable DEF PlanFact
<1>4. proc' = [proc EXCEPT ![p] = r]
    OBVIOUS
<1>. HIDE DEF r
<1>. QED
    BY <1>2, <1>3, <1>4, MoveTypes

LEMMA ReadJobMove ==
    ASSUME ProcTypes, NEW p \in Procs, NEW op, op \notin Ends, At(p, op),
           NEW st \in JobStatus, NEW n \in Nat, NEW b \in BOOLEAN,
           proc' = [proc EXCEPT ![p].step = @ + 1, ![p].seen = st,
                                ![p].retries = n, ![p].late = b]
    PROVE  ProcTypes'
<1> DEFINE r == [proc[p] EXCEPT !.step = @ + 1, !.seen = st, !.retries = n, !.late = b]
<1>1. /\ proc[p] \in ProcType /\ proc[p].job \in Jobs
      /\ proc[p].step + 1 \in Nat
      /\ proc[p].step + 1 \in DOMAIN Plan[proc[p].plan]
    BY NextStatement
<1>2. r \in ProcType /\ r.job \in Jobs /\ r.step \in DOMAIN Plan[r.plan]
    BY <1>1 DEF ProcType
<1>3. proc' = [proc EXCEPT ![p] = r]
    BY DEF ProcTypes
<1>. HIDE DEF r
<1>. QED
    BY <1>2, <1>3, MoveTypes

LEMMA ReadMessageMove ==
    ASSUME ProcTypes, NEW p \in Procs, NEW op, op \notin Ends, At(p, op),
           NEW m \in [status : MessageStatus, pid : Int], NEW d \in DraftStatus,
           proc' = [proc EXCEPT ![p].step = @ + 1, ![p].row = m, ![p].draft = d]
    PROVE  ProcTypes'
<1> DEFINE r == [proc[p] EXCEPT !.step = @ + 1, !.row = m, !.draft = d]
<1>1. /\ proc[p] \in ProcType /\ proc[p].job \in Jobs
      /\ proc[p].step + 1 \in Nat
      /\ proc[p].step + 1 \in DOMAIN Plan[proc[p].plan]
    BY NextStatement
<1>2. r \in ProcType /\ r.job \in Jobs /\ r.step \in DOMAIN Plan[r.plan]
    BY <1>1 DEF ProcType
<1>3. proc' = [proc EXCEPT ![p] = r]
    BY DEF ProcTypes
<1>. HIDE DEF r
<1>. QED
    BY <1>2, <1>3, MoveTypes

LEMMA ClaimMove ==
    ASSUME ProcTypes, NEW p \in Procs, NEW op, op \notin Ends, At(p, op),
           NEW b \in BOOLEAN,
           proc' = [proc EXCEPT ![p].step = @ + 1, ![p].owns = b]
    PROVE  ProcTypes'
<1> DEFINE r == [proc[p] EXCEPT !.step = @ + 1, !.owns = b]
<1>1. /\ proc[p] \in ProcType /\ proc[p].job \in Jobs
      /\ proc[p].step + 1 \in Nat
      /\ proc[p].step + 1 \in DOMAIN Plan[proc[p].plan]
    BY NextStatement
<1>2. r \in ProcType /\ r.job \in Jobs /\ r.step \in DOMAIN Plan[r.plan]
    BY <1>1 DEF ProcType
<1>3. proc' = [proc EXCEPT ![p] = r]
    BY DEF ProcTypes
<1>. HIDE DEF r
<1>. QED
    BY <1>2, <1>3, MoveTypes

LEMMA CheckMove ==
    ASSUME ProcTypes, NEW p \in Procs, NEW op, op \notin Ends, At(p, op),
           NEW n \in Nat,
           proc' = [proc EXCEPT ![p].step = @ + 1, ![p].retries = n]
    PROVE  ProcTypes'
<1> DEFINE r == [proc[p] EXCEPT !.step = @ + 1, !.retries = n]
<1>1. /\ proc[p] \in ProcType /\ proc[p].job \in Jobs
      /\ proc[p].step + 1 \in Nat
      /\ proc[p].step + 1 \in DOMAIN Plan[proc[p].plan]
    BY NextStatement
<1>2. r \in ProcType /\ r.job \in Jobs /\ r.step \in DOMAIN Plan[r.plan]
    BY <1>1 DEF ProcType
<1>3. proc' = [proc EXCEPT ![p] = r]
    BY DEF ProcTypes
<1>. HIDE DEF r
<1>. QED
    BY <1>2, <1>3, MoveTypes

LEMMA SeenMove ==
    ASSUME ProcTypes, NEW p \in Procs, NEW op, op \notin Ends, At(p, op),
           NEW st \in JobStatus,
           proc' = [proc EXCEPT ![p].step = @ + 1, ![p].seen = st]
    PROVE  ProcTypes'
<1> DEFINE r == [proc[p] EXCEPT !.step = @ + 1, !.seen = st]
<1>1. /\ proc[p] \in ProcType /\ proc[p].job \in Jobs
      /\ proc[p].step + 1 \in Nat
      /\ proc[p].step + 1 \in DOMAIN Plan[proc[p].plan]
    BY NextStatement
<1>2. r \in ProcType /\ r.job \in Jobs /\ r.step \in DOMAIN Plan[r.plan]
    BY <1>1 DEF ProcType
<1>3. proc' = [proc EXCEPT ![p] = r]
    BY DEF ProcTypes
<1>. HIDE DEF r
<1>. QED
    BY <1>2, <1>3, MoveTypes

LEMMA FollowWithTypes ==
    ASSUME ProcTypes, NEW p \in Procs, proc[p].plan # "idle",
           NEW pl \in PlanNames \ {"idle"}, NEW n \in Nat,
           FollowWith(p, pl, n)
    PROVE  ProcTypes'
<1> DEFINE r == [proc[p] EXCEPT !.plan = pl, !.step = 1, !.retries = n]
<1>1. proc[p] \in ProcType /\ proc[p].job \in Jobs
    BY DEF ProcTypes
<1>2. r \in ProcType /\ r.job \in Jobs /\ r.plan = pl /\ r.step = 1
    BY <1>1 DEF ProcType
<1>3. proc' = [proc EXCEPT ![p] = r]
    BY DEF ProcTypes, FollowWith
<1>4. 1 \in DOMAIN Plan[pl]
    BY PlanTable DEF PlanFact
<1>. HIDE DEF r
<1>. QED
    BY <1>2, <1>3, <1>4, MoveTypes

LEMMA SubmitMove ==
    ASSUME ProcTypes, NEW p \in Procs, proc[p].plan # "idle",
           NEW pl \in PlanNames \ {"idle"}, NEW k \in Nat,
           proc' = [proc EXCEPT ![p].plan = pl, ![p].step = 1, ![p].pid = k]
    PROVE  ProcTypes'
<1> DEFINE r == [proc[p] EXCEPT !.plan = pl, !.step = 1, !.pid = k]
<1>1. proc[p] \in ProcType /\ proc[p].job \in Jobs
    BY DEF ProcTypes
<1>2. r \in ProcType /\ r.job \in Jobs /\ r.plan = pl /\ r.step = 1
    BY <1>1 DEF ProcType
<1>3. proc' = [proc EXCEPT ![p] = r]
    BY DEF ProcTypes
<1>4. 1 \in DOMAIN Plan[pl]
    BY PlanTable DEF PlanFact
<1>. HIDE DEF r
<1>. QED
    BY <1>2, <1>3, <1>4, MoveTypes

LEMMA ReadOutcomeMove ==
    ASSUME ProcTypes, NEW p \in Procs, proc[p].plan # "idle",
           NEW pl \in PlanNames \ {"idle"}, NEW st \in JobStatus, NEW k \in Nat,
           proc' = [proc EXCEPT ![p].plan = pl, ![p].step = 1,
                                     ![p].seen = st, ![p].pid = k]
    PROVE  ProcTypes'
<1> DEFINE r == [proc[p] EXCEPT !.plan = pl, !.step = 1, !.seen = st, !.pid = k]
<1>1. proc[p] \in ProcType /\ proc[p].job \in Jobs
    BY DEF ProcTypes
<1>2. r \in ProcType /\ r.job \in Jobs /\ r.plan = pl /\ r.step = 1
    BY <1>1 DEF ProcType
<1>3. proc' = [proc EXCEPT ![p] = r]
    BY DEF ProcTypes
<1>4. 1 \in DOMAIN Plan[pl]
    BY PlanTable DEF PlanFact
<1>. HIDE DEF r
<1>. QED
    BY <1>2, <1>3, <1>4, MoveTypes

-----------------------------------------------------------------------------
(* The worker's own steps keep the types.                                  *)

LEMMA ReadJobTypes ==
    ASSUME TypeInv, NEW p \in Procs, ReadJob(p)
    PROVE  TypeInv'
<1> USE DEF TypeInv, TypeOK
<1>1. At(p, "ReadJob")
    BY DEF ReadJob
<1>2. job[JobOf(p)].status \in JobStatus /\ job[JobOf(p)].retries \in Nat
    BY <1>1, AtStatement DEF RowTypes
<1>. DEFINE b == JobOf(p) \in aged
<1>3. b \in BOOLEAN
    OBVIOUS
<1>4. proc' = [proc EXCEPT ![p].step = @ + 1, ![p].seen = job[JobOf(p)].status,
                           ![p].retries = job[JobOf(p)].retries, ![p].late = b]
    BY DEF ReadJob
<1>. HIDE DEF b
<1>5. ProcTypes'
    BY <1>1, <1>2, <1>3, <1>4, ReadJobMove DEF Ends
<1>. QED
    BY <1>5 DEF ReadJob, RowTypes, BillingTypes, WorldTypes,
                 rowVars, billingVars, worldVars

LEMMA ReadMessageTypes ==
    ASSUME TypeInv, NEW p \in Procs, ReadMessage(p)
    PROVE  TypeInv'
<1> USE DEF TypeInv, TypeOK
<1>1. At(p, "ReadMessage")
    BY DEF ReadMessage
<1>2. msg[JobOf(p)] \in [status : MessageStatus, pid : Int] /\ draft[JobOf(p)] \in DraftStatus
    BY <1>1, AtStatement DEF RowTypes
<1>3. ProcTypes'
    BY <1>1, <1>2, ReadMessageMove DEF ReadMessage, Ends
<1>. QED
    BY <1>3 DEF ReadMessage, RowTypes, BillingTypes, WorldTypes,
                 rowVars, billingVars, worldVars

LEMMA ReadEventsTypes ==
    ASSUME TypeInv, NEW p \in Procs, ReadEvents(p)
    PROVE  TypeInv'
<1> USE DEF TypeInv, TypeOK
<1>1. At(p, "ReadEvents")
    BY DEF ReadEvents
<1>2. JobOf(p) \in Jobs /\ proc[p].retries \in Nat
    BY <1>1, AtStatement DEF ProcType
<1>4. BranchPlan(p, events[JobOf(p)]) \in PlanNames \ {"idle"}
    BY DEF BranchPlan, ConvergePlan, PlanNames
<1>3. ProcTypes'
    BY <1>2, <1>4, StartTypes DEF ReadEvents
<1>. QED
    BY <1>3 DEF ReadEvents, RowTypes, BillingTypes, WorldTypes,
                 rowVars, billingVars, worldVars

LEMMA ClaimTypes ==
    ASSUME TypeInv, NEW p \in Procs, Claim(p)
    PROVE  TypeInv'
<1> USE DEF TypeInv, TypeOK
<1>1. At(p, "Claim")
    BY DEF Claim
<1>2. JobOf(p) \in Jobs /\ proc[p].plan # "idle"
    BY <1>1, AtStatement
<1>3. ProcTypes'
    <2>1. CASE job[JobOf(p)].status \in Claimable
        BY <1>1, <2>1, ClaimMove DEF Claim, Ends
    <2>2. CASE job[JobOf(p)].status \notin Claimable
        BY <1>2, <2>2, FollowTypes DEF Claim, PlanNames
    <2>. QED
        BY <2>1, <2>2
<1>4. RowTypes'
    BY <1>2 DEF Claim, RowTypes, JobStatus, JobError
<1>5. BillingTypes' /\ WorldTypes' /\ IsFiniteSet(ledger')
    BY DEF Claim, BillingTypes, WorldTypes, billingVars, worldVars
<1>. QED
    BY <1>3, <1>4, <1>5

LEMMA CheckTypes ==
    ASSUME TypeInv, NEW p \in Procs, Check(p)
    PROVE  TypeInv'
<1> USE DEF TypeInv, TypeOK
<1>1. At(p, "Check")
    BY DEF Check
<1>2. proc[p].plan # "idle" /\ job[JobOf(p)].retries \in Nat
    BY <1>1, AtStatement DEF RowTypes
<1>4. {"giveUp", "giveUpUnparsed", "retryLater"} \subseteq PlanNames \ {"idle"}
    BY DEF PlanNames
<1>3. ProcTypes'
    BY <1>1, <1>2, <1>4, CheckMove, FollowWithTypes DEF Check, Ends
<1>. QED
    BY <1>3 DEF Check, RowTypes, BillingTypes, WorldTypes,
                 rowVars, billingVars, worldVars

LEMMA DeliverLocallyTypes ==
    ASSUME TypeInv, NEW p \in Procs, DeliverLocally(p)
    PROVE  TypeInv'
<1> USE DEF TypeInv, TypeOK
<1>1. At(p, "DeliverLocally")
    BY DEF DeliverLocally
<1>2. JobOf(p) \in Jobs /\ proc[p].plan # "idle"
    BY <1>1, AtStatement
<1>3. ProcTypes'
    BY <1>1, <1>2, FollowTypes, AdvanceTypes DEF DeliverLocally, PlanNames, Ends
<1>. QED
    BY <1>3, <1>2 DEF DeliverLocally, RowTypes, BillingTypes, WorldTypes,
                 rowVars, billingVars, worldVars

LEMMA SubmitAcceptedTypes ==
    ASSUME TypeInv, NEW p \in Procs, SubmitAccepted(p)
    PROVE  TypeInv'
<1> USE DEF TypeInv, TypeOK
<1>1. At(p, "Submit")
    BY DEF SubmitAccepted
<1>2. JobOf(p) \in Jobs /\ proc[p].plan # "idle" /\ accepted[JobOf(p)] + 1 \in Nat
    BY <1>1, AtStatement DEF WorldTypes
<1>3. ProcTypes'
    BY <1>2, SubmitMove DEF SubmitAccepted, PlanNames
<1>. QED
    BY <1>3, <1>2 DEF SubmitAccepted, RowTypes, BillingTypes, WorldTypes,
                 rowVars, billingVars, worldVars

LEMMA CatchPlanName ==
    ASSUME NEW p \in Procs, NEW loaded \in {"job", "draft", "recipients"}
    PROVE  CatchPlan(p, loaded) \in PlanNames \ {"idle"}
    BY DEF CatchPlan, PlanNames

LEMMA SubmitRefusedTypes ==
    ASSUME TypeInv, NEW p \in Procs, SubmitRefused(p)
    PROVE  TypeInv'
<1> USE DEF TypeInv, TypeOK
<1>1. At(p, "Submit")
    BY DEF SubmitRefused
<1>3. ProcTypes'
    BY <1>1, AtStatement, CatchPlanName, FollowTypes DEF SubmitRefused
<1>. QED
    BY <1>3 DEF SubmitRefused, RowTypes, BillingTypes, WorldTypes,
                 rowVars, billingVars, worldVars

LEMMA SubmitAmbiguousTypes ==
    ASSUME TypeInv, NEW p \in Procs, SubmitAmbiguous(p)
    PROVE  TypeInv'
<1> USE DEF TypeInv, TypeOK
<1>1. At(p, "Submit")
    BY DEF SubmitAmbiguous
<1>2. JobOf(p) \in Jobs /\ proc[p].plan # "idle" /\ accepted[JobOf(p)] + 1 \in Nat
    BY <1>1, AtStatement DEF WorldTypes
<1>3. ProcTypes'
    BY <1>2, CatchPlanName, FollowTypes DEF SubmitAmbiguous
<1>. QED
    BY <1>3, <1>2 DEF SubmitAmbiguous, Counted, RowTypes, BillingTypes, WorldTypes,
                 rowVars, billingVars, worldVars

LEMMA MessageSentTypes ==
    ASSUME TypeInv, NEW p \in Procs, MessageSent(p)
    PROVE  TypeInv'
<1>1. At(p, "MessageSent")
    BY DEF MessageSent
<1>2. proc[p].pid \in Int
    BY <1>1, AtStatement DEF ProcType, TypeInv, TypeOK
<1>. QED
    BY <1>1, <1>2, WriteMessageTypes DEF MessageSent, MessageStatus, Ends

LEMMA JobFailedTypes ==
    ASSUME TypeInv, NEW p \in Procs, JobFailed(p)
    PROVE  TypeInv'
<1>1. At(p, "JobFailed")
    BY DEF JobFailed
<1>2. job[JobOf(p)].retries \in Nat
    BY <1>1, AtStatement DEF RowTypes, TypeInv, TypeOK
<1>. QED
    BY <1>1, <1>2, WriteJobTypes DEF JobFailed, JobStatus, JobError, Ends

LEMMA JobUncertainTypes ==
    ASSUME TypeInv, NEW p \in Procs, JobUncertain(p)
    PROVE  TypeInv'
<1>1. At(p, "JobUncertain")
    BY DEF JobUncertain
<1>2. job[JobOf(p)].retries \in Nat
    BY <1>1, AtStatement DEF RowTypes, TypeInv, TypeOK
<1>. QED
    BY <1>1, <1>2, WriteJobTypes DEF JobUncertain, JobStatus, JobError, Ends

LEMMA JobRetryBlindTypes ==
    ASSUME TypeInv, NEW p \in Procs, JobRetryBlind(p)
    PROVE  TypeInv'
<1>1. At(p, "JobRetryBlind")
    BY DEF JobRetryBlind
<1>2. job[JobOf(p)].retries \in Nat
    BY <1>1, AtStatement DEF RowTypes, TypeInv, TypeOK
<1>. QED
    BY <1>1, <1>2, WriteJobTypes DEF JobRetryBlind, JobStatus, JobError, Ends

LEMMA JobRetryTypes ==
    ASSUME TypeInv, NEW p \in Procs, JobRetry(p)
    PROVE  TypeInv'
<1>1. At(p, "JobRetry")
    BY DEF JobRetry
<1>2. proc[p].retries + 1 \in Nat
    BY <1>1, AtStatement DEF ProcType, TypeInv, TypeOK
<1>. QED
    BY <1>1, <1>2, WriteJobTypes DEF JobRetry, JobStatus, JobError, Ends

LEMMA JobExhaustedTypes ==
    ASSUME TypeInv, NEW p \in Procs, JobExhausted(p)
    PROVE  TypeInv'
<1>1. At(p, "JobExhausted")
    BY DEF JobExhausted
<1>2. proc[p].retries + 1 \in Nat
    BY <1>1, AtStatement DEF ProcType, TypeInv, TypeOK
<1>. QED
    BY <1>1, <1>2, WriteJobTypes DEF JobExhausted, JobStatus, JobError, Ends

LEMMA ReceiveTypes ==
    ASSUME TypeInv, NEW p \in Procs, NEW j \in Jobs, Receive(p, j)
    PROVE  TypeInv'
<1> USE DEF TypeInv, TypeOK
<1> DEFINE r == [IdleProc EXCEPT !.plan = "deliver", !.job = j]
<1>1. IdleProc \in ProcType /\ IdleProc.step = 1
    BY IdleType DEF IdleProc
<1>2. r \in ProcType /\ r.plan = "deliver" /\ r.job = j /\ r.step = 1
    BY <1>1 DEF ProcType, PlanNames
<1>3. 1 \in DOMAIN Plan["deliver"]
    BY PlanTable DEF PlanFact, PlanNames
<1>4. proc' = [proc EXCEPT ![p] = r]
    BY DEF Receive
<1>5. ProcTypes'
    <2>. HIDE DEF r
    <2>. QED
        BY <1>2, <1>3, <1>4, MoveTypes
<1>. QED
    BY <1>5 DEF Receive, RowTypes, BillingTypes, WorldTypes,
                rowVars, billingVars

LEMMA AckTypes ==
    ASSUME TypeInv, NEW p \in Procs, Ack(p)
    PROVE  TypeInv'
    BY FinishTypes DEF TypeInv, TypeOK, Ack, RowTypes, BillingTypes, WorldTypes,
                       rowVars, billingVars, worldVars

LEMMA RedeliverTypes ==
    ASSUME TypeInv, NEW p \in Procs, Redeliver(p)
    PROVE  TypeInv'
<1> USE DEF TypeInv, TypeOK
<1>1. JobOf(p) \in Jobs
    BY AtStatement DEF Redeliver
<1>2. ProcTypes'
    BY FinishTypes DEF Redeliver
<1>. QED
    BY <1>1, <1>2 DEF Redeliver, RowTypes, BillingTypes, WorldTypes, rowVars, billingVars

LEMMA WorkerCrashTypes ==
    ASSUME TypeInv, NEW p \in Procs, WorkerCrash(p)
    PROVE  TypeInv'
<1> USE DEF TypeInv, TypeOK
<1>1. JobOf(p) \in Jobs
    BY DEF WorkerCrash, ProcTypes, JobOf
<1>2. ProcTypes'
    BY FinishTypes DEF WorkerCrash
<1>. QED
    BY <1>1, <1>2 DEF WorkerCrash, Counted, RowTypes, BillingTypes, WorldTypes, rowVars, billingVars

LEMMA ReadFailsTypes ==
    ASSUME TypeInv, NEW p \in Procs, ReadFails(p)
    PROVE  TypeInv'
<1> USE DEF TypeInv, TypeOK
<1>1. ProcTypes'
    <2>1. \E pl \in PlanNames \ {"idle"} : Follow(p, pl)
        BY CatchPlanName DEF ReadFails, PlanNames
    <2>2. proc[p].plan # "idle"
        BY AtStatement DEF ReadFails
    <2>. QED
        BY <2>1, <2>2, FollowTypes
<1>. QED
    BY <1>1 DEF ReadFails, Counted, RowTypes, BillingTypes, WorldTypes, rowVars, billingVars

LEMMA WorkerWriteFailsTypes ==
    ASSUME TypeInv, NEW p \in Procs, WorkerWriteFails(p)
    PROVE  TypeInv'
<1> USE DEF TypeInv, TypeOK
<1> DEFINE op == Plan[proc[p].plan][proc[p].step]
<1>1. At(p, op) /\ op \notin {"Ack", "Redeliver"}
    BY DEF WorkerWriteFails, At
<1>2. proc[p].plan # "idle" /\ StepFact(proc[p].plan, proc[p].step, op)
    <2>. HIDE DEF op
    <2>. QED
        BY <1>1, AtStatement
<1>3. \/ \E pl \in PlanNames \ {"idle"} : Follow(p, pl)
      \/ op \notin Ends /\ Advance(p)
    BY <1>1, <1>2, CatchPlanName DEF WorkerWriteFails, StepFact, Ends, PlanNames
<1>4. ProcTypes'
    <2>. HIDE DEF op
    <2>. QED
        BY <1>1, <1>2, <1>3, FollowTypes, AdvanceTypes
<1>. QED
    BY <1>4 DEF WorkerWriteFails, Counted, RowTypes, BillingTypes, WorldTypes,
                rowVars, billingVars

LEMMA WorkerTypes ==
    ASSUME TypeInv, NEW w \in Procs, WorkerStep(w) \/ WorkerFault(w)
    PROVE  TypeInv'
    BY ReceiveTypes, AckTypes, RedeliverTypes, ReadJobTypes, ReadMessageTypes,
       ReadEventsTypes, ClaimTypes, CheckTypes, DeliverLocallyTypes,
       SubmitAcceptedTypes, SubmitRefusedTypes, MessageSentTypes, JobFailedTypes,
       JobUncertainTypes, JobRetryBlindTypes, JobRetryTypes, JobExhaustedTypes,
       SharedTypes, ReadFailsTypes, SubmitAmbiguousTypes, WorkerWriteFailsTypes,
       WorkerCrashTypes
    DEF WorkerStep, WorkerFault

LEMMA QueueTypes ==
    ASSUME TypeInv, NEW j \in Jobs, Duplicate(j) \/ Age(j)
    PROVE  TypeInv'
    BY DEF TypeInv, TypeOK, Duplicate, Age, Counted, RowTypes, BillingTypes, WorldTypes,
           ProcTypes, rowVars, billingVars, worldVars

-----------------------------------------------------------------------------
(* The webhook's own steps keep the types.                                 *)

LEMMA NotifyTypes ==
    ASSUME TypeInv, NEW p \in Procs, NEW j \in Jobs, NEW k \in 1..accepted[j],
           NEW e \in TerminalEvents, Notify(p, j, k, e)
    PROVE  TypeInv'
<1> USE DEF TypeInv, TypeOK
<1> DEFINE r == [IdleProc EXCEPT !.plan = "hook", !.job = j, !.pid = k, !.event = e]
<1>1. IdleProc \in ProcType /\ IdleProc.step = 1 /\ k \in Nat
    BY IdleType DEF IdleProc, WorldTypes
<1>2. r \in ProcType /\ r.plan = "hook" /\ r.job = j /\ r.step = 1
    BY <1>1 DEF ProcType, PlanNames
<1>3. 1 \in DOMAIN Plan["hook"]
    BY PlanTable DEF PlanFact, PlanNames
<1>4. proc' = [proc EXCEPT ![p] = r]
    BY DEF Notify
<1>5. ProcTypes'
    <2>. HIDE DEF r
    <2>. QED
        BY <1>2, <1>3, <1>4, MoveTypes
<1>. QED
    BY <1>5 DEF Notify, RowTypes, BillingTypes, WorldTypes, rowVars, billingVars, worldVars

LEMMA StoreEventTypes ==
    ASSUME TypeInv, NEW p \in Procs, StoreEvent(p)
    PROVE  TypeInv'
<1> USE DEF TypeInv, TypeOK
<1>1. JobOf(p) \in Jobs /\ proc[p].event \in TerminalEvents
    BY AtStatement DEF StoreEvent, ProcType
<1>2. ProcTypes'
    BY AdvanceTypes DEF StoreEvent, Ends
<1>. QED
    BY <1>1, <1>2 DEF StoreEvent, RowTypes, BillingTypes, WorldTypes, rowVars, billingVars

LEMMA BackfillTypes ==
    ASSUME TypeInv, NEW p \in Procs, Backfill(p)
    PROVE  TypeInv'
<1> USE DEF TypeInv, TypeOK
<1>1. JobOf(p) \in Jobs /\ proc[p].pid \in Int
    BY AtStatement DEF Backfill, ProcType
<1>2. ProcTypes'
    BY AdvanceTypes DEF Backfill, Ends
<1>. QED
    BY <1>1, <1>2 DEF Backfill, RowTypes, BillingTypes, WorldTypes, billingVars, worldVars

LEMMA ReadJobForEventTypes ==
    ASSUME TypeInv, NEW p \in Procs, ReadJobForEvent(p)
    PROVE  TypeInv'
<1> USE DEF TypeInv, TypeOK
<1>1. At(p, "ReadJobForEvent") /\ job[JobOf(p)].status \in JobStatus
    BY AtStatement DEF ReadJobForEvent, RowTypes
<1>2. ProcTypes'
    BY <1>1, SeenMove DEF ReadJobForEvent, Ends
<1>. QED
    BY <1>2 DEF ReadJobForEvent, RowTypes, BillingTypes, WorldTypes,
                rowVars, billingVars, worldVars

LEMMA ReadOutcomeTypes ==
    ASSUME TypeInv, NEW p \in Procs, ReadOutcome(p)
    PROVE  TypeInv'
<1> USE DEF TypeInv, TypeOK
<1>1. proc[p].plan # "idle" /\ OutcomePlan(p) \in PlanNames \ {"idle"}
    BY AtStatement DEF ReadOutcome, OutcomePlan, PlanNames
<1>2. ProcTypes'
    <2> DEFINE pl == OutcomePlan(p)   st == "none"   k == 0
    <2>1. pl \in PlanNames \ {"idle"} /\ st \in JobStatus /\ k \in Nat
        BY <1>1 DEF JobStatus
    <2>2. proc' = [proc EXCEPT ![p].plan = pl, ![p].step = 1, ![p].seen = st, ![p].pid = k]
        BY DEF ReadOutcome
    <2>. HIDE DEF pl, st, k
    <2>. QED
        BY <1>1, <2>1, <2>2, ReadOutcomeMove
<1>. QED
    BY <1>2 DEF ReadOutcome, RowTypes, BillingTypes, WorldTypes,
                rowVars, billingVars, worldVars

LEMMA JobBouncedTypes ==
    ASSUME TypeInv, NEW p \in Procs, JobBounced(p)
    PROVE  TypeInv'
<1>1. At(p, "JobBounced")
    BY DEF JobBounced
<1>2. job[JobOf(p)].retries \in Nat
    BY <1>1, AtStatement DEF RowTypes, TypeInv, TypeOK
<1>. QED
    BY <1>1, <1>2, WriteJobTypes DEF JobBounced, JobStatus, JobError, Ends

LEMMA SuppressTypes ==
    ASSUME TypeInv, NEW p \in Procs, Suppress(p)
    PROVE  TypeInv'
<1> USE DEF TypeInv, TypeOK
<1>1. JobOf(p) \in Jobs
    BY AtStatement DEF Suppress
<1>2. ProcTypes'
    BY AdvanceTypes DEF Suppress, Ends
<1>. QED
    BY <1>1, <1>2 DEF Suppress, RowTypes, BillingTypes, WorldTypes, rowVars, billingVars

LEMMA RespondTypes ==
    ASSUME TypeInv, NEW p \in Procs, Respond(p) \/ RespondOperator(p)
    PROVE  TypeInv'
    BY FinishTypes DEF TypeInv, TypeOK, Respond, RespondOperator, RowTypes,
                       BillingTypes, WorldTypes, rowVars, billingVars, worldVars

LEMMA HookFaultTypes ==
    ASSUME TypeInv, NEW p \in Procs, HookFault(p)
    PROVE  TypeInv'
<1> USE DEF TypeInv, TypeOK
<1> DEFINE op == Plan[proc[p].plan][proc[p].step]
<1>1. CASE HookCrash(p)
    BY <1>1, FinishTypes DEF HookCrash, Counted, RowTypes, BillingTypes, WorldTypes,
                             rowVars, billingVars
<1>2. CASE HookWriteFails(p)
    <2>1. At(p, op)
        BY <1>2 DEF HookWriteFails, At
    <2>2. \/ Finish(p)
          \/ op = "Capture" /\ Advance(p)
        BY <1>2 DEF HookWriteFails
    <2>4. "Capture" \notin Ends
        BY DEF Ends
    <2>3. ProcTypes'
        <3>. HIDE DEF op
        <3>. QED
            BY <2>1, <2>2, <2>4, FinishTypes, AdvanceTypes
    <2>. QED
        BY <1>2, <2>3 DEF HookWriteFails, Counted, RowTypes, BillingTypes, WorldTypes,
                          rowVars, billingVars
<1>. QED
    BY <1>1, <1>2 DEF HookFault

LEMMA HookTypes ==
    ASSUME TypeInv, NEW h \in Procs, HookNext(h)
    PROVE  TypeInv'
    BY NotifyTypes, StoreEventTypes, BackfillTypes, ReadJobForEventTypes,
       ReadOutcomeTypes, JobBouncedTypes, SuppressTypes, RespondTypes, SharedTypes,
       HookFaultTypes
    DEF HookNext, HookStep

-----------------------------------------------------------------------------
(* The operator's own steps keep the types.                                *)

LEMMA BeginTypes ==
    ASSUME TypeInv, NEW p \in Procs, NEW j \in Jobs, NEW pl \in PlanNames \ {"idle"},
           Begin(p, j, pl)
    PROVE  ProcTypes'
<1> USE DEF TypeInv, TypeOK
<1> DEFINE st == job[j].status   n == job[j].retries   err == job[j].error
           m == msg[j]           d == draft[j]
           r == [IdleProc EXCEPT !.plan = pl, !.job = j, !.seen = st, !.retries = n,
                                 !.error = err, !.row = m, !.draft = d]
<1>1. /\ st \in JobStatus /\ n \in Nat /\ err \in JobError
      /\ m \in [status : MessageStatus, pid : Int] /\ d \in DraftStatus
    BY DEF RowTypes
<1>2. IdleProc \in ProcType /\ IdleProc.step = 1
    BY IdleType DEF IdleProc
<1>3. proc' = [proc EXCEPT ![p] = r]
    BY DEF Begin
<1>. HIDE DEF st, n, err, m, d
<1>4. r \in ProcType /\ r.plan = pl /\ r.job = j /\ r.step = 1
    BY <1>1, <1>2 DEF ProcType
<1>5. 1 \in DOMAIN Plan[pl]
    BY PlanTable DEF PlanFact
<1>. HIDE DEF r
<1>. QED
    BY <1>3, <1>4, <1>5, MoveTypes

LEMMA BeginningTypes ==
    ASSUME TypeInv, NEW p \in Procs, NEW j \in Jobs,
           AdminRetry(p, j) \/ ResolveSent(p, j) \/ ResolveNotSent(p, j)
    PROVE  TypeInv'
<1> USE DEF TypeInv, TypeOK
<1>1. CASE AdminRetry(p, j)
    <2>1. ProcTypes'
        BY <1>1, BeginTypes DEF AdminRetry, PlanNames
    <2>. QED
        BY <1>1, <2>1 DEF AdminRetry, RowTypes, BillingTypes, WorldTypes,
                          rowVars, billingVars, worldVars
<1>2. ASSUME NEW pl \in PlanNames \ {"idle"},
             proc' = [proc EXCEPT ![p] = [IdleProc EXCEPT !.plan = pl, !.job = j]]
      PROVE  ProcTypes'
    <2> DEFINE r == [IdleProc EXCEPT !.plan = pl, !.job = j]
    <2>1. IdleProc \in ProcType /\ IdleProc.step = 1
        BY IdleType DEF IdleProc
    <2>2. r \in ProcType /\ r.plan = pl /\ r.job = j /\ r.step = 1
        BY <2>1 DEF ProcType
    <2>3. 1 \in DOMAIN Plan[pl]
        BY PlanTable DEF PlanFact
    <2>4. proc' = [proc EXCEPT ![p] = r]
        BY <1>2
    <2>. HIDE DEF r
    <2>. QED
        BY <2>2, <2>3, <2>4, MoveTypes
<1>3. {"resolveSent", "resolveNotSent"} \subseteq PlanNames \ {"idle"}
    BY DEF PlanNames
<1>4. CASE ResolveSent(p, j)
    <2>1. ProcTypes'
        BY <1>2, <1>3, <1>4 DEF ResolveSent
    <2>. QED
        BY <1>4, <2>1 DEF ResolveSent, RowTypes, BillingTypes, WorldTypes,
                          rowVars, billingVars
<1>5. CASE ResolveNotSent(p, j)
    <2>1. ProcTypes'
        BY <1>2, <1>3, <1>5 DEF ResolveNotSent
    <2>. QED
        BY <1>5, <2>1 DEF ResolveNotSent, RowTypes, BillingTypes, WorldTypes,
                          rowVars, billingVars, worldVars
<1>. QED
    BY <1>1, <1>4, <1>5

LEMMA ReserveTypes ==
    ASSUME TypeInv, NEW p \in Procs, Reserve(p)
    PROVE  TypeInv'
<1> USE DEF TypeInv, TypeOK
<1>1. At(p, "Reserve") /\ JobOf(p) \in Jobs
    BY AtStatement DEF Reserve
<1>2. ProcTypes'
    BY <1>1, AdvanceTypes, FinishTypes DEF Reserve, Ends
<1>3. BillingTypes'
    BY <1>1 DEF Reserve, BillingTypes
<1>. QED
    BY <1>2, <1>3 DEF Reserve, RowTypes, WorldTypes, rowVars, worldVars

LEMMA OperatorWriteTypes ==
    ASSUME TypeInv, NEW p \in Procs,
           \/ JobQueued(p) \/ MessageTasked(p) \/ DraftQueued(p)
           \/ RestoreJob(p) \/ RestoreMessage(p) \/ RestoreDraft(p) \/ JobNotSent(p)
    PROVE  TypeInv'
<1>1. \A op : At(p, op) =>
          /\ JobOf(p) \in Jobs /\ job[JobOf(p)].retries \in Nat
          /\ msg[JobOf(p)].pid \in Int /\ proc[p].seen \in JobStatus
          /\ proc[p].retries \in Nat /\ proc[p].error \in JobError
          /\ proc[p].row.status \in MessageStatus /\ proc[p].draft \in DraftStatus
    BY AtStatement DEF RowTypes, ProcType, TypeInv, TypeOK
<1> USE DEF Ends, JobStatus, JobError, MessageStatus, DraftStatus
<1>2. CASE JobQueued(p)
    <2>1. 0 \in Nat
        OBVIOUS
    <2>. QED
        BY <1>2, <2>1, WriteJobTypes DEF JobQueued
<1>3. CASE MessageTasked(p)
    BY <1>1, <1>3, WriteMessageTypes DEF MessageTasked
<1>4. CASE DraftQueued(p)
    BY <1>4, WriteDraftTypes DEF DraftQueued
<1>5. CASE RestoreJob(p)
    BY <1>1, <1>5, WriteJobTypes DEF RestoreJob
<1>6. CASE RestoreMessage(p)
    BY <1>1, <1>6, WriteMessageTypes DEF RestoreMessage
<1>7. CASE RestoreDraft(p)
    BY <1>1, <1>7, WriteDraftTypes DEF RestoreDraft
<1>8. CASE JobNotSent(p)
    BY <1>1, <1>8, WriteJobTypes DEF JobNotSent
<1>. QED
    BY <1>2, <1>3, <1>4, <1>5, <1>6, <1>7, <1>8

LEMMA EnqueueTypes ==
    ASSUME TypeInv, NEW p \in Procs, Enqueue(p)
    PROVE  TypeInv'
<1> USE DEF TypeInv, TypeOK
<1>1. JobOf(p) \in Jobs
    BY AtStatement DEF Enqueue
<1>2. ProcTypes'
    BY AdvanceTypes DEF Enqueue, Ends
<1>. QED
    BY <1>1, <1>2 DEF Enqueue, RowTypes, BillingTypes, WorldTypes, rowVars, billingVars

LEMMA OperatorFaultTypes ==
    ASSUME TypeInv, NEW p \in Procs, OperatorFault(p)
    PROVE  TypeInv'
<1> USE DEF TypeInv, TypeOK
<1> DEFINE op == Plan[proc[p].plan][proc[p].step]
<1>1. CASE OperatorCrash(p)
    BY <1>1, FinishTypes DEF OperatorCrash, Counted, RowTypes, BillingTypes, WorldTypes,
                             rowVars, billingVars
<1>2. CASE OperatorWriteFails(p)
    <2>1. At(p, op) /\ op # "Respond"
        BY <1>2 DEF OperatorWriteFails, At
    <2>2. StepFact(proc[p].plan, proc[p].step, op) /\ proc[p].plan # "idle"
        <3>. HIDE DEF op
        <3>. QED
            BY <2>1, AtStatement
    <2>3. \/ Finish(p)
          \/ Follow(p, "adminRollback")
          \/ op \notin Ends /\ Advance(p)
        BY <1>2, <2>1, <2>2 DEF OperatorWriteFails, StepFact, Ends
    <2>4. ProcTypes'
        <3>. HIDE DEF op
        <3>. QED
            BY <2>1, <2>2, <2>3, FinishTypes, FollowTypes, AdvanceTypes DEF PlanNames
    <2>. QED
        BY <1>2, <2>4 DEF OperatorWriteFails, Counted, RowTypes, BillingTypes, WorldTypes,
                          rowVars, billingVars
<1>. QED
    BY <1>1, <1>2 DEF OperatorFault

LEMMA OperatorTypes ==
    ASSUME TypeInv, NEW o \in Procs, OperatorStep(o) \/ OperatorFault(o)
    PROVE  TypeInv'
    BY BeginningTypes, ReserveTypes, OperatorWriteTypes, EnqueueTypes, RespondTypes,
       SharedTypes, OperatorFaultTypes
    DEF OperatorStep

-----------------------------------------------------------------------------
(* The theorem.                                                            *)

LEMMA EnqueueDraftSendTypes ==
    ASSUME TypeInv, NEW j \in Jobs, EnqueueDraftSend(j)
    PROVE  TypeInv'
<1> USE DEF TypeInv, TypeOK
<1>1. RowTypes'
    BY DEF EnqueueDraftSend, RowTypes, JobStatus, MessageStatus, DraftStatus
<1>2. BillingTypes'
    BY DEF EnqueueDraftSend, BillingTypes
<1>. QED
    BY <1>1, <1>2 DEF EnqueueDraftSend, WorldTypes, ProcTypes

LEMMA InitTypes == Init => TypeInv
<1> SUFFICES ASSUME Init PROVE TypeInv
    OBVIOUS
<1>1. RowTypes
    BY DEF Init, RowTypes, JobStatus, JobError, MessageStatus, DraftStatus
<1>2. BillingTypes /\ WorldTypes
    BY ConstantsAssumption DEF Init, BillingTypes, WorldTypes
<1>3. ProcTypes
    BY IdleType DEF Init, ProcTypes
<1>4. IsFiniteSet(ledger)
    BY FS_EmptySet DEF Init
<1>. QED
    BY <1>1, <1>2, <1>3, <1>4 DEF TypeInv, TypeOK

LEMMA NextTypes == TypeInv /\ [Next]_vars => TypeInv'
<1> SUFFICES ASSUME TypeInv, [Next]_vars PROVE TypeInv'
    OBVIOUS
<1>1. CASE UNCHANGED vars
    BY <1>1 DEF vars, rowVars, billingVars, worldVars, TypeInv, TypeOK, RowTypes,
                BillingTypes, WorldTypes, ProcTypes
<1>2. CASE Next
    BY <1>2, EnqueueDraftSendTypes, QueueTypes, WorkerTypes, HookTypes, OperatorTypes
    DEF Next, Procs
<1>. QED
    BY <1>1, <1>2

(* Type correctness: whatever is interleaved and whatever fails, every row *)
(* keeps to its schema, the reserved credits never fall below zero and no  *)
(* handler leaves its plan.                                                *)
THEOREM TypeCorrect == Spec => []TypeOK
<1>1. TypeInv => TypeOK
    BY DEF TypeInv
<1>. QED
    BY InitTypes, NextTypes, <1>1, PTL DEF Spec

-----------------------------------------------------------------------------
(* No debit without a send.                                                *)

(* The jobs that reached all their recipients, by the provider and into    *)
(* the local mailboxes, and those an operator declared sent.               *)
Reached(j) == /\ j \in External => accepted[j] > 0
              /\ j \in Internal => j \in inbox
Delivered == {j \in Jobs : Reached(j) \/ j \in attested}

(* The jobs the database shows as sent.                                    *)
Traced ==
    {j \in Jobs : \/ job[j].status = "sent"
                  \/ msg[j].status = "replied"
                  \/ msg[j].pid # 0
                  \/ events[j] # {}}

(* The handlers that take their job for sent: by their plan, or by what    *)
(* they read.                                                              *)
HasRead(r) == r.seen = "sent" \/ r.row.status = "replied" \/ r.row.pid # 0
Knowing ==
    {p \in Procs : /\ proc[p].plan # "idle"
                   /\ proc[p].plan \in EvidencePlans \/ HasRead(proc[p])}

(* A debit is appended only for a job with an external recipient, and an   *)
(* email submitted only when the local copies are delivered.               *)
Due(p) == /\ At(p, "AppendDebit") => proc[p].job \in External
          /\ At(p, "Submit") => (proc[p].job \in Internal => proc[p].job \in inbox)

RowsBacked == Traced \subseteq Delivered
HandlersBacked == \A p \in Knowing : proc[p].job \in Delivered
LedgerBacked == \A e \in ledger : e.reference \in External \intersect Delivered
StatementsDue == \A p \in Procs : Due(p)
CopiesFirst == \A j \in Internal : accepted[j] > 0 => j \in inbox

(* NoChargeWithoutSend and LocalCopiesPrecedeSent are not inductive: a     *)
(* debit is appended and a job written `sent` on the word of rows and of   *)
(* what a handler read earlier, so those must be backed too.               *)
ChargeInv ==
    /\ RowsBacked
    /\ HandlersBacked
    /\ LedgerBacked
    /\ StatementsDue
    /\ CopiesFirst

(* Nothing unsays that a job reached its recipients.                       *)
Kept == Delivered \subseteq Delivered' /\ inbox \subseteq inbox'

(* The acting handler is backed in its new place, the others stay.         *)
LEMMA MoveBacked ==
    ASSUME TypeInv, ChargeInv, Kept, NEW p \in Procs,
           \A q \in Procs \ {p} : proc'[q] = proc[q],
           p \in Knowing' => proc'[p].job \in Delivered',
           Due(p)'
    PROVE  HandlersBacked' /\ StatementsDue'
<1>1. ASSUME NEW q \in Knowing'
      PROVE  proc'[q].job \in Delivered'
    <2>1. CASE q = p
        BY <2>1
    <2>2. CASE q # p
        <3>1. q \in Knowing /\ proc'[q] = proc[q]
            BY <2>2 DEF Knowing
        <3>. QED
            BY <3>1 DEF ChargeInv, HandlersBacked, Kept
    <2>. QED
        BY <2>1, <2>2
<1>2. ASSUME NEW q \in Procs
      PROVE  Due(q)'
    <2>1. CASE q = p
        BY <2>1
    <2>2. CASE q # p
        BY <2>2 DEF ChargeInv, StatementsDue, Due, At, Kept
    <2>. QED
        BY <2>1, <2>2
<1>. QED
    BY <1>1, <1>2 DEF HandlersBacked, StatementsDue

(* A handler that is done knows nothing.                                   *)
LEMMA FinishBacked ==
    ASSUME TypeInv, ChargeInv, Kept, NEW p \in Procs, Finish(p)
    PROVE  HandlersBacked' /\ StatementsDue'
<1>1. proc'[p] = IdleProc /\ \A q \in Procs \ {p} : proc'[q] = proc[q]
    BY DEF Finish, TypeInv, TypeOK, ProcTypes
<1>2. proc'[p].plan = "idle"
    BY <1>1, IdleType
<1>3. DOMAIN Plan["idle"] = {}
    BY PlanTable DEF PlanFact, StepFact, PlanNames
<1>4. p \notin Knowing' /\ Due(p)'
    BY <1>2, <1>3 DEF Knowing, Due, At
<1>. QED
    BY <1>1, <1>4, MoveBacked

(* A handler that chooses a plan of evidence must be backed.               *)
LEMMA StartBacked ==
    ASSUME TypeInv, ChargeInv, Kept, NEW p \in Procs,
           NEW r, proc' = [proc EXCEPT ![p] = r],
           r.plan \in PlanNames \ {"idle"}, r.step = 1,
           \/ r.job \in Delivered'
           \/ r.plan \notin EvidencePlans /\ ~ HasRead(r)
    PROVE  HandlersBacked' /\ StatementsDue'
<1>1. proc'[p] = r /\ \A q \in Procs \ {p} : proc'[q] = proc[q]
    BY DEF TypeInv, TypeOK, ProcTypes
<1>2. p \in Knowing' => proc'[p].job \in Delivered'
    BY <1>1 DEF Knowing
<1>3. Due(p)'
    BY <1>1, PlanTable DEF Due, At, PlanFact
<1>. QED
    BY <1>1, <1>2, <1>3, MoveBacked

LEMMA FollowBacked ==
    ASSUME TypeInv, ChargeInv, Kept, NEW p \in Procs, NEW pl \in PlanNames \ {"idle"},
           proc[p].plan # "idle", Follow(p, pl),
           pl \in EvidencePlans => proc[p].job \in Delivered'
    PROVE  HandlersBacked' /\ StatementsDue'
<1> DEFINE r == [proc[p] EXCEPT !.plan = pl, !.step = 1]
<1>1. proc[p] \in ProcType
    BY DEF TypeInv, TypeOK, ProcTypes
<1>2. /\ r.plan = pl /\ r.step = 1 /\ r.job = proc[p].job
      /\ HasRead(r) <=> HasRead(proc[p])
    BY <1>1 DEF ProcType, HasRead
<1>3. proc' = [proc EXCEPT ![p] = r]
    BY DEF Follow, TypeInv, TypeOK, ProcTypes
<1>4. HasRead(proc[p]) => proc[p].job \in Delivered'
    BY DEF Knowing, ChargeInv, HandlersBacked, Kept
<1>. HIDE DEF r
<1>. QED
    BY <1>2, <1>3, <1>4, StartBacked

LEMMA SkipBacked ==
    ASSUME TypeInv, ChargeInv, Kept, NEW p \in Procs, NEW r \in ProcType,
           proc' = [proc EXCEPT ![p] = r],
           proc[p].plan # "idle", r.plan = proc[p].plan, r.job = proc[p].job,
           HasRead(r) => HasRead(proc[p]) \/ r.job \in Delivered',
           Due(p)'
    PROVE  HandlersBacked' /\ StatementsDue'
<1>1. proc'[p] = r /\ \A q \in Procs \ {p} : proc'[q] = proc[q]
    BY DEF TypeInv, TypeOK, ProcTypes
<1>2. p \in Knowing' => p \in Knowing \/ r.job \in Delivered'
    BY <1>1 DEF Knowing
<1>3. p \in Knowing => proc[p].job \in Delivered'
    BY DEF ChargeInv, HandlersBacked, Kept
<1>. QED
    BY <1>1, <1>2, <1>3, MoveBacked

(* Where the next statement is neither the append nor the submission.      *)
LEMMA NothingDue ==
    ASSUME TypeInv, NEW p \in Procs, NEW op, op \notin Ends, op \notin {"FindDebit", "DeliverLocally"}, At(p, op),
           proc'[p].plan = proc[p].plan, proc'[p].step = proc[p].step + 1
    PROVE  Due(p)'
    BY AtStatement DEF Due, At, StepFact, TypeInv, TypeOK

LEMMA AdvanceBacked ==
    ASSUME TypeInv, ChargeInv, Kept, NEW p \in Procs, NEW op,
           op \notin Ends, op \notin {"FindDebit", "DeliverLocally"}, At(p, op), Advance(p)
    PROVE  HandlersBacked' /\ StatementsDue'
<1> DEFINE r == [proc[p] EXCEPT !.step = @ + 1]
<1>1. proc[p] \in ProcType /\ proc[p].plan # "idle" /\ proc[p].step + 1 \in Nat
    BY AtStatement DEF TypeInv, TypeOK
<1>2. /\ r \in ProcType /\ r.plan = proc[p].plan /\ r.job = proc[p].job
      /\ r.step = proc[p].step + 1
      /\ HasRead(r) <=> HasRead(proc[p])
    BY <1>1 DEF ProcType, HasRead
<1>3. proc' = [proc EXCEPT ![p] = r] /\ proc'[p] = r
    BY DEF Advance, Skip, TypeInv, TypeOK, ProcTypes
<1>. HIDE DEF r
<1>4. Due(p)'
    BY <1>2, <1>3, NothingDue
<1>. QED
    BY <1>1, <1>2, <1>3, <1>4, SkipBacked

(* Steps that leave the evidence of acceptance alone.                      *)
LEMMA UntouchedKept ==
    ASSUME UNCHANGED <<accepted, attested, inbox>>
    PROVE  Delivered' = Delivered /\ Kept /\ (ChargeInv => CopiesFirst')
<1>1. Delivered' = Delivered
    BY DEF Delivered, Reached
<1>. QED
    BY <1>1 DEF Kept, ChargeInv, CopiesFirst

LEMMA UntouchedRows ==
    ASSUME ChargeInv, Kept, UNCHANGED <<job, msg, events>>
    PROVE  RowsBacked'
<1>1. Traced' = Traced
    BY DEF Traced
<1>. QED
    BY <1>1 DEF ChargeInv, Kept, RowsBacked

LEMMA UntouchedLedger ==
    ASSUME ChargeInv, Kept, UNCHANGED ledger
    PROVE  LedgerBacked'
    BY DEF ChargeInv, Kept, LedgerBacked

(* A step that at most moves its own handler.                              *)
LEMMA UntouchedBacked ==
    ASSUME ChargeInv, UNCHANGED <<job, msg, events, accepted, attested, inbox, ledger>>
    PROVE  /\ Delivered' = Delivered /\ Kept
           /\ HandlersBacked' /\ StatementsDue' => ChargeInv'
    BY UntouchedKept, UntouchedRows, UntouchedLedger DEF ChargeInv

(* What a handler in a plan of evidence knows.                             *)
LEMMA EvidenceBacked ==
    ASSUME TypeInv, ChargeInv, NEW p \in Procs, NEW op, At(p, op),
           proc[p].plan \in EvidencePlans
    PROVE  JobOf(p) \in Delivered
    BY AtStatement DEF TypeInv, TypeOK, ChargeInv, HandlersBacked, Knowing

(* The single-statement writes: a trace of a send only for a job delivered.*)
LEMMA WriteJobBacked ==
    ASSUME TypeInv, ChargeInv, NEW p \in Procs, NEW op,
           op \notin Ends, op \notin {"FindDebit", "DeliverLocally"}, At(p, op),
           NEW st, NEW n, NEW err, WriteJob(p, st, n, err),
           st = "sent" => JobOf(p) \in Delivered
    PROVE  ChargeInv'
<1>1. UNCHANGED <<msg, events, accepted, attested, inbox, ledger>>
    BY DEF WriteJob, billingVars, worldVars
<1>2. Delivered' = Delivered /\ Kept /\ CopiesFirst'
    BY <1>1, UntouchedKept
<1>3. HandlersBacked' /\ StatementsDue'
    BY <1>2, AdvanceBacked DEF WriteJob
<1>4. ASSUME NEW j \in Traced'
      PROVE  \/ j \in Traced
             \/ /\ j = JobOf(p)
                /\ st = "sent"
    BY <1>1 DEF Traced, WriteJob, TypeInv, TypeOK, RowTypes
<1>5. RowsBacked'
    BY <1>2, <1>4 DEF ChargeInv, RowsBacked
<1>. QED
    BY <1>1, <1>2, <1>3, <1>5, UntouchedLedger DEF ChargeInv

LEMMA WriteMessageBacked ==
    ASSUME TypeInv, ChargeInv, NEW p \in Procs, NEW op,
           op \notin Ends, op \notin {"FindDebit", "DeliverLocally"}, At(p, op),
           NEW st, NEW id, WriteMessage(p, st, id),
           \/ JobOf(p) \in Delivered
           \/ st # "replied" /\ id = msg[JobOf(p)].pid
    PROVE  ChargeInv'
<1>1. UNCHANGED <<job, events, accepted, attested, inbox, ledger>>
    BY DEF WriteMessage, billingVars, worldVars
<1>2. Delivered' = Delivered /\ Kept /\ CopiesFirst'
    BY <1>1, UntouchedKept
<1>3. HandlersBacked' /\ StatementsDue'
    BY <1>2, AdvanceBacked DEF WriteMessage
<1>4. ASSUME NEW j \in Traced'
      PROVE  \/ j \in Traced
             \/ j \in Delivered
    BY <1>1 DEF Traced, WriteMessage, TypeInv, TypeOK, RowTypes
<1>5. RowsBacked'
    BY <1>2, <1>4 DEF ChargeInv, RowsBacked
<1>. QED
    BY <1>1, <1>2, <1>3, <1>5, UntouchedLedger DEF ChargeInv

LEMMA WriteDraftBacked ==
    ASSUME TypeInv, ChargeInv, NEW p \in Procs, NEW op,
           op \notin Ends, op \notin {"FindDebit", "DeliverLocally"}, At(p, op),
           NEW st, WriteDraft(p, st)
    PROVE  ChargeInv'
<1>1. UNCHANGED <<job, msg, events, accepted, attested, inbox, ledger>>
    BY DEF WriteDraft, billingVars, worldVars
<1>. QED
    BY <1>1, UntouchedBacked, AdvanceBacked DEF WriteDraft

(* A handler that goes on and remembers a sum knows no more than before.   *)
LEMMA SumBacked ==
    ASSUME TypeInv, ChargeInv, NEW p \in Procs, NEW op,
           op \notin Ends, op \notin {"FindDebit", "DeliverLocally"}, At(p, op),
           NEW x \in Int, proc' = [proc EXCEPT ![p].step = @ + 1, ![p].sum = x],
           UNCHANGED <<job, msg, events, accepted, attested, inbox, ledger>>
    PROVE  ChargeInv'
<1> DEFINE r == [proc[p] EXCEPT !.step = @ + 1, !.sum = x]
<1>1. proc[p] \in ProcType /\ proc[p].plan # "idle" /\ proc[p].step + 1 \in Nat
    BY AtStatement DEF TypeInv, TypeOK
<1>2. /\ r \in ProcType /\ r.plan = proc[p].plan /\ r.job = proc[p].job
      /\ r.step = proc[p].step + 1
      /\ HasRead(r) <=> HasRead(proc[p])
    BY <1>1 DEF ProcType, HasRead
<1>3. proc' = [proc EXCEPT ![p] = r] /\ proc'[p] = r
    BY DEF TypeInv, TypeOK, ProcTypes
<1>. HIDE DEF r
<1>4. Due(p)'
    BY <1>2, <1>3, NothingDue
<1>5. Kept
    BY UntouchedBacked
<1>6. HandlersBacked' /\ StatementsDue'
    BY <1>1, <1>2, <1>3, <1>4, <1>5, SkipBacked
<1>. QED
    BY <1>6, UntouchedBacked

(* Looking for the debit leads to the append only for an external job.     *)
LEMMA FindDebitBacked ==
    ASSUME TypeInv, ChargeInv, NEW p \in Procs, FindDebit(p)
    PROVE  ChargeInv'
<1>1. /\ proc[p] \in ProcType /\ proc[p].plan # "idle"
      /\ StepFact(proc[p].plan, proc[p].step, "FindDebit")
      /\ JobOf(p) = proc[p].job
    BY AtStatement DEF TypeInv, TypeOK, FindDebit
<1>2. PICK n \in {1, 3, 5} : Skip(p, n) /\ (n = 1 => JobOf(p) \in External)
    BY DEF FindDebit
<1> DEFINE r == [proc[p] EXCEPT !.step = @ + n]
<1>3. /\ r \in ProcType /\ r.plan = proc[p].plan /\ r.job = proc[p].job
      /\ r.step = proc[p].step + n
      /\ HasRead(r) <=> HasRead(proc[p])
    BY <1>1 DEF ProcType, HasRead
<1>4. proc' = [proc EXCEPT ![p] = r] /\ proc'[p] = r
    BY <1>2 DEF Skip, TypeInv, TypeOK, ProcTypes
<1>. HIDE DEF r
<1>5. Due(p)'
    BY <1>1, <1>2, <1>3, <1>4 DEF Due, At, StepFact
<1>6. UNCHANGED <<job, msg, events, accepted, attested, inbox, ledger>>
    BY DEF FindDebit, rowVars, billingVars, worldVars
<1>7. HandlersBacked' /\ StatementsDue'
    BY <1>1, <1>2, <1>3, <1>4, <1>5, <1>6, UntouchedBacked, SkipBacked
<1>. QED
    BY <1>6, <1>7, UntouchedBacked

LEMMA AppendDebitBacked ==
    ASSUME TypeInv, ChargeInv, NEW p \in Procs, AppendDebit(p)
    PROVE  ChargeInv'
<1>1. At(p, "AppendDebit") /\ proc[p].plan \in SuccessPlans
    BY AtStatement DEF AppendDebit, StepFact, TypeInv, TypeOK
<1>2. JobOf(p) \in Delivered
    BY <1>1, EvidenceBacked DEF EvidencePlans
<1>3. JobOf(p) \in External
    BY <1>1 DEF ChargeInv, StatementsDue, Due, JobOf
<1>4. UNCHANGED <<job, msg, events, accepted, attested, inbox>>
    BY DEF AppendDebit, rowVars, worldVars
<1>5. Delivered' = Delivered /\ Kept /\ CopiesFirst'
    BY <1>4, UntouchedKept
<1>6. \A e \in ledger' : e \in ledger \/ e.reference = JobOf(p)
    BY DEF AppendDebit
<1>7. LedgerBacked'
    BY <1>2, <1>3, <1>5, <1>6 DEF ChargeInv, LedgerBacked
<1>8. HandlersBacked' /\ StatementsDue'
    BY <1>5, AdvanceBacked DEF AppendDebit, Ends
<1>. QED
    BY <1>4, <1>5, <1>7, <1>8, UntouchedRows DEF ChargeInv

LEMMA SharedBacked ==
    ASSUME TypeInv, ChargeInv, NEW p \in Procs, SharedStep(p)
    PROVE  ChargeInv'
<1>1. CASE JobSent(p)
    <2>1. At(p, "JobSent") /\ proc[p].plan \in EvidencePlans
        BY <1>1, AtStatement DEF JobSent, StepFact, EvidencePlans, TypeInv, TypeOK
    <2>. QED
        BY <1>1, <2>1, EvidenceBacked, WriteJobBacked DEF JobSent, Ends
<1>2. CASE MessageReplied(p)
    <2>1. At(p, "MessageReplied") /\ proc[p].plan \in EvidencePlans
        BY <1>2, AtStatement DEF MessageReplied, StepFact, EvidencePlans, TypeInv, TypeOK
    <2>. QED
        BY <1>2, <2>1, EvidenceBacked, WriteMessageBacked DEF MessageReplied, Ends
<1>3. CASE MessageFailed(p)
    BY <1>3, WriteMessageBacked DEF MessageFailed, Ends
<1>4. CASE DraftSent(p)
    BY <1>4, WriteDraftBacked DEF DraftSent, Ends
<1>5. CASE DraftFailed(p)
    BY <1>5, WriteDraftBacked DEF DraftFailed, Ends
<1>6. CASE FindDebit(p)
    BY <1>6, FindDebitBacked
<1>7. CASE AppendDebit(p)
    BY <1>7, AppendDebitBacked
<1>8. CASE Capture(p)
    BY <1>8, UntouchedBacked, AdvanceBacked DEF Capture, Ends, rowVars, worldVars
<1>9. CASE ReadLedger(p)
    BY <1>9, LedgerSize, SumBacked DEF ReadLedger, Ends, rowVars, billingVars, worldVars
<1>10. CASE WriteAvailable(p)
    <2>1. /\ At(p, "WriteAvailable")
          /\ proc' = [proc EXCEPT ![p].step = @ + 1, ![p].sum = 0]
          /\ UNCHANGED <<job, msg, events, accepted, attested, inbox, ledger>>
        BY <1>10 DEF WriteAvailable, rowVars, worldVars
    <2>2. "WriteAvailable" \notin Ends /\ 0 \in Int
        BY DEF Ends
    <2>. QED
        BY <2>1, <2>2, SumBacked
<1>11. CASE Release(p)
    BY <1>11, UntouchedBacked, AdvanceBacked DEF Release, Ends, rowVars, worldVars
<1>. QED
    BY <1>1, <1>2, <1>3, <1>4, <1>5, <1>6, <1>7, <1>8, <1>9, <1>10, <1>11 DEF SharedStep

-----------------------------------------------------------------------------
(* The worker's own steps keep ChargeInv.                                  *)

LEMMA ReceiveBacked ==
    ASSUME TypeInv, ChargeInv, NEW p \in Procs, NEW j \in Jobs, Receive(p, j)
    PROVE  ChargeInv'
<1> DEFINE r == [IdleProc EXCEPT !.plan = "deliver", !.job = j]
<1>1. /\ r.plan \in PlanNames \ {"idle"} /\ r.step = 1
      /\ r.plan \notin EvidencePlans
      /\ ~ HasRead(r)
    BY DEF IdleProc, HasRead, PlanNames, EvidencePlans, SuccessPlans
<1>2. /\ proc' = [proc EXCEPT ![p] = r]
      /\ UNCHANGED <<job, msg, events, accepted, attested, inbox, ledger>>
    BY DEF Receive, rowVars, billingVars
<1>. HIDE DEF r
<1>3. HandlersBacked' /\ StatementsDue'
    BY <1>1, <1>2, UntouchedBacked, StartBacked
<1>. QED
    BY <1>2, <1>3, UntouchedBacked

LEMMA QuitBacked ==
    ASSUME TypeInv, ChargeInv, NEW p \in Procs, Finish(p),
           UNCHANGED <<job, msg, events, accepted, attested, inbox, ledger>>
    PROVE  ChargeInv'
    BY UntouchedBacked, FinishBacked

LEMMA ReadJobBacked ==
    ASSUME TypeInv, ChargeInv, NEW p \in Procs, ReadJob(p)
    PROVE  ChargeInv'
<1> DEFINE j == JobOf(p)
           b == j \in aged
           r == [proc[p] EXCEPT !.step = @ + 1, !.seen = job[j].status,
                                !.retries = job[j].retries, !.late = b]
<1>1. At(p, "ReadJob") /\ "ReadJob" \notin Ends
    BY DEF ReadJob, Ends
<1>2. /\ proc[p] \in ProcType /\ proc[p].plan # "idle" /\ proc[p].step + 1 \in Nat
      /\ j \in Jobs /\ j = proc[p].job
    BY <1>1, AtStatement DEF TypeInv, TypeOK
<1>3. job[j].status \in JobStatus /\ job[j].retries \in Nat
    BY <1>2 DEF TypeInv, TypeOK, RowTypes
<1>4. job[j].status = "sent" => j \in Delivered
    BY <1>2 DEF ChargeInv, RowsBacked, Traced
<1>5. /\ proc' = [proc EXCEPT ![p] = r]
      /\ UNCHANGED <<job, msg, events, accepted, attested, inbox, ledger>>
    BY DEF ReadJob, rowVars, billingVars, worldVars, TypeInv, TypeOK, ProcTypes
<1>0. b \in BOOLEAN
    OBVIOUS
<1>. HIDE DEF j, b
<1>6. /\ r \in ProcType /\ r.plan = proc[p].plan /\ r.job = j
      /\ r.step = proc[p].step + 1
      /\ HasRead(r) => HasRead(proc[p]) \/ j \in Delivered
    BY <1>0, <1>2, <1>3, <1>4 DEF ProcType, HasRead
<1>. HIDE DEF r
<1>7. proc'[p] = r
    BY <1>5 DEF TypeInv, TypeOK, ProcTypes
<1>8. Due(p)'
    BY <1>1, <1>6, <1>7, NothingDue
<1>9. HandlersBacked' /\ StatementsDue'
    BY <1>2, <1>5, <1>6, <1>8, UntouchedBacked, SkipBacked
<1>. QED
    BY <1>5, <1>9, UntouchedBacked

LEMMA ReadMessageBacked ==
    ASSUME TypeInv, ChargeInv, NEW p \in Procs, ReadMessage(p)
    PROVE  ChargeInv'
<1> DEFINE j == JobOf(p)
           r == [proc[p] EXCEPT !.step = @ + 1, !.row = msg[j], !.draft = draft[j]]
<1>1. At(p, "ReadMessage") /\ "ReadMessage" \notin Ends
    BY DEF ReadMessage, Ends
<1>2. /\ proc[p] \in ProcType /\ proc[p].plan # "idle" /\ proc[p].step + 1 \in Nat
      /\ j \in Jobs /\ j = proc[p].job
    BY <1>1, AtStatement DEF TypeInv, TypeOK
<1>3. msg[j] \in [status : MessageStatus, pid : Int] /\ draft[j] \in DraftStatus
    BY <1>2 DEF TypeInv, TypeOK, RowTypes
<1>4. msg[j].status = "replied" \/ msg[j].pid # 0 => j \in Delivered
    BY <1>2 DEF ChargeInv, RowsBacked, Traced
<1>5. /\ proc' = [proc EXCEPT ![p] = r]
      /\ UNCHANGED <<job, msg, events, accepted, attested, inbox, ledger>>
    BY DEF ReadMessage, rowVars, billingVars, worldVars, TypeInv, TypeOK, ProcTypes
<1>. HIDE DEF j
<1>6. /\ r \in ProcType /\ r.plan = proc[p].plan /\ r.job = j
      /\ r.step = proc[p].step + 1
      /\ HasRead(r) => HasRead(proc[p]) \/ j \in Delivered
    BY <1>2, <1>3, <1>4 DEF ProcType, HasRead
<1>. HIDE DEF r
<1>7. proc'[p] = r
    BY <1>5 DEF TypeInv, TypeOK, ProcTypes
<1>8. Due(p)'
    BY <1>1, <1>6, <1>7, NothingDue
<1>9. HandlersBacked' /\ StatementsDue'
    BY <1>2, <1>5, <1>6, <1>8, UntouchedBacked, SkipBacked
<1>. QED
    BY <1>5, <1>9, UntouchedBacked

(* A branch of evidence is taken on evidence.                              *)
LEMMA BranchBacked ==
    ASSUME TypeInv, ChargeInv, NEW p \in Procs, At(p, "ReadEvents"),
           BranchPlan(p, events[JobOf(p)]) \in EvidencePlans
    PROVE  JobOf(p) \in Delivered
<1>1. proc[p].plan # "idle" /\ JobOf(p) \in Jobs /\ JobOf(p) = proc[p].job
    BY AtStatement DEF TypeInv, TypeOK
<1>2. HasRead(proc[p]) \/ "delivery" \in events[JobOf(p)]
    BY DEF BranchPlan, HasEvidence, Outcome, HasRead, EvidencePlans, SuccessPlans
<1>. QED
    BY <1>1, <1>2 DEF ChargeInv, HandlersBacked, Knowing, RowsBacked, Traced

LEMMA ReadEventsBacked ==
    ASSUME TypeInv, ChargeInv, NEW p \in Procs, ReadEvents(p)
    PROVE  ChargeInv'
<1> DEFINE pl == BranchPlan(p, events[JobOf(p)])
           j == JobOf(p)
           n == proc[p].retries
           r == [IdleProc EXCEPT !.plan = pl, !.job = j, !.retries = n]
<1>1. /\ pl \in PlanNames \ {"idle"}
      /\ pl \in EvidencePlans => j \in Delivered
    BY BranchBacked DEF ReadEvents, BranchPlan, ConvergePlan, PlanNames
<1>2. /\ proc' = [proc EXCEPT ![p] = r]
      /\ UNCHANGED <<job, msg, events, accepted, attested, inbox, ledger>>
    BY DEF ReadEvents, rowVars, billingVars, worldVars
<1>. HIDE DEF pl, j, n
<1>3. r.plan = pl /\ r.step = 1 /\ r.job = j /\ ~ HasRead(r)
    BY DEF IdleProc, HasRead
<1>. HIDE DEF r
<1>4. HandlersBacked' /\ StatementsDue'
    BY <1>1, <1>2, <1>3, UntouchedBacked, StartBacked
<1>. QED
    BY <1>2, <1>4, UntouchedBacked

LEMMA ClaimBacked ==
    ASSUME TypeInv, ChargeInv, NEW p \in Procs, Claim(p)
    PROVE  ChargeInv'
<1> DEFINE r == [proc[p] EXCEPT !.step = @ + 1, !.owns = TRUE]
<1>1. At(p, "Claim") /\ "Claim" \notin Ends
    BY DEF Claim, Ends
<1>2. /\ proc[p] \in ProcType /\ proc[p].plan # "idle" /\ proc[p].step + 1 \in Nat
      /\ JobOf(p) \in Jobs
    BY <1>1, AtStatement DEF TypeInv, TypeOK
<1>3. UNCHANGED <<msg, events, accepted, attested, inbox, ledger>>
    BY DEF Claim, billingVars, worldVars
<1>4. Delivered' = Delivered /\ Kept /\ CopiesFirst'
    BY <1>3, UntouchedKept
<1>5. RowsBacked'
    <2>1. job' = job \/ job' = [job EXCEPT ![JobOf(p)].status = "sending",
                                           ![JobOf(p)].error = "none"]
        BY DEF Claim
    <2>2. \A j \in Jobs : job'[j].status = "sent" => job[j].status = "sent"
        BY <1>2, <2>1 DEF TypeInv, TypeOK, RowTypes
    <2>3. Traced' \subseteq Traced
        BY <1>3, <2>2 DEF Traced
    <2>. QED
        BY <1>4, <2>3 DEF ChargeInv, RowsBacked
<1>6. HandlersBacked' /\ StatementsDue'
    <2>1. CASE Follow(p, "ack")
        BY <1>2, <1>4, <2>1, FollowBacked DEF PlanNames, EvidencePlans, SuccessPlans
    <2>2. CASE proc' = [proc EXCEPT ![p].step = @ + 1, ![p].owns = TRUE]
        <3>1. /\ r \in ProcType /\ r.plan = proc[p].plan /\ r.job = proc[p].job
              /\ r.step = proc[p].step + 1
              /\ HasRead(r) <=> HasRead(proc[p])
            BY <1>2 DEF ProcType, HasRead
        <3>2. proc' = [proc EXCEPT ![p] = r] /\ proc'[p] = r
            BY <2>2 DEF TypeInv, TypeOK, ProcTypes
        <3>. HIDE DEF r
        <3>3. Due(p)'
            BY <1>1, <3>1, <3>2, NothingDue
        <3>. QED
            BY <1>2, <1>4, <3>1, <3>2, <3>3, SkipBacked
    <2>. QED
        BY <2>1, <2>2 DEF Claim
<1>. QED
    BY <1>3, <1>4, <1>5, <1>6, UntouchedLedger DEF ChargeInv

(* The catch block and the plans that refuse or wait rest on no evidence.  *)
LEMMA FollowUntouched ==
    ASSUME TypeInv, ChargeInv, NEW p \in Procs, proc[p].plan # "idle",
           NEW pl \in PlanNames \ {"idle"}, Follow(p, pl),
           pl \in EvidencePlans => JobOf(p) \in Delivered,
           UNCHANGED <<job, msg, events, accepted, attested, inbox, ledger>>
    PROVE  ChargeInv'
<1>1. Delivered' = Delivered /\ Kept
    BY UntouchedBacked
<1>2. HandlersBacked' /\ StatementsDue'
    BY <1>1, FollowBacked DEF JobOf
<1>. QED
    BY <1>2, UntouchedBacked

LEMMA FollowWithUntouched ==
    ASSUME TypeInv, ChargeInv, NEW p \in Procs, proc[p].plan # "idle",
           NEW pl \in PlanNames \ {"idle"}, NEW n, FollowWith(p, pl, n),
           pl \notin EvidencePlans,
           UNCHANGED <<job, msg, events, accepted, attested, inbox, ledger>>
    PROVE  ChargeInv'
<1> DEFINE r == [proc[p] EXCEPT !.plan = pl, !.step = 1, !.retries = n]
<1>1. proc[p] \in ProcType
    BY DEF TypeInv, TypeOK, ProcTypes
<1>2. /\ r.plan = pl /\ r.step = 1 /\ r.job = proc[p].job
      /\ HasRead(r) <=> HasRead(proc[p])
    BY <1>1 DEF ProcType, HasRead
<1>3. proc' = [proc EXCEPT ![p] = r]
    BY DEF FollowWith, TypeInv, TypeOK, ProcTypes
<1>4. HasRead(proc[p]) => proc[p].job \in Delivered
    BY DEF Knowing, ChargeInv, HandlersBacked
<1>. HIDE DEF r
<1>5. HandlersBacked' /\ StatementsDue'
    BY <1>2, <1>3, <1>4, UntouchedBacked, StartBacked
<1>. QED
    BY <1>5, UntouchedBacked

LEMMA CheckBacked ==
    ASSUME TypeInv, ChargeInv, NEW p \in Procs, Check(p)
    PROVE  ChargeInv'
<1> DEFINE n == job[JobOf(p)].retries
           r == [proc[p] EXCEPT !.step = @ + 1, !.retries = n]
<1>1. At(p, "Check") /\ "Check" \notin Ends
    BY DEF Check, Ends
<1>2. /\ proc[p] \in ProcType /\ proc[p].plan # "idle" /\ proc[p].step + 1 \in Nat
      /\ n \in Nat
    BY <1>1, AtStatement DEF TypeInv, TypeOK, RowTypes
<1>3. UNCHANGED <<job, msg, events, accepted, attested, inbox, ledger>>
    BY DEF Check, rowVars, billingVars, worldVars
<1>4. CASE \E pl \in {"giveUp", "giveUpUnparsed", "retryLater"} : FollowWith(p, pl, n)
    <2>1. PICK pl \in {"giveUp", "giveUpUnparsed", "retryLater"} : FollowWith(p, pl, n)
        BY <1>4
    <2>2. pl \in PlanNames \ {"idle"} /\ pl \notin EvidencePlans
        BY DEF PlanNames, EvidencePlans, SuccessPlans
    <2>. HIDE DEF n
    <2>. QED
        BY <1>2, <1>3, <2>1, <2>2, FollowWithUntouched
<1>5. CASE proc' = [proc EXCEPT ![p].step = @ + 1, ![p].retries = n]
    <2>1. /\ r \in ProcType /\ r.plan = proc[p].plan /\ r.job = proc[p].job
          /\ r.step = proc[p].step + 1
          /\ HasRead(r) <=> HasRead(proc[p])
        <3>. HIDE DEF n
        <3>. QED
            BY <1>2 DEF ProcType, HasRead
    <2>2. proc' = [proc EXCEPT ![p] = r] /\ proc'[p] = r
        BY <1>5 DEF TypeInv, TypeOK, ProcTypes
    <2>. HIDE DEF r
    <2>3. Due(p)'
        BY <1>1, <2>1, <2>2, NothingDue
    <2>4. HandlersBacked' /\ StatementsDue'
        BY <1>2, <1>3, <2>1, <2>2, <2>3, UntouchedBacked, SkipBacked
    <2>. QED
        BY <1>3, <2>4, UntouchedBacked
<1>. QED
    BY <1>4, <1>5 DEF Check

(* A job without external recipients has no email to be accepted.          *)
LEMMA DeliverLocallyBacked ==
    ASSUME TypeInv, ChargeInv, NEW p \in Procs, DeliverLocally(p)
    PROVE  ChargeInv'
<1>1. At(p, "DeliverLocally") /\ "DeliverLocally" \notin Ends
    BY DEF DeliverLocally, Ends
<1>2. proc[p].plan # "idle" /\ JobOf(p) \in Jobs
    BY <1>1, AtStatement DEF TypeInv, TypeOK
<1>3. /\ UNCHANGED <<job, msg, events, accepted, attested, ledger>>
      /\ inbox \subseteq inbox'
      /\ JobOf(p) \in Internal => JobOf(p) \in inbox'
    BY DEF DeliverLocally, rowVars, billingVars
<1>4. Kept /\ CopiesFirst'
    BY <1>3 DEF Kept, Delivered, Reached, ChargeInv, CopiesFirst
<1>5. RowsBacked' /\ LedgerBacked'
    BY <1>3, <1>4, UntouchedRows, UntouchedLedger
<1>6. HandlersBacked' /\ StatementsDue'
    <2>1. CASE JobOf(p) \in External
        <3> DEFINE r == [proc[p] EXCEPT !.step = @ + 1]
        <3>1. /\ proc[p] \in ProcType /\ proc[p].step + 1 \in Nat
              /\ proc[p].job = JobOf(p)
              /\ Plan[proc[p].plan][proc[p].step + 1] # "AppendDebit"
            BY <1>1, AtStatement, NextStatement DEF StepFact, TypeInv, TypeOK
        <3>2. /\ r \in ProcType /\ r.plan = proc[p].plan /\ r.job = JobOf(p)
              /\ r.step = proc[p].step + 1
              /\ HasRead(r) <=> HasRead(proc[p])
            BY <3>1 DEF ProcType, HasRead
        <3>3. proc' = [proc EXCEPT ![p] = r] /\ proc'[p] = r
            BY <2>1 DEF DeliverLocally, Advance, Skip, TypeInv, TypeOK, ProcTypes
        <3>. HIDE DEF r
        <3>4. Due(p)'
            BY <1>3, <3>1, <3>2, <3>3 DEF Due, At
        <3>. QED
            BY <1>2, <1>4, <3>1, <3>2, <3>3, <3>4, SkipBacked
    <2>2. CASE JobOf(p) \notin External
        <3>1. JobOf(p) \in Delivered'
            BY <1>2, <1>3, <2>2 DEF Delivered, Reached
        <3>. QED
            BY <1>2, <1>4, <2>2, <3>1, FollowBacked DEF DeliverLocally, PlanNames, JobOf
    <2>. QED
        BY <2>1, <2>2
<1>. QED
    BY <1>4, <1>5, <1>6 DEF ChargeInv

(* The provider accepts the email: the job is delivered from then on.      *)
LEMMA AcceptedKept ==
    ASSUME TypeInv, ChargeInv, NEW j \in Jobs, j \in Internal => j \in inbox,
           accepted' = [accepted EXCEPT ![j] = @ + 1],
           UNCHANGED <<job, msg, events, attested, inbox, ledger>>
    PROVE  /\ Kept /\ j \in Delivered'
           /\ HandlersBacked' /\ StatementsDue' => ChargeInv'
<1>1. \A i \in Jobs : accepted[i] > 0 => accepted'[i] > 0
    BY DEF TypeInv, TypeOK, WorldTypes
<1>2. accepted'[j] > 0
    BY DEF TypeInv, TypeOK, WorldTypes
<1>3. Kept /\ j \in Delivered'
    BY <1>1, <1>2 DEF Kept, Delivered, Reached
<1>4. \A i \in Jobs \ {j} : accepted'[i] = accepted[i]
    BY DEF TypeInv, TypeOK, WorldTypes
<1>5. CopiesFirst'
    BY <1>4, ConstantsAssumption DEF ChargeInv, CopiesFirst
<1>. QED
    BY <1>3, <1>5, UntouchedRows, UntouchedLedger DEF ChargeInv

LEMMA SubmitBacked ==
    ASSUME TypeInv, ChargeInv, NEW p \in Procs,
           SubmitAccepted(p) \/ SubmitRefused(p) \/ SubmitAmbiguous(p)
    PROVE  ChargeInv'
<1>1. At(p, "Submit")
    BY DEF SubmitAccepted, SubmitRefused, SubmitAmbiguous
<1>2. /\ proc[p] \in ProcType /\ proc[p].plan # "idle"
      /\ JobOf(p) \in Jobs /\ JobOf(p) = proc[p].job
      /\ JobOf(p) \in Internal => JobOf(p) \in inbox
    BY <1>1, AtStatement DEF TypeInv, TypeOK, ChargeInv, StatementsDue, Due
<1>3. /\ CatchPlan(p, "recipients") \in PlanNames \ {"idle"}
      /\ CatchPlan(p, "recipients") \notin EvidencePlans
    BY DEF CatchPlan, PlanNames, EvidencePlans, SuccessPlans
<1>4. CASE SubmitAccepted(p)
    <2> DEFINE k == accepted[JobOf(p)] + 1
               r == [proc[p] EXCEPT !.plan = "accepted", !.step = 1, !.pid = k]
    <2>1. Kept /\ JobOf(p) \in Delivered' /\ (HandlersBacked' /\ StatementsDue' => ChargeInv')
        BY <1>2, <1>4, AcceptedKept DEF SubmitAccepted, rowVars, billingVars
    <2>2. r.plan = "accepted" /\ r.step = 1 /\ r.job = JobOf(p)
        <3>. HIDE DEF k
        <3>. QED
            BY <1>2 DEF ProcType
    <2>3. proc' = [proc EXCEPT ![p] = r]
        BY <1>4 DEF SubmitAccepted, TypeInv, TypeOK, ProcTypes
    <2>. HIDE DEF r
    <2>4. HandlersBacked' /\ StatementsDue'
        BY <2>1, <2>2, <2>3, StartBacked DEF PlanNames
    <2>. QED
        BY <2>1, <2>4
<1>5. CASE SubmitRefused(p)
    BY <1>2, <1>3, <1>5, FollowUntouched DEF SubmitRefused, rowVars, billingVars, worldVars
<1>6. CASE SubmitAmbiguous(p)
    <2>1. Kept /\ (HandlersBacked' /\ StatementsDue' => ChargeInv')
        BY <1>2, <1>6, AcceptedKept DEF SubmitAmbiguous, rowVars, billingVars
    <2>2. HandlersBacked' /\ StatementsDue'
        BY <1>2, <1>3, <1>6, <2>1, FollowBacked DEF SubmitAmbiguous
    <2>. QED
        BY <2>1, <2>2
<1>. QED
    BY <1>4, <1>5, <1>6

LEMMA AdvanceUntouched ==
    ASSUME TypeInv, ChargeInv, NEW p \in Procs, NEW op,
           op \notin Ends, op \notin {"FindDebit", "DeliverLocally"}, At(p, op), Advance(p),
           UNCHANGED <<job, msg, events, accepted, attested, inbox, ledger>>
    PROVE  ChargeInv'
    BY UntouchedBacked, AdvanceBacked

LEMMA WorkerWriteBacked ==
    ASSUME TypeInv, ChargeInv, NEW p \in Procs,
           \/ MessageSent(p) \/ JobFailed(p) \/ JobUncertain(p)
           \/ JobRetryBlind(p) \/ JobRetry(p) \/ JobExhausted(p)
    PROVE  ChargeInv'
<1>1. CASE MessageSent(p)
    <2>1. At(p, "MessageSent") /\ proc[p].plan \in EvidencePlans
        BY <1>1, AtStatement DEF MessageSent, StepFact, EvidencePlans, TypeInv, TypeOK
    <2>. QED
        BY <1>1, <2>1, EvidenceBacked, WriteMessageBacked DEF MessageSent, Ends
<1>2. CASE JobFailed(p)
    BY <1>2, WriteJobBacked DEF JobFailed, Ends
<1>3. CASE JobUncertain(p)
    BY <1>3, WriteJobBacked DEF JobUncertain, Ends
<1>4. CASE JobRetryBlind(p)
    BY <1>4, WriteJobBacked DEF JobRetryBlind, Ends
<1>5. CASE JobRetry(p)
    BY <1>5, WriteJobBacked DEF JobRetry, Ends
<1>6. CASE JobExhausted(p)
    BY <1>6, WriteJobBacked DEF JobExhausted, Ends
<1>. QED
    BY <1>1, <1>2, <1>3, <1>4, <1>5, <1>6

LEMMA WorkerFaultBacked ==
    ASSUME TypeInv, ChargeInv, NEW p \in Procs,
           ReadFails(p) \/ WorkerWriteFails(p) \/ WorkerCrash(p)
    PROVE  ChargeInv'
<1> DEFINE op == Plan[proc[p].plan][proc[p].step]
<1>1. UNCHANGED <<job, msg, events, accepted, attested, inbox, ledger>>
    BY DEF ReadFails, WorkerWriteFails, WorkerCrash, rowVars, billingVars
<1>2. \A l \in {"job", "draft", "recipients"} :
          /\ CatchPlan(p, l) \in PlanNames \ {"idle"}
          /\ CatchPlan(p, l) \notin EvidencePlans
    BY DEF CatchPlan, PlanNames, EvidencePlans, SuccessPlans
<1>3. {"ack", "redeliver", "retryBlind"} \subseteq PlanNames \ ({"idle"} \union EvidencePlans)
    BY DEF PlanNames, EvidencePlans, SuccessPlans
<1>4. CASE WorkerCrash(p)
    BY <1>1, <1>4, QuitBacked DEF WorkerCrash
<1>5. CASE ReadFails(p)
    <2>1. proc[p].plan # "idle"
        BY <1>5, AtStatement DEF ReadFails, TypeInv, TypeOK
    <2>2. \E pl \in PlanNames \ ({"idle"} \union EvidencePlans) : Follow(p, pl)
        BY <1>2, <1>3, <1>5 DEF ReadFails
    <2>. QED
        BY <1>1, <2>1, <2>2, FollowUntouched
<1>6. CASE WorkerWriteFails(p)
    <2>1. At(p, op) /\ op \notin {"Ack", "Redeliver"}
        BY <1>6 DEF WorkerWriteFails, At
    <2>2. proc[p].plan # "idle" /\ StepFact(proc[p].plan, proc[p].step, op)
        <3>. HIDE DEF op
        <3>. QED
            BY <2>1, AtStatement DEF TypeInv, TypeOK
    <2>3. \/ \E pl \in PlanNames \ ({"idle"} \union EvidencePlans) : Follow(p, pl)
          \/ op \notin Ends /\ op \notin {"FindDebit", "DeliverLocally"} /\ Advance(p)
        BY <1>2, <1>3, <1>6, <2>1, <2>2 DEF WorkerWriteFails, StepFact, Ends, SuccessPlans
    <2>4. CASE \E pl \in PlanNames \ ({"idle"} \union EvidencePlans) : Follow(p, pl)
        BY <1>1, <2>2, <2>4, FollowUntouched
    <2>5. CASE op \notin Ends /\ op \notin {"FindDebit", "DeliverLocally"} /\ Advance(p)
        <3>. HIDE DEF op
        <3>. QED
            BY <1>1, <2>1, <2>5, AdvanceUntouched
    <2>. QED
        BY <2>3, <2>4, <2>5
<1>. QED
    BY <1>4, <1>5, <1>6

LEMMA WorkerBacked ==
    ASSUME TypeInv, ChargeInv, NEW w \in Procs, WorkerStep(w) \/ WorkerFault(w)
    PROVE  ChargeInv'
<1>1. CASE Ack(w) \/ Redeliver(w)
    BY <1>1, QuitBacked DEF Ack, Redeliver, rowVars, billingVars, worldVars
<1>2. CASE ReadJob(w) \/ ReadMessage(w) \/ ReadEvents(w) \/ Claim(w) \/ Check(w)
    BY <1>2, ReadJobBacked, ReadMessageBacked, ReadEventsBacked, ClaimBacked, CheckBacked
<1>. QED
    BY <1>1, <1>2, ReceiveBacked, DeliverLocallyBacked, SubmitBacked, WorkerWriteBacked,
       WorkerFaultBacked, SharedBacked
    DEF WorkerStep, WorkerFault

-----------------------------------------------------------------------------
(* The webhook's steps keep ChargeInv.                                     *)

(* A request names an email that was accepted.                             *)
LEMMA NotifyBacked ==
    ASSUME TypeInv, ChargeInv, NEW p \in Procs, NEW j \in Jobs, NEW k \in 1..accepted[j],
           NEW e \in TerminalEvents, Notify(p, j, k, e)
    PROVE  ChargeInv'
<1> DEFINE r == [IdleProc EXCEPT !.plan = "hook", !.job = j, !.pid = k, !.event = e]
<1>1. j \in Delivered
    <2>1. accepted[j] > 0
        BY DEF TypeInv, TypeOK, WorldTypes
    <2>. QED
        BY <2>1 DEF Delivered, Reached, ChargeInv, CopiesFirst
<1>2. /\ r.plan \in PlanNames \ {"idle"} /\ r.step = 1 /\ r.job = j
    BY DEF IdleProc, PlanNames
<1>3. /\ proc' = [proc EXCEPT ![p] = r]
      /\ UNCHANGED <<job, msg, events, accepted, attested, inbox, ledger>>
    BY DEF Notify, rowVars, billingVars, worldVars
<1>. HIDE DEF r
<1>4. HandlersBacked' /\ StatementsDue'
    BY <1>1, <1>2, <1>3, UntouchedBacked, StartBacked
<1>. QED
    BY <1>3, <1>4, UntouchedBacked

LEMMA HookWriteBacked ==
    ASSUME TypeInv, ChargeInv, NEW p \in Procs, StoreEvent(p) \/ Backfill(p)
    PROVE  ChargeInv'
<1> DEFINE op == IF StoreEvent(p) THEN "StoreEvent" ELSE "Backfill"
<1>1. At(p, op) /\ op \in {"StoreEvent", "Backfill"}
    BY DEF StoreEvent, Backfill
<1>2. Advance(p) /\ UNCHANGED <<job, accepted, attested, inbox, ledger>>
    BY DEF StoreEvent, Backfill, rowVars, billingVars, worldVars
<1>3. \A j \in Jobs \ {JobOf(p)} : msg'[j] = msg[j] /\ events'[j] = events[j]
    BY DEF StoreEvent, Backfill, rowVars, worldVars, TypeInv, TypeOK, RowTypes, WorldTypes
<1>. HIDE DEF op
<1>4. JobOf(p) \in Delivered
    BY <1>1, AtStatement, EvidenceBacked DEF StepFact, EvidencePlans, TypeInv, TypeOK
<1>5. Delivered' = Delivered /\ Kept /\ CopiesFirst'
    BY <1>2, UntouchedKept
<1>6. Traced' \subseteq Traced \union {JobOf(p)}
    BY <1>2, <1>3 DEF Traced
<1>7. RowsBacked'
    BY <1>4, <1>5, <1>6 DEF ChargeInv, RowsBacked
<1>8. HandlersBacked' /\ StatementsDue'
    BY <1>1, <1>2, <1>5, AdvanceBacked DEF Ends
<1>. QED
    BY <1>2, <1>5, <1>7, <1>8, UntouchedLedger DEF ChargeInv

LEMMA ReadJobForEventBacked ==
    ASSUME TypeInv, ChargeInv, NEW p \in Procs, ReadJobForEvent(p)
    PROVE  ChargeInv'
<1> DEFINE st == job[JobOf(p)].status
           r == [proc[p] EXCEPT !.step = @ + 1, !.seen = st]
<1>1. At(p, "ReadJobForEvent") /\ "ReadJobForEvent" \notin Ends
    BY DEF ReadJobForEvent, Ends
<1>2. /\ proc[p] \in ProcType /\ proc[p].plan = "hook" /\ proc[p].step + 1 \in Nat
      /\ st \in JobStatus /\ JobOf(p) = proc[p].job
    BY <1>1, AtStatement DEF StepFact, TypeInv, TypeOK, RowTypes
<1>3. proc[p].job \in Delivered
    BY <1>1, <1>2, EvidenceBacked DEF EvidencePlans
<1>4. /\ proc' = [proc EXCEPT ![p] = r] /\ proc'[p] = r
      /\ UNCHANGED <<job, msg, events, accepted, attested, inbox, ledger>>
    BY DEF ReadJobForEvent, rowVars, billingVars, worldVars, TypeInv, TypeOK, ProcTypes
<1>. HIDE DEF st
<1>5. /\ r \in ProcType /\ r.plan = proc[p].plan /\ r.job = proc[p].job
      /\ r.step = proc[p].step + 1
    BY <1>2 DEF ProcType
<1>. HIDE DEF r
<1>6. Due(p)'
    BY <1>1, <1>4, <1>5, NothingDue
<1>7. HandlersBacked' /\ StatementsDue'
    BY <1>2, <1>3, <1>4, <1>5, <1>6, UntouchedBacked, SkipBacked
<1>. QED
    BY <1>4, <1>7, UntouchedBacked

LEMMA ReadOutcomeBacked ==
    ASSUME TypeInv, ChargeInv, NEW p \in Procs, ReadOutcome(p)
    PROVE  ChargeInv'
<1> DEFINE pl == OutcomePlan(p)
           r == [proc[p] EXCEPT !.plan = pl, !.step = 1, !.seen = "none", !.pid = 0]
<1>1. At(p, "ReadOutcome") /\ pl \in PlanNames \ {"idle"}
    BY DEF ReadOutcome, OutcomePlan, PlanNames
<1>2. /\ proc[p] \in ProcType /\ proc[p].plan = "hook" /\ JobOf(p) = proc[p].job
    BY <1>1, AtStatement DEF StepFact, TypeInv, TypeOK
<1>3. proc[p].job \in Delivered
    BY <1>1, <1>2, EvidenceBacked DEF EvidencePlans
<1>4. /\ proc' = [proc EXCEPT ![p] = r]
      /\ UNCHANGED <<job, msg, events, accepted, attested, inbox, ledger>>
    BY DEF ReadOutcome, rowVars, billingVars, worldVars, TypeInv, TypeOK, ProcTypes
<1>. HIDE DEF pl
<1>5. r.plan = pl /\ r.step = 1 /\ r.job = proc[p].job
    BY <1>2 DEF ProcType
<1>. HIDE DEF r
<1>6. HandlersBacked' /\ StatementsDue'
    BY <1>1, <1>3, <1>4, <1>5, UntouchedBacked, StartBacked
<1>. QED
    BY <1>4, <1>6, UntouchedBacked

LEMMA HookFaultBacked ==
    ASSUME TypeInv, ChargeInv, NEW p \in Procs, HookFault(p)
    PROVE  ChargeInv'
<1>1. UNCHANGED <<job, msg, events, accepted, attested, inbox, ledger>>
    BY DEF HookFault, HookWriteFails, HookCrash, rowVars, billingVars
<1>2. \/ Finish(p)
      \/ At(p, "Capture") /\ Advance(p)
    BY DEF HookFault, HookWriteFails, HookCrash, At
<1>. QED
    BY <1>1, <1>2, QuitBacked, AdvanceUntouched DEF Ends

LEMMA HookBacked ==
    ASSUME TypeInv, ChargeInv, NEW h \in Procs, HookNext(h)
    PROVE  ChargeInv'
<1>1. CASE JobBounced(h)
    BY <1>1, WriteJobBacked DEF JobBounced, Ends
<1>2. CASE Suppress(h)
    BY <1>2, AdvanceUntouched DEF Suppress, Ends, rowVars, billingVars
<1>3. CASE Respond(h)
    BY <1>3, QuitBacked DEF Respond, rowVars, billingVars, worldVars
<1>. QED
    BY <1>1, <1>2, <1>3, NotifyBacked, HookWriteBacked, ReadJobForEventBacked,
       ReadOutcomeBacked, HookFaultBacked, SharedBacked
    DEF HookNext, HookStep

-----------------------------------------------------------------------------
(* The operator's steps keep ChargeInv, and the theorem.                   *)

(* What the console reads is backed, and so is what it restores from it.   *)
LEMMA AdminRetryBacked ==
    ASSUME TypeInv, ChargeInv, NEW p \in Procs, NEW j \in Jobs, AdminRetry(p, j)
    PROVE  ChargeInv'
<1> DEFINE st == job[j].status   n == job[j].retries   err == job[j].error
           m == msg[j]           d == draft[j]
           r == [IdleProc EXCEPT !.plan = "adminRetry", !.job = j, !.seen = st,
                                 !.retries = n, !.error = err, !.row = m, !.draft = d]
<1>1. \/ j \in Delivered
      \/ st # "sent" /\ m.status # "replied" /\ m.pid = 0
    BY DEF ChargeInv, RowsBacked, Traced
<1>2. /\ proc' = [proc EXCEPT ![p] = r]
      /\ UNCHANGED <<job, msg, events, accepted, attested, inbox, ledger>>
    BY DEF AdminRetry, Begin, rowVars, billingVars, worldVars
<1>. HIDE DEF st, n, err, m, d
<1>3. /\ r.plan \in PlanNames \ ({"idle"} \union EvidencePlans)
      /\ r.step = 1 /\ r.job = j /\ r.seen = st /\ r.row = m
    BY DEF IdleProc, PlanNames, EvidencePlans, SuccessPlans
<1>. HIDE DEF r
<1>4. r.job \in Delivered \/ ~ HasRead(r)
    BY <1>1, <1>3 DEF HasRead
<1>5. HandlersBacked' /\ StatementsDue'
    BY <1>2, <1>3, <1>4, UntouchedBacked, StartBacked
<1>. QED
    BY <1>2, <1>5, UntouchedBacked

(* An operator's word counts as evidence.                                  *)
LEMMA ResolveBacked ==
    ASSUME TypeInv, ChargeInv, NEW p \in Procs, NEW j \in Jobs,
           ResolveSent(p, j) \/ ResolveNotSent(p, j)
    PROVE  ChargeInv'
<1> DEFINE pl == IF ResolveSent(p, j) THEN "resolveSent" ELSE "resolveNotSent"
           r == [IdleProc EXCEPT !.plan = pl, !.job = j]
<1>1. /\ proc' = [proc EXCEPT ![p] = r]
      /\ UNCHANGED <<job, msg, events, accepted, inbox, ledger>>
    BY DEF ResolveSent, ResolveNotSent, rowVars, billingVars, worldVars
<1>2. Kept /\ CopiesFirst'
    BY <1>1 DEF Kept, Delivered, Reached, ResolveSent, ResolveNotSent, worldVars,
                ChargeInv, CopiesFirst
<1>3. pl = "resolveSent" => j \in Delivered'
    BY DEF Delivered, ResolveSent
<1>4. pl \in {"resolveSent", "resolveNotSent"}
    OBVIOUS
<1>. HIDE DEF pl
<1>5. r.plan = pl /\ r.step = 1 /\ r.job = j /\ ~ HasRead(r)
    BY DEF IdleProc, HasRead
<1>6. /\ pl \in PlanNames \ {"idle"}
      /\ pl \in EvidencePlans => pl = "resolveSent"
    BY <1>4 DEF PlanNames, EvidencePlans, SuccessPlans
<1>. HIDE DEF r
<1>7. HandlersBacked' /\ StatementsDue'
    BY <1>1, <1>2, <1>3, <1>5, <1>6, StartBacked
<1>. QED
    BY <1>1, <1>2, <1>7, UntouchedRows, UntouchedLedger DEF ChargeInv

LEMMA ReserveBacked ==
    ASSUME TypeInv, ChargeInv, NEW p \in Procs, Reserve(p)
    PROVE  ChargeInv'
<1>1. /\ At(p, "Reserve")
      /\ Advance(p) \/ Finish(p)
      /\ UNCHANGED <<job, msg, events, accepted, attested, inbox, ledger>>
    BY DEF Reserve, rowVars, worldVars
<1>. QED
    BY <1>1, QuitBacked, AdvanceUntouched DEF Ends

LEMMA OperatorWriteBacked ==
    ASSUME TypeInv, ChargeInv, NEW p \in Procs,
           \/ JobQueued(p) \/ MessageTasked(p) \/ DraftQueued(p)
           \/ RestoreJob(p) \/ RestoreMessage(p) \/ RestoreDraft(p) \/ JobNotSent(p)
    PROVE  ChargeInv'
<1>1. \A op : At(p, op) /\ HasRead(proc[p]) => JobOf(p) \in Delivered
    BY AtStatement DEF ChargeInv, HandlersBacked, Knowing, TypeInv, TypeOK
<1> USE DEF Ends
<1>2. CASE JobQueued(p)
    <2>1. /\ At(p, "JobQueued")
          /\ \E n : WriteJob(p, "queued", n, "none")
        BY <1>2 DEF JobQueued
    <2>. QED
        BY <2>1, WriteJobBacked
<1>3. CASE MessageTasked(p)
    BY <1>3, WriteMessageBacked DEF MessageTasked
<1>4. CASE DraftQueued(p)
    BY <1>4, WriteDraftBacked DEF DraftQueued
<1>5. CASE RestoreJob(p)
    BY <1>1, <1>5, WriteJobBacked DEF RestoreJob, HasRead
<1>6. CASE RestoreMessage(p)
    BY <1>1, <1>6, WriteMessageBacked DEF RestoreMessage, HasRead
<1>7. CASE RestoreDraft(p)
    BY <1>7, WriteDraftBacked DEF RestoreDraft
<1>8. CASE JobNotSent(p)
    BY <1>8, WriteJobBacked DEF JobNotSent
<1>. QED
    BY <1>2, <1>3, <1>4, <1>5, <1>6, <1>7, <1>8

LEMMA OperatorFaultBacked ==
    ASSUME TypeInv, ChargeInv, NEW p \in Procs, OperatorFault(p)
    PROVE  ChargeInv'
<1> DEFINE op == Plan[proc[p].plan][proc[p].step]
<1>1. UNCHANGED <<job, msg, events, accepted, attested, inbox, ledger>>
    BY DEF OperatorFault, OperatorWriteFails, OperatorCrash, rowVars, billingVars
<1>2. CASE OperatorCrash(p)
    BY <1>1, <1>2, QuitBacked DEF OperatorCrash
<1>3. CASE OperatorWriteFails(p)
    <2>1. At(p, op) /\ op # "Respond"
        BY <1>3 DEF OperatorWriteFails, At
    <2>2. StepFact(proc[p].plan, proc[p].step, op) /\ proc[p].plan # "idle"
        <3>. HIDE DEF op
        <3>. QED
            BY <2>1, AtStatement DEF TypeInv, TypeOK
    <2>3. \/ Finish(p)
          \/ Follow(p, "adminRollback")
          \/ op \notin Ends /\ op \notin {"FindDebit", "DeliverLocally"} /\ Advance(p)
        BY <1>3, <2>1, <2>2 DEF OperatorWriteFails, StepFact, Ends, SuccessPlans
    <2>4. "adminRollback" \in PlanNames \ ({"idle"} \union EvidencePlans)
        BY DEF PlanNames, EvidencePlans, SuccessPlans
    <2>. HIDE DEF op
    <2>. QED
        BY <1>1, <2>1, <2>2, <2>3, <2>4, QuitBacked, FollowUntouched, AdvanceUntouched
<1>. QED
    BY <1>2, <1>3 DEF OperatorFault

LEMMA OperatorBacked ==
    ASSUME TypeInv, ChargeInv, NEW o \in Procs, OperatorStep(o) \/ OperatorFault(o)
    PROVE  ChargeInv'
<1>1. CASE Enqueue(o)
    BY <1>1, AdvanceUntouched DEF Enqueue, Ends, rowVars, billingVars
<1>2. CASE RespondOperator(o)
    BY <1>2, QuitBacked DEF RespondOperator, rowVars, billingVars, worldVars
<1>. QED
    BY <1>1, <1>2, AdminRetryBacked, ResolveBacked, ReserveBacked, OperatorWriteBacked,
       OperatorFaultBacked, SharedBacked
    DEF OperatorStep

(* Steps of no handler: an enqueue, a repeated delivery, time.             *)
LEMMA NobodyBacked ==
    ASSUME TypeInv, ChargeInv, NEW j \in Jobs,
           EnqueueDraftSend(j) \/ Duplicate(j) \/ Age(j)
    PROVE  ChargeInv'
<1>1. UNCHANGED <<events, accepted, attested, inbox, ledger, proc>>
    BY DEF EnqueueDraftSend, Duplicate, Age, rowVars, billingVars, worldVars
<1>2. Delivered' = Delivered /\ Kept /\ CopiesFirst'
    BY <1>1, UntouchedKept
<1>3. \A i \in Jobs : /\ job'[i].status = "sent" => job[i].status = "sent"
                      /\ msg'[i].status = "replied" => msg[i].status = "replied"
                      /\ msg'[i].pid = msg[i].pid
    BY DEF EnqueueDraftSend, Duplicate, Age, rowVars, TypeInv, TypeOK, RowTypes
<1>4. Traced' \subseteq Traced
    BY <1>1, <1>3 DEF Traced
<1>5. RowsBacked'
    BY <1>2, <1>4 DEF ChargeInv, RowsBacked
<1>6. Knowing' = Knowing /\ \A p \in Procs : Due(p)' <=> Due(p)
    BY <1>1 DEF Knowing, Due, At
<1>7. HandlersBacked' /\ StatementsDue'
    BY <1>1, <1>2, <1>6 DEF ChargeInv, HandlersBacked, StatementsDue
<1>. QED
    BY <1>1, <1>2, <1>5, <1>7, UntouchedLedger DEF ChargeInv

LEMMA InitBacked == Init => ChargeInv
<1> SUFFICES ASSUME Init PROVE ChargeInv
    OBVIOUS
<1>1. \A p \in Procs : proc[p].plan = "idle" /\ proc[p].step = 1
    BY DEF Init, IdleProc
<1>2. DOMAIN Plan["idle"] = {}
    BY PlanTable DEF PlanFact, StepFact, PlanNames
<1>3. Knowing = {} /\ \A p \in Procs : Due(p)
    BY <1>1, <1>2 DEF Knowing, Due, At
<1>4. Traced = {} /\ ledger = {} /\ CopiesFirst
    BY ConstantsAssumption DEF Init, Traced, CopiesFirst
<1>. QED
    BY <1>3, <1>4 DEF ChargeInv, RowsBacked, HandlersBacked, LedgerBacked, StatementsDue

LEMMA NextBacked == TypeInv /\ ChargeInv /\ [Next]_vars => ChargeInv'
<1> SUFFICES ASSUME TypeInv, ChargeInv, [Next]_vars PROVE ChargeInv'
    OBVIOUS
<1>1. CASE UNCHANGED vars
    <2>1. UNCHANGED <<job, msg, events, accepted, attested, inbox, ledger, proc>>
        BY <1>1 DEF vars, rowVars, billingVars, worldVars
    <2>2. Knowing' = Knowing /\ \A p \in Procs : Due(p)' <=> Due(p)
        BY <2>1 DEF Knowing, Due, At
    <2>3. HandlersBacked' /\ StatementsDue'
        BY <2>1, <2>2, UntouchedBacked DEF ChargeInv, HandlersBacked, StatementsDue
    <2>. QED
        BY <2>1, <2>3, UntouchedBacked
<1>2. CASE Next
    BY <1>2, NobodyBacked, WorkerBacked, HookBacked, OperatorBacked DEF Next, Procs
<1>. QED
    BY <1>1, <1>2

(* The tenant is never debited for an email the provider did not accept    *)
(* and no operator declared sent, however recoveries, webhooks, retries    *)
(* and operators interleave and whatever fails.                            *)
THEOREM NoUnearnedCharge == Spec => []NoChargeWithoutSend
<1>1. Init => TypeInv /\ ChargeInv
    BY InitTypes, InitBacked
<1>2. TypeInv /\ ChargeInv /\ [Next]_vars => (TypeInv /\ ChargeInv)'
    BY NextTypes, NextBacked
<1>3. TypeInv /\ ChargeInv => NoChargeWithoutSend
    BY DEF ChargeInv, LedgerBacked, Delivered, Reached, NoChargeWithoutSend
<1>. QED
    BY <1>1, <1>2, <1>3, PTL DEF Spec

(* A job with recipients in local mailboxes is not reported as sent before *)
(* their copies are there, unless an operator said so: the worker submits  *)
(* to the provider only after it delivered them, so that whatever a        *)
(* webhook, a recovery or a redelivery takes for evidence comes later.     *)
THEOREM CopiesBeforeSent == Spec => []LocalCopiesPrecedeSent
<1>1. Init => TypeInv /\ ChargeInv
    BY InitTypes, InitBacked
<1>2. TypeInv /\ ChargeInv /\ [Next]_vars => (TypeInv /\ ChargeInv)'
    BY NextTypes, NextBacked
<1>3. TypeInv /\ ChargeInv => LocalCopiesPrecedeSent
    BY ConstantsAssumption
    DEF ChargeInv, RowsBacked, Traced, Delivered, Reached, LocalCopiesPrecedeSent
<1>. QED
    BY <1>1, <1>2, <1>3, PTL DEF Spec

-----------------------------------------------------------------------------
(* One debit for one send.                                                 *)

SharedButAppend(p) ==
    \/ JobSent(p) \/ MessageReplied(p) \/ MessageFailed(p) \/ DraftSent(p) \/ DraftFailed(p)
    \/ FindDebit(p) \/ Capture(p) \/ ReadLedger(p) \/ WriteAvailable(p) \/ Release(p)

(* The ledger is append-only, and written nowhere else.                    *)
LEMMA LedgerSteps ==
    ASSUME [Next]_vars
    PROVE  UNCHANGED ledger \/ \E p \in Procs : AppendDebit(p)
<1> USE DEF rowVars, billingVars, worldVars
<1>1. ASSUME NEW p, SharedStep(p)
      PROVE  UNCHANGED ledger \/ AppendDebit(p)
    <2>1. SharedButAppend(p) => UNCHANGED ledger
        BY DEF SharedButAppend, JobSent, MessageReplied, MessageFailed, DraftSent,
               DraftFailed, WriteJob, WriteMessage, WriteDraft, FindDebit, Capture,
               ReadLedger, WriteAvailable, Release
    <2>. QED
        BY <1>1, <2>1 DEF SharedStep, SharedButAppend
<1>2. ASSUME NEW w \in Workers, WorkerStep(w) \/ WorkerFault(w)
      PROVE  UNCHANGED ledger \/ AppendDebit(w)
    <2>1. (\E j \in Jobs : Receive(w, j)) => UNCHANGED ledger
        BY DEF Receive
    <2>2. Ack(w) \/ Redeliver(w) => UNCHANGED ledger
        BY DEF Ack, Redeliver
    <2>3. ReadJob(w) \/ ReadMessage(w) \/ ReadEvents(w) => UNCHANGED ledger
        BY DEF ReadJob, ReadMessage, ReadEvents
    <2>4. Claim(w) \/ Check(w) \/ DeliverLocally(w) => UNCHANGED ledger
        BY DEF Claim, Check, DeliverLocally
    <2>5. SubmitAccepted(w) \/ SubmitRefused(w) \/ SubmitAmbiguous(w) => UNCHANGED ledger
        BY DEF SubmitAccepted, SubmitRefused, SubmitAmbiguous
    <2>6. MessageSent(w) \/ JobFailed(w) \/ JobUncertain(w) => UNCHANGED ledger
        BY DEF MessageSent, JobFailed, JobUncertain, WriteJob, WriteMessage
    <2>7. JobRetryBlind(w) \/ JobRetry(w) \/ JobExhausted(w) => UNCHANGED ledger
        BY DEF JobRetryBlind, JobRetry, JobExhausted, WriteJob
    <2>8. ReadFails(w) \/ WorkerCrash(w) => UNCHANGED ledger
        BY DEF ReadFails, WorkerCrash
    <2>9. WorkerWriteFails(w) => UNCHANGED ledger
        BY DEF WorkerWriteFails
    <2>. QED
        BY <1>1, <1>2, <2>1, <2>2, <2>3, <2>4, <2>5, <2>6, <2>7, <2>8, <2>9
        DEF WorkerStep, WorkerFault
<1>3. ASSUME NEW h \in Hooks, HookNext(h)
      PROVE  UNCHANGED ledger \/ AppendDebit(h)
    <2>1. (\E j \in Jobs, e \in TerminalEvents : \E k \in 1..accepted[j] : Notify(h, j, k, e))
              => UNCHANGED ledger
        BY DEF Notify
    <2>2. StoreEvent(h) \/ Backfill(h) \/ ReadJobForEvent(h) \/ ReadOutcome(h) => UNCHANGED ledger
        BY DEF StoreEvent, Backfill, ReadJobForEvent, ReadOutcome
    <2>3. JobBounced(h) \/ Suppress(h) \/ Respond(h) => UNCHANGED ledger
        BY DEF JobBounced, Suppress, Respond, WriteJob
    <2>4. HookFault(h) => UNCHANGED ledger
        BY DEF HookFault, HookWriteFails, HookCrash
    <2>. QED
        BY <1>1, <1>3, <2>1, <2>2, <2>3, <2>4 DEF HookNext, HookStep
<1>4. ASSUME NEW o \in Operators, OperatorStep(o) \/ OperatorFault(o)
      PROVE  UNCHANGED ledger \/ AppendDebit(o)
    <2>1. (\E j \in Jobs : AdminRetry(o, j) \/ ResolveSent(o, j) \/ ResolveNotSent(o, j))
              => UNCHANGED ledger
        BY DEF AdminRetry, ResolveSent, ResolveNotSent
    <2>2. Reserve(o) \/ Enqueue(o) \/ RespondOperator(o) => UNCHANGED ledger
        BY DEF Reserve, Enqueue, RespondOperator
    <2>3. JobQueued(o) \/ RestoreJob(o) \/ JobNotSent(o) => UNCHANGED ledger
        BY DEF JobQueued, RestoreJob, JobNotSent, WriteJob
    <2>4. MessageTasked(o) \/ RestoreMessage(o) \/ DraftQueued(o) \/ RestoreDraft(o)
              => UNCHANGED ledger
        BY DEF MessageTasked, RestoreMessage, DraftQueued, RestoreDraft, WriteMessage, WriteDraft
    <2>5. OperatorFault(o) => UNCHANGED ledger
        BY DEF OperatorFault, OperatorWriteFails, OperatorCrash
    <2>. QED
        BY <1>1, <1>4, <2>1, <2>2, <2>3, <2>4, <2>5 DEF OperatorStep
<1>5. ASSUME NEW j \in Jobs, EnqueueDraftSend(j) \/ Duplicate(j) \/ Age(j)
      PROVE  UNCHANGED ledger
    BY <1>5 DEF EnqueueDraftSend, Duplicate, Age
<1>6. UNCHANGED vars => UNCHANGED ledger
    BY DEF vars
<1>. QED
    BY <1>2, <1>3, <1>4, <1>5, <1>6 DEF Next, Procs

(* Two handlers that settle the same send, each having found no debit,     *)
(* still leave one: the insert ignores a reference that is there.          *)
THEOREM OneDebitPerSend == Spec => []DebitedOnce
<1>1. Init => DebitedOnce
    BY DEF Init, DebitedOnce
<1>2. ASSUME DebitedOnce, [Next]_vars
      PROVE  DebitedOnce'
    <2>1. CASE UNCHANGED ledger
        BY <1>2, <2>1 DEF DebitedOnce
    <2>2. ASSUME NEW p \in Procs, AppendDebit(p)
          PROVE  DebitedOnce'
        <3>1. \/ ledger' = ledger
              \/ \E i : /\ ledger' = ledger \union {[id |-> i, reference |-> JobOf(p)]}
                        /\ \A e \in ledger : e.reference # JobOf(p)
            BY <2>2 DEF AppendDebit, Debited
        <3>. QED
            BY <1>2, <3>1 DEF DebitedOnce
    <2>. QED
        BY <1>2, <2>1, <2>2, LedgerSteps
<1>. QED
    BY <1>1, <1>2, PTL DEF Spec
=============================================================================
