-------------------------- MODULE OutboundCredits --------------------------
(***************************************************************************)
(* What becomes of a job's reserved credit and of its rows, and of the     *)
(* tenant's account: a reservation is consumed once, and by its own job; a *)
(* sent job at rest is sent in all its rows and debited; nothing is debited*)
(* beyond what was granted.  For any number of jobs, credits and crashes,  *)
(* without webhook requests and operators: Undisturbed and OneInvocation   *)
(* name what the code needs.                                               *)
(***************************************************************************)
EXTENDS OutboundDelivery

(* Only invocations of the queue consumer run, no read or write of the     *)
(* database fails, and of one job's queue message there is one copy, or    *)
(* there is one invocation to deliver the copies to.  Responses get lost,  *)
(* invocations crash and the provider, the policy or the mailbox refuse.   *)
Undisturbed ==
    /\ Hooks = {} /\ Operators = {}
    /\ Faults \intersect {"read", "write"} = {}
    /\ "duplicate" \in Faults => \A v, w \in Workers : v = w

OneInvocation == Undisturbed /\ \A v, w \in Workers : v = w

-----------------------------------------------------------------------------
(* The inductive invariant.                                                *)

Busy(w, j) == proc[w].job = j

(* Where the settlement of a plan begins, and from where on the message is *)
(* replied and the draft sent.                                             *)
Base(pl) ==
    CASE pl = "settled" -> 1
      [] pl \in {"convergeMessage", "convergeDraft"} -> 2
      [] pl = "converge" -> 3
      [] pl = "accepted" -> 4
RepliedFrom(pl) ==
    CASE pl \in {"settled", "convergeDraft"} -> 1
      [] pl \in {"convergeMessage", "converge"} -> 2
      [] pl = "accepted" -> 3
DraftFrom(pl) ==
    CASE pl \in {"settled", "convergeMessage"} -> 1
      [] pl = "convergeDraft" -> 2
      [] pl = "converge" -> 3
      [] pl = "accepted" -> 4
Settling == {"accepted", "settled", "convergeMessage", "convergeDraft", "converge"}
GivingUp == {"giveUp", "giveUpUnparsed", "inDoubt"}
CreditPlans == {"deliver", "send", "retryLater", "ack", "redeliver"} \union Settling \union GivingUp

SettlesAt(w, n) == proc[w].plan \in Settling /\ proc[w].step = Base(proc[w].plan) + n
Releases(w) == proc[w].plan \in {"giveUp", "inDoubt"} /\ proc[w].step \in 2..4

(* One invocation has the job, or one copy is in the queue.                *)
Alone(j) ==
    /\ \A v, w \in Workers : Busy(v, j) /\ Busy(w, j) => v = w
    /\ "duplicate" \notin Faults =>
         queue[j] \in {0, 1} /\ (queue[j] = 1 => \A w \in Workers : ~Busy(w, j))

InRows(j) == msg[j].status = "replied" /\ draft[j] = "sent"

(* The job's rows, its reservation and its debit.                          *)
Drafted(j) ==
    /\ job[j].status = "none" <=> draft[j] = "draft"
    /\ draft[j] = "draft" =>
         /\ hold[j] = 0 /\ ~Debited(j) /\ msg[j].pid = 0 /\ queue[j] = 0
         /\ \A w \in Workers : ~Busy(w, j)
Reserved(j) ==
    /\ hold[j] \in {0, 1} /\ (hold[j] = 1 => j \in External)
    /\ job[j].status \in Unfinished =>
         /\ msg[j] = [status |-> "tasked", pid |-> 0]
         /\ ~Debited(j) /\ (j \in External => hold[j] = 1)
    /\ job[j].status = "sent" /\ j \in External /\ ~Debited(j) => hold[j] = 1
    /\ job[j].status = "failed" => ~Debited(j)
Converges(j) ==
    job[j].status = "sent" =>
      \/ queue[j] > 0
      \/ \E w \in Workers : Busy(w, j) /\ proc[w].plan \in Settling \union {"deliver"}
      \/ InRows(j) /\ (j \in External => Debited(j))
Consumed(j) ==
    faults = 0 /\ hold[j] = 1 =>
      /\ Debited(j) => \E w \in Workers : Busy(w, j) /\ SettlesAt(w, 2)
      /\ job[j].status = "failed" =>
           "mailbox" \in Faults \/ \E w \in Workers : Busy(w, j) /\ Releases(w)
JobOK(j) == Drafted(j) /\ Reserved(j) /\ Converges(j) /\ Consumed(j) /\ events[j] = {}

(* What an invocation knows of its job at each statement.                  *)
Reads(w, j) ==
    proc[w].plan = "deliver" =>
      /\ proc[w].step >= 2 => proc[w].seen = job[j].status
      /\ proc[w].step >= 3 => proc[w].row = msg[j] /\ proc[w].draft = draft[j]
SendsOn(w, j) ==
    proc[w].plan = "send" =>
      job[j].status \in IF proc[w].step = 1 THEN {"queued", "retry", "failed"} ELSE {"sending"}
GivesUp(w, j) ==
    /\ proc[w].plan \in {"retryLater"} \union GivingUp /\ proc[w].step = 1 =>
         job[j].status = "sending"
    /\ proc[w].plan = "giveUpUnparsed" => "mailbox" \in Faults
    /\ proc[w].plan \in GivingUp /\ proc[w].step > 1 => job[j].status = "failed"
    /\ Releases(w) /\ j \in External => hold[j] = 1
Settles(w, j) ==
    proc[w].plan \in Settling =>
      LET base == Base(proc[w].plan) IN
      /\ job[j].status = IF proc[w].plan = "accepted" /\ proc[w].step = 1 THEN "sending" ELSE "sent"
      /\ proc[w].step >= RepliedFrom(proc[w].plan) => msg[j].status = "replied"
      /\ proc[w].step >= DraftFrom(proc[w].plan) => draft[j] = "sent"
      /\ proc[w].step \in base + 1 .. base + 4 => j \in External
      /\ SettlesAt(w, 1) => ~Debited(j)
      /\ SettlesAt(w, 2) => hold[j] = 1
      /\ j \in External /\ proc[w].step >= base + 2 => Debited(j)
Knows(w) ==
    /\ proc[w].plan \in CreditPlans \/ (proc[w].plan = "idle" /\ proc[w].job = NoJob)
    /\ LET j == proc[w].job IN Reads(w, j) /\ SendsOn(w, j) /\ GivesUp(w, j) /\ Settles(w, j)

(* The account's pool is what the jobs hold.                               *)
Holders == {j \in Jobs : hold[j] = 1}
DebitedJobs == {j \in Jobs : Debited(j)}
PoolHeld ==
    /\ IsFiniteSet(Holders) /\ account.reserved = Cardinality(Holders)
    /\ IsFiniteSet(DebitedJobs) /\ Cardinality(ledger) = Cardinality(DebitedJobs)

CreditInv ==
    /\ \A j \in Jobs : Alone(j) /\ JobOK(j)
    /\ \A w \in Workers : Knows(w)
    /\ PoolHeld

(* With one invocation: what is free, held or debited was granted, and the *)
(* books are out of balance only while a settlement goes on.               *)
Settled(w) == proc[w].plan \in Settling /\ proc[w].step > Base(proc[w].plan) + 4
Unsettled(j) ==
    /\ j \in External /\ job[j].status = "sent"
    /\ \/ queue[j] > 0
       \/ \E w \in Workers :
            Busy(w, j) /\ proc[w].plan \in Settling \union {"deliver"} /\ ~Settled(w)
Granted ==
    /\ Cardinality(Holders \union DebitedJobs) <= Credits
    /\ account.available + Cardinality(Holders \union DebitedJobs) <= Credits
Booked ==
    \/ account.available + account.reserved = Balance
    \/ \E j \in Jobs : Unsettled(j)
SumsRight == \A w \in Workers : SettlesAt(w, 4) => proc[w].sum = Balance
BooksInv == Granted /\ Booked /\ SumsRight

-----------------------------------------------------------------------------
(* Which statements these plans have, and where.                           *)

PlaceFact(pl, i, op) ==
    /\ op = "ReadJob" => pl = "deliver" /\ i = 1
    /\ op = "ReadMessage" => pl = "deliver" /\ i = 2
    /\ op = "ReadEvents" => pl = "deliver" /\ i = 3
    /\ op = "Claim" => pl = "send" /\ i = 1
    /\ op = "Check" => pl = "send" /\ i = 2
    /\ op = "DeliverLocally" => pl = "send" /\ i = 3
    /\ op = "Submit" => pl = "send" /\ i = 4
    /\ op = "JobRetry" => pl = "retryLater" /\ i = 1
    /\ op = "JobExhausted" => pl \in {"giveUp", "giveUpUnparsed"} /\ i = 1
    /\ op = "JobUncertain" => pl = "inDoubt" /\ i = 1
    /\ op = "MessageFailed" => pl \in GivingUp /\ i = 2
    /\ op = "DraftFailed" => pl \in GivingUp /\ i = 3
    /\ op = "Release" => pl \in {"giveUp", "inDoubt"} /\ i = 4
    /\ op = "JobSent" => pl = "accepted" /\ i = 1
    /\ op = "MessageSent" => pl = "accepted" /\ i = 2
    /\ op = "MessageReplied" => pl \in {"convergeMessage", "converge"} /\ i = 1
    /\ op = "DraftSent" => pl \in {"accepted", "convergeDraft", "converge"} /\ i = Base(pl) - 1
    /\ op = "FindDebit" => pl \in Settling /\ i = Base(pl)
    /\ op = "AppendDebit" => pl \in Settling /\ i = Base(pl) + 1
    /\ op = "Capture" => pl \in Settling /\ i = Base(pl) + 2
    /\ op = "ReadLedger" => pl \in Settling /\ i = Base(pl) + 3
    /\ op = "WriteAvailable" => pl \in Settling /\ i = Base(pl) + 4
    /\ op = "Ack" =>
         \/ pl \in Settling /\ i = Base(pl) + 5
         \/ pl \in {"giveUp", "inDoubt"} /\ i = 5
         \/ pl \in {"giveUpUnparsed", "ack"}
    /\ op = "Redeliver" => pl \in {"retryLater", "redeliver"}
    /\ op \notin {"JobFailed", "JobRetryBlind"}

LEMMA Places == \A pl \in CreditPlans : \A i \in DOMAIN Plan[pl] : PlaceFact(pl, i, Plan[pl][i])
<1>. DEFINE F(pl) == \A i \in DOMAIN Plan[pl] : PlaceFact(pl, i, Plan[pl][i])
<1>. USE DEF PlaceFact, Plan, PlanNames, Base, Settling, GivingUp
<1>1. F("deliver") /\ F("send")
    OBVIOUS
<1>2. F("retryLater") /\ F("ack") /\ F("redeliver")
    OBVIOUS
<1>3. F("accepted")
    OBVIOUS
<1>4. F("settled")
    OBVIOUS
<1>5. F("convergeMessage")
    OBVIOUS
<1>6. F("convergeDraft")
    OBVIOUS
<1>7. F("converge")
    OBVIOUS
<1>8. F("giveUp")
    OBVIOUS
<1>9. F("giveUpUnparsed")
    OBVIOUS
<1>10. F("inDoubt")
    OBVIOUS
<1>. HIDE DEF F, PlaceFact, Plan
<1>11. \A pl \in CreditPlans : F(pl)
    BY <1>1, <1>2, <1>3, <1>4, <1>5, <1>6, <1>7, <1>8, <1>9, <1>10 DEF CreditPlans
<1>. QED
    BY <1>11 DEF F

LEMMA CreditsAt ==
    ASSUME TypeInv, CreditInv, NEW w \in Workers, NEW op, At(w, op)
    PROVE  /\ PlaceFact(proc[w].plan, proc[w].step, op)
           /\ proc[w].job \in Jobs /\ JobOf(w) = proc[w].job
           /\ proc[w].step \in Nat /\ proc[w] \in ProcType /\ w \in Procs
           /\ proc[w].plan \in CreditPlans
<1>1. w \in Procs
    BY DEF Procs
<1>2. /\ proc[w] \in ProcType /\ proc[w].plan # "idle"
      /\ proc[w].job \in Jobs /\ JobOf(w) = proc[w].job /\ proc[w].step \in Nat
    BY <1>1, AtStatement DEF TypeInv, TypeOK
<1>3. proc[w].plan \in CreditPlans
    BY <1>2 DEF CreditInv, Knows
<1>. QED
    BY <1>1, <1>2, <1>3, Places DEF At

-----------------------------------------------------------------------------
(* A step of one invocation, on its job.                                   *)

Only(j) ==
    /\ \A i \in Jobs \ {j} :
         /\ job'[i] = job[i] /\ msg'[i] = msg[i] /\ draft'[i] = draft[i]
         /\ hold'[i] = hold[i] /\ queue'[i] = queue[i] /\ (Debited(i)' <=> Debited(i))
    /\ events' = events
    /\ faults' = 0 => faults = 0

LEMMA FrameKeeps ==
    ASSUME TypeInv, CreditInv, NEW w \in Workers, NEW j \in Jobs,
           Others(w), Only(j), proc[w].job \in {j, NoJob}, proc'[w].job \in {j, NoJob},
           \A q \in Workers \ {w} : proc[q].job # j,
           "duplicate" \notin Faults => queue'[j] \in {0, 1} /\ (queue'[j] = 1 => proc'[w].job # j),
           JobOK(j)', Knows(w)', PoolHeld'
    PROVE  CreditInv'
<1>1. \A q \in Workers \ {w} : q \in Procs /\ proc'[q] = proc[q]
    BY DEF Others, Procs
<1>2. ASSUME NEW i \in Jobs
      PROVE  Alone(i)'
    <2>1. CASE i = j
        BY <1>1, <2>1 DEF Alone, Busy
    <2>2. CASE i # j
        <3>1. Alone(i) /\ queue'[i] = queue[i]
            BY <2>2 DEF CreditInv, Only
        <3>2. \A q \in Workers : Busy(q, i)' => Busy(q, i)
            BY <1>1, <2>2, ConstantsAssumption DEF Busy
        <3>. QED
            BY <3>1, <3>2 DEF Alone
    <2>. QED
        BY <2>1, <2>2
<1>3. ASSUME NEW i \in Jobs, i # j
      PROVE  JobOK(i)'
    <2>1. JobOK(i) /\ i # NoJob
        BY ConstantsAssumption DEF CreditInv
    <2>2. /\ job'[i] = job[i] /\ msg'[i] = msg[i] /\ draft'[i] = draft[i]
          /\ hold'[i] = hold[i] /\ queue'[i] = queue[i] /\ (Debited(i)' <=> Debited(i))
          /\ events' = events /\ (faults' = 0 => faults = 0)
        BY <1>3 DEF Only
    <2>3. \A q \in Workers : Busy(q, i)' <=> Busy(q, i)
        BY <1>1, <1>3, <2>1 DEF Busy
    <2>4. \A q \in Workers : Busy(q, i) =>
            /\ proc'[q] = proc[q]
            /\ SettlesAt(q, 2)' = SettlesAt(q, 2) /\ Releases(q)' = Releases(q)
        BY <1>1, <1>3, <2>1 DEF Busy, SettlesAt, Releases
    <2>5. Drafted(i)' /\ Reserved(i)' /\ events'[i] = {}
        BY <2>1, <2>2, <2>3 DEF JobOK, Drafted, Reserved
    <2>6. Converges(i)'
        BY <2>1, <2>2, <2>3, <2>4 DEF JobOK, Converges, InRows
    <2>7. Consumed(i)'
        BY <2>1, <2>2, <2>3, <2>4 DEF JobOK, Consumed
    <2>. QED
        BY <2>5, <2>6, <2>7 DEF JobOK
<1>4. ASSUME NEW q \in Workers, q # w
      PROVE  Knows(q)'
    <2>1. Knows(q) /\ proc'[q] = proc[q] /\ q \in Procs /\ proc[q].job # j
        BY <1>1, <1>4 DEF CreditInv
    <2>2. CASE proc[q].plan = "idle"
        BY <2>1, <2>2
        DEF Knows, Reads, SendsOn, GivesUp, Settles, Releases, Settling, GivingUp
    <2>3. CASE proc[q].plan # "idle"
        <3>1. PICK i \in Jobs \ {j} : proc[q].job = i
            BY <2>1, <2>3 DEF TypeInv, TypeOK, ProcTypes
        <3>2. /\ job'[i] = job[i] /\ msg'[i] = msg[i] /\ draft'[i] = draft[i]
              /\ hold'[i] = hold[i] /\ (Debited(i)' <=> Debited(i))
            BY <3>1 DEF Only
        <3>. QED
            BY <2>1, <3>1, <3>2 DEF Knows, Reads, SendsOn, GivesUp, Settles, Releases, SettlesAt
    <2>. QED
        BY <2>2, <2>3
<1>. QED
    BY <1>2, <1>3, <1>4 DEF CreditInv

(* An invocation at work has its job to itself.                            *)
LEMMA HasAlone ==
    ASSUME CreditInv, NEW w \in Workers, NEW j \in Jobs, proc[w].job = j
    PROVE  /\ \A q \in Workers \ {w} : proc[q].job # j
           /\ "duplicate" \notin Faults => queue[j] = 0
           /\ draft[j] # "draft" /\ job[j].status # "none"
           /\ JobOK(j) /\ Knows(w) /\ events[j] = {}
    BY DEF CreditInv, Alone, Busy, JobOK, Drafted

LEMMA StaysKeeps ==
    ASSUME TypeInv, CreditInv, NEW w \in Workers, NEW j \in Jobs, proc[w].job = j,
           Others(w), Only(j), proc'[w].job = j, queue'[j] = queue[j],
           JobOK(j)', Knows(w)', PoolHeld'
    PROVE  CreditInv'
    BY HasAlone, FrameKeeps

LEMMA PoolSame ==
    ASSUME CreditInv, UNCHANGED <<hold, ledger>>, account'.reserved = account.reserved
    PROVE  PoolHeld' /\ \A i : Debited(i)' <=> Debited(i)
<1>1. Holders' = Holders /\ DebitedJobs' = DebitedJobs /\ \A i : Debited(i)' <=> Debited(i)
    BY DEF Holders, DebitedJobs, Debited
<1>. QED
    BY <1>1 DEF CreditInv, PoolHeld

(* The job after a step that leaves its status, its reservation and its    *)
(* debit as they are.                                                      *)
LEMMA JobMoves ==
    ASSUME CreditInv, NEW w \in Workers, NEW j \in Jobs, proc[w].job = j,
           Others(w), proc'[w].job = j, job'[j] = job[j], hold'[j] = hold[j],
           Debited(j)' <=> Debited(j), queue'[j] = queue[j], events' = events,
           faults' = 0 => faults = 0,
           \/ msg'[j] = msg[j] /\ draft'[j] = draft[j]
           \/ job[j].status \notin Unfinished /\ draft'[j] # "draft",
           job[j].status = "sent" => (proc'[w].plan \in Settling \union {"deliver"}),
           ~SettlesAt(w, 2), Releases(w) => Releases(w)'
    PROVE  JobOK(j)'
<1>1. \A q \in Workers \ {w} : proc[q].job # j
    BY HasAlone
<1>2. JobOK(j) /\ draft[j] # "draft" /\ job[j].status # "none"
    BY HasAlone
<1>3. Drafted(j)' /\ events'[j] = {}
    BY <1>2 DEF JobOK, Drafted, Unfinished
<1>4. Reserved(j)'
    BY <1>2 DEF JobOK, Reserved, Unfinished
<1>5. Converges(j)'
    <2>1. job[j].status = "sent" => Busy(w, j)' /\ (proc'[w].plan \in Settling \union {"deliver"})
        BY DEF Busy
    <2>. QED
        BY <2>1 DEF Converges
<1>6. Consumed(j)'
    <2>1. Busy(w, j)'
        BY DEF Busy
    <2>2. \A q \in Workers : Busy(q, j) => q = w
        BY <1>1 DEF Busy
    <2>. QED
        BY <1>2, <2>1, <2>2 DEF JobOK, Consumed
<1>. QED
    BY <1>3, <1>4, <1>5, <1>6 DEF JobOK

(* A step that changes no row of a job, its reservation or its debit.      *)
LEMMA PureKeeps ==
    ASSUME TypeInv, CreditInv, NEW w \in Workers, NEW j \in Jobs, proc[w].job = j,
           Others(w), proc'[w].job = j, UNCHANGED <<rowVars, hold, ledger, queue, events>>,
           account'.reserved = account.reserved, faults' = 0 => faults = 0,
           job[j].status = "sent" => (proc'[w].plan \in Settling \union {"deliver"}),
           ~SettlesAt(w, 2), ~Releases(w), Knows(w)'
    PROVE  CreditInv'
<1>1. PoolHeld' /\ \A i : Debited(i)' <=> Debited(i)
    BY PoolSame
<1>2. Only(j)
    BY <1>1 DEF Only, rowVars
<1>3. JobOK(j)'
    BY <1>1, JobMoves DEF rowVars
<1>. QED
    BY <1>1, <1>2, <1>3, StaysKeeps DEF rowVars

-----------------------------------------------------------------------------
(* The statements up to the branch.                                        *)

LEMMA ReadJobKeeps ==
    ASSUME TypeInv, CreditInv, NEW w \in Workers, ReadJob(w)
    PROVE  CreditInv'
<1>1. PICK j \in Jobs : j = proc[w].job /\ JobOf(w) = j
    BY CreditsAt DEF ReadJob
<1>2. proc[w].plan = "deliver" /\ proc[w].step = 1 /\ proc[w] \in ProcType /\ w \in Procs
    BY CreditsAt DEF ReadJob, PlaceFact
<1>3. /\ Others(w) /\ proc'[w].job = j /\ proc'[w].plan = "deliver" /\ proc'[w].step = 2
      /\ proc'[w].seen = job[j].status
    BY <1>1, <1>2 DEF ReadJob, Others, TypeInv, TypeOK, ProcTypes, ProcType
<1>4. UNCHANGED <<rowVars, hold, ledger, queue, events, account, faults>>
    BY DEF ReadJob, billingVars, worldVars
<1>5. Knows(w)'
    BY <1>1, <1>3, <1>4 DEF Knows, Reads, SendsOn, GivesUp, Settles, Releases, rowVars,
        Settling, GivingUp, CreditPlans
<1>. QED
    BY <1>1, <1>2, <1>3, <1>4, <1>5, PureKeeps DEF SettlesAt, Releases, Settling

LEMMA ReadMessageKeeps ==
    ASSUME TypeInv, CreditInv, NEW w \in Workers, ReadMessage(w)
    PROVE  CreditInv'
<1>1. PICK j \in Jobs : j = proc[w].job /\ JobOf(w) = j
    BY CreditsAt DEF ReadMessage
<1>2. proc[w].plan = "deliver" /\ proc[w].step = 2 /\ proc[w] \in ProcType /\ w \in Procs
    BY CreditsAt DEF ReadMessage, PlaceFact
<1>3. /\ Others(w) /\ proc'[w].job = j /\ proc'[w].plan = "deliver" /\ proc'[w].step = 3
      /\ proc'[w].seen = proc[w].seen /\ proc'[w].row = msg[j] /\ proc'[w].draft = draft[j]
    BY <1>1, <1>2 DEF ReadMessage, Others, TypeInv, TypeOK, ProcTypes, ProcType
<1>4. UNCHANGED <<rowVars, hold, ledger, queue, events, account, faults>>
    BY DEF ReadMessage, billingVars, worldVars
<1>5. proc[w].seen = job[j].status
    BY <1>1, <1>2 DEF CreditInv, Knows, Reads
<1>6. Knows(w)'
    BY <1>1, <1>3, <1>4, <1>5 DEF Knows, Reads, SendsOn, GivesUp, Settles, Releases, rowVars,
        Settling, GivingUp, CreditPlans
<1>. QED
    BY <1>1, <1>2, <1>3, <1>4, <1>6, PureKeeps DEF SettlesAt, Releases, Settling

(* What was read still stands: the branch fits the job.  A job in sending  *)
(* has no evidence, so that none is recovered as sent or as failed.        *)
LEMMA BranchFits ==
    ASSUME TypeInv, CreditInv, NEW w \in Workers, NEW j \in Jobs, j = proc[w].job,
           proc[w].plan = "deliver", proc[w].step = 3
    PROVE  LET pl == BranchPlan(w, events[j]) IN
           /\ pl \in CreditPlans \ {"deliver", "accepted"}
           /\ job[j].status = "sent" => pl \in Settling
           /\ pl = "send" => job[j].status \in {"queued", "retry", "failed"}
           /\ pl = "inDoubt" => job[j].status = "sending"
           /\ pl \notin {"giveUp", "giveUpUnparsed", "retryLater"}
           /\ pl \in Settling => job[j].status = "sent"
           /\ pl \in {"settled", "convergeDraft"} => msg[j].status = "replied"
           /\ pl \in {"settled", "convergeMessage"} => draft[j] = "sent"
<1>1. /\ proc[w].seen = job[j].status /\ proc[w].row = msg[j] /\ proc[w].draft = draft[j]
      /\ events[j] = {} /\ job[j].status # "none" /\ JobOK(j)
    BY HasAlone DEF Knows, Reads
<1>2. job[j].status \in JobStatus /\ Outcome(events[j]) = "none"
    BY <1>1 DEF TypeInv, TypeOK, RowTypes, Outcome
<1>. DEFINE pl == BranchPlan(w, events[j])
<1>3. CASE job[j].status = "sent"
    <2>1. pl = ConvergePlan(msg[j], draft[j])
        BY <1>1, <1>3 DEF BranchPlan
    <2>. QED
        BY <2>1, <1>3 DEF ConvergePlan, CreditPlans, Settling
<1>4. CASE job[j].status = "sending"
    <2>1. msg[j].status = "tasked" /\ msg[j].pid = 0
        BY <1>1, <1>4 DEF JobOK, Reserved, Unfinished
    <2>2. pl \in {"inDoubt", "redeliver"}
        BY <1>1, <1>2, <1>4, <2>1 DEF BranchPlan, HasEvidence
    <2>. QED
        BY <2>2, <1>4 DEF CreditPlans, Settling, GivingUp
<1>5. CASE job[j].status \notin {"sent", "sending"}
    <2>1. pl = "send" /\ job[j].status \in {"queued", "retry", "failed"}
        BY <1>1, <1>2, <1>5 DEF BranchPlan, JobStatus
    <2>. QED
        BY <2>1, <1>5 DEF CreditPlans, Settling
<1>. QED
    BY <1>3, <1>4, <1>5

LEMMA ReadEventsKeeps ==
    ASSUME TypeInv, CreditInv, NEW w \in Workers, ReadEvents(w)
    PROVE  CreditInv'
<1>1. PICK j \in Jobs : j = proc[w].job /\ JobOf(w) = j
    BY CreditsAt DEF ReadEvents
<1>2. proc[w].plan = "deliver" /\ proc[w].step = 3 /\ proc[w] \in ProcType /\ w \in Procs
    BY CreditsAt DEF ReadEvents, PlaceFact
<1>. DEFINE pl == BranchPlan(w, events[j])
<1>3. Others(w) /\ proc'[w].job = j /\ proc'[w].plan = pl /\ proc'[w].step = 1
    BY <1>1, <1>2 DEF ReadEvents, Others, TypeInv, TypeOK, ProcTypes, ProcType, IdleProc
<1>4. UNCHANGED <<rowVars, hold, ledger, queue, events, account, faults>>
    BY DEF ReadEvents, billingVars, worldVars
<1>5. /\ pl \in CreditPlans \ {"deliver", "accepted"}
      /\ job[j].status = "sent" => pl \in Settling
      /\ pl = "send" => job[j].status \in {"queued", "retry", "failed"}
      /\ pl = "inDoubt" => job[j].status = "sending"
      /\ pl \notin {"giveUp", "giveUpUnparsed", "retryLater"}
      /\ pl \in Settling => job[j].status = "sent"
      /\ pl \in {"settled", "convergeDraft"} => msg[j].status = "replied"
      /\ pl \in {"settled", "convergeMessage"} => draft[j] = "sent"
    BY <1>1, <1>2, BranchFits
<1>. HIDE DEF pl
<1>6. Knows(w)'
    <2>1. Reads(w, j)' /\ SendsOn(w, j)' /\ GivesUp(w, j)'
        BY <1>3, <1>4, <1>5 DEF Reads, SendsOn, GivesUp, Releases, rowVars, GivingUp
    <2>2. Settles(w, j)'
        BY <1>3, <1>4, <1>5
        DEF Settles, SettlesAt, rowVars, Settling, Base, RepliedFrom, DraftFrom
    <2>. QED
        BY <1>3, <1>5, <2>1, <2>2 DEF Knows
<1>. QED
    BY <1>1, <1>2, <1>3, <1>4, <1>5, <1>6, PureKeeps DEF SettlesAt, Releases, Settling

-----------------------------------------------------------------------------
(* Claiming and sending.                                                   *)

(* A write of the job's status while it is unfinished.                     *)
LEMMA WriteKeeps ==
    ASSUME TypeInv, CreditInv, NEW w \in Workers, NEW j \in Jobs, proc[w].job = j,
           Others(w), proc'[w].job = j, \A i \in Jobs \ {j} : job'[i] = job[i],
           UNCHANGED <<msg, draft, hold, ledger, queue, events, account, faults>>,
           job[j].status \in Unfinished, job'[j].status \in {"sending", "sent", "failed", "retry"},
           job'[j].status = "sent" => proc'[w].plan \in Settling,
           job'[j].status = "failed" => Releases(w)' \/ "mailbox" \in Faults,
           Knows(w)'
    PROVE  CreditInv'
<1>1. PoolHeld' /\ \A i : Debited(i)' <=> Debited(i)
    BY PoolSame
<1>2. Only(j)
    BY <1>1 DEF Only
<1>3. JobOK(j) /\ draft[j] # "draft"
    BY HasAlone
<1>4. ~Debited(j)
    BY <1>3 DEF JobOK, Reserved
<1>5. Drafted(j)' /\ events'[j] = {}
    BY <1>3 DEF JobOK, Drafted
<1>6. Reserved(j)'
    BY <1>1, <1>3 DEF JobOK, Reserved, Unfinished
<1>7. Converges(j)' /\ Consumed(j)'
    BY <1>1, <1>4 DEF Converges, Consumed, Busy
<1>. QED
    BY <1>1, <1>2, <1>5, <1>6, <1>7, StaysKeeps DEF JobOK

LEMMA ClaimKeeps ==
    ASSUME TypeInv, CreditInv, NEW w \in Workers, Claim(w)
    PROVE  CreditInv'
<1>1. PICK j \in Jobs : j = proc[w].job /\ JobOf(w) = j
    BY CreditsAt DEF Claim
<1>2. proc[w].plan = "send" /\ proc[w].step = 1 /\ proc[w] \in ProcType /\ w \in Procs
    BY CreditsAt DEF Claim, PlaceFact
<1>3. job[j].status \in {"queued", "retry", "failed"}
    BY <1>1, <1>2 DEF CreditInv, Knows, SendsOn
<1>4. UNCHANGED <<msg, draft, hold, ledger, queue, events, account, faults>>
    BY DEF Claim, billingVars, worldVars
<1>5. CASE job[j].status \in Claimable
    <2>1. /\ Others(w) /\ proc'[w].job = j /\ proc'[w].plan = "send" /\ proc'[w].step = 2
          /\ job'[j].status = "sending" /\ \A i \in Jobs \ {j} : job'[i] = job[i]
        BY <1>1, <1>2, <1>5
        DEF Claim, Others, TypeInv, TypeOK, ProcTypes, ProcType, RowTypes
    <2>2. Knows(w)'
        BY <2>1
        DEF Knows, Reads, SendsOn, GivesUp, Settles, Releases, Settling, GivingUp, CreditPlans
    <2>. QED
        BY <1>1, <1>4, <1>5, <2>1, <2>2, WriteKeeps DEF Claimable, Unfinished
<1>6. CASE job[j].status \notin Claimable
    <2>1. job' = job /\ Goes(w, "ack", 1)
        BY <1>1, <1>2, <1>6, FollowGoes DEF Claim
    <2>2. Knows(w)'
        BY <2>1
        DEF Goes, Knows, Reads, SendsOn, GivesUp, Settles, Releases, Settling, GivingUp, CreditPlans
    <2>. QED
        BY <1>1, <1>2, <1>3, <1>4, <2>1, <2>2, PureKeeps
        DEF Goes, rowVars, SettlesAt, Releases, Settling
<1>. QED
    BY <1>5, <1>6

(* From sending on a claimed job's invocation submits its email, or gives  *)
(* up or retries it.                                                       *)
LEMMA SendingKeeps ==
    ASSUME TypeInv, CreditInv, NEW w \in Workers, NEW pl, NEW n,
           proc[w].plan = "send", proc[w].step \in 2..4, proc[w].job \in Jobs,
           Goes(w, pl, n), UNCHANGED <<rowVars, hold, ledger, queue, events, account>>,
           faults' = 0 => faults = 0,
           \/ pl = "send" /\ n \in 2..4
           \/ pl \in {"accepted", "retryLater", "giveUp"} /\ n = 1
           \/ pl = "giveUpUnparsed" /\ n = 1 /\ "mailbox" \in Faults
    PROVE  CreditInv'
<1>1. PICK j \in Jobs : j = proc[w].job
    OBVIOUS
<1>2. job[j].status = "sending"
    BY <1>1 DEF CreditInv, Knows, SendsOn
<1>3. Knows(w)'
    <2>1. proc'[w].job = j /\ proc'[w].plan = pl /\ proc'[w].step = n /\ job'[j].status = "sending"
        BY <1>1, <1>2 DEF Goes, rowVars
    <2>2. Reads(w, j)' /\ SendsOn(w, j)' /\ GivesUp(w, j)'
        BY <2>1 DEF Reads, SendsOn, GivesUp, Releases, GivingUp
    <2>3. Settles(w, j)'
        BY <2>1 DEF Settles, SettlesAt, Settling, Base, RepliedFrom, DraftFrom
    <2>. QED
        BY <2>1, <2>2, <2>3 DEF Knows, CreditPlans, Settling, GivingUp
<1>. QED
    BY <1>1, <1>2, <1>3, PureKeeps DEF Goes, SettlesAt, Releases, Settling

LEMMA CheckingKeeps ==
    ASSUME TypeInv, CreditInv, NEW w \in Workers, Check(w)
    PROVE  CreditInv'
<1>1. /\ proc[w].job \in Jobs /\ proc[w].plan = "send" /\ proc[w].step = 2
      /\ proc[w] \in ProcType /\ w \in Procs
    BY CreditsAt DEF Check, PlaceFact
<1>2. UNCHANGED <<rowVars, hold, ledger, queue, events, account, faults>>
    BY DEF Check, billingVars, worldVars
<1>3. \/ Goes(w, "send", 3)
      \/ Goes(w, "giveUp", 1)
      \/ "mailbox" \in Faults /\ (Goes(w, "giveUpUnparsed", 1) \/ Goes(w, "retryLater", 1))
    <2>1. PICK n : n = job[JobOf(w)].retries
        OBVIOUS
    <2>2. \/ proc' = [proc EXCEPT ![w].step = @ + 1, ![w].retries = n]
          \/ FollowWith(w, "giveUp", n)
          \/ "mailbox" \in Faults
               /\ (FollowWith(w, "giveUpUnparsed", n) \/ FollowWith(w, "retryLater", n))
        BY <2>1 DEF Check
    <2>3. proc' = [proc EXCEPT ![w].step = @ + 1, ![w].retries = n] => Goes(w, "send", 3)
        BY <1>1 DEF Goes, Others, TypeInv, TypeOK, ProcTypes, ProcType
    <2>. QED
        BY <1>1, <2>2, <2>3, FollowWithGoes
<1>4. CASE Goes(w, "send", 3)
    BY <1>1, <1>2, <1>4, SendingKeeps
<1>5. CASE Goes(w, "giveUp", 1) \/ Goes(w, "retryLater", 1)
    BY <1>1, <1>2, <1>5, SendingKeeps
<1>6. CASE "mailbox" \in Faults /\ Goes(w, "giveUpUnparsed", 1)
    BY <1>1, <1>2, <1>6, SendingKeeps
<1>. QED
    BY <1>3, <1>4, <1>5, <1>6

LEMMA DeliverLocallyKeeps ==
    ASSUME TypeInv, CreditInv, NEW w \in Workers, DeliverLocally(w)
    PROVE  CreditInv'
<1>1. proc[w].job \in Jobs /\ proc[w].plan = "send" /\ proc[w].step = 3 /\ w \in Procs
    BY CreditsAt DEF DeliverLocally, PlaceFact
<1>2. UNCHANGED <<rowVars, hold, ledger, queue, events, account, faults>>
    BY DEF DeliverLocally, billingVars
<1>3. Goes(w, "send", 4) \/ Goes(w, "accepted", 1)
    BY <1>1, AdvanceGoes, FollowGoes DEF DeliverLocally
<1>. QED
    BY <1>1, <1>2, <1>3, SendingKeeps

LEMMA SubmitKeeps ==
    ASSUME TypeInv, CreditInv, NEW w \in Workers,
           SubmitAccepted(w) \/ SubmitRefused(w) \/ SubmitAmbiguous(w)
    PROVE  CreditInv'
<1>1. /\ proc[w].job \in Jobs /\ proc[w].plan = "send" /\ proc[w].step = 4
      /\ proc[w] \in ProcType /\ w \in Procs
    BY CreditsAt DEF SubmitAccepted, SubmitRefused, SubmitAmbiguous, PlaceFact
<1>2. /\ UNCHANGED <<rowVars, hold, ledger, queue, events, account>>
      /\ faults' = 0 => faults = 0
    BY DEF SubmitAccepted, SubmitRefused, SubmitAmbiguous, Counted, billingVars, worldVars,
           TypeInv, TypeOK, WorldTypes
<1>3. Goes(w, "accepted", 1) \/ Goes(w, "retryLater", 1) \/ Goes(w, "giveUp", 1)
    <2>1. CASE SubmitAccepted(w)
        BY <1>1, <2>1 DEF SubmitAccepted, Goes, Others, TypeInv, TypeOK, ProcTypes, ProcType
    <2>2. CASE SubmitRefused(w) \/ SubmitAmbiguous(w)
        <3>1. Follow(w, CatchPlan(w, "recipients"))
            BY <2>2 DEF SubmitRefused, SubmitAmbiguous
        <3>2. CatchPlan(w, "recipients") \in {"retryLater", "giveUp"}
            BY DEF CatchPlan
        <3>. QED
            BY <1>1, <3>1, <3>2, FollowGoes
    <2>. QED
        BY <2>1, <2>2
<1>. QED
    BY <1>1, <1>2, <1>3, SendingKeeps

-----------------------------------------------------------------------------
(* The rows of a sent or failed job.                                       *)

LEMMA RowKeeps ==
    ASSUME TypeInv, CreditInv, NEW w \in Workers, NEW j \in Jobs, proc[w].job = j,
           Others(w), proc'[w].job = j,
           \A i \in Jobs \ {j} : msg'[i] = msg[i] /\ draft'[i] = draft[i],
           UNCHANGED <<job, hold, ledger, queue, events, account, faults>>,
           job[j].status \notin Unfinished, draft'[j] # "draft",
           job[j].status = "sent" => proc'[w].plan \in Settling,
           ~SettlesAt(w, 2), Releases(w) => Releases(w)', Knows(w)'
    PROVE  CreditInv'
<1>1. PoolHeld' /\ \A i : Debited(i)' <=> Debited(i)
    BY PoolSame
<1>2. Only(j)
    BY <1>1 DEF Only
<1>3. JobOK(j)'
    BY <1>1, JobMoves
<1>. QED
    BY <1>1, <1>2, <1>3, StaysKeeps

LEMMA WriteMessageRow ==
    ASSUME TypeInv, NEW w \in Workers, NEW st, NEW pid, WriteMessage(w, st, pid),
           NEW j \in Jobs, JobOf(w) = j
    PROVE  /\ msg'[j].status = st /\ \A i \in Jobs \ {j} : msg'[i] = msg[i]
           /\ UNCHANGED <<job, draft, hold, ledger, queue, events, account, faults, aged>>
           /\ Goes(w, proc[w].plan, proc[w].step + 1)
<1>1. w \in Procs
    BY DEF Procs
<1>2. /\ msg' = [msg EXCEPT ![j] = [status |-> st, pid |-> pid]]
      /\ UNCHANGED <<job, draft, hold, ledger, queue, events, account, faults, aged>>
      /\ Advance(w)
    BY DEF WriteMessage, billingVars, worldVars
<1>3. msg'[j].status = st /\ \A i \in Jobs \ {j} : msg'[i] = msg[i]
    BY <1>2 DEF TypeInv, TypeOK, RowTypes
<1>. QED
    BY <1>1, <1>2, <1>3, AdvanceGoes

LEMMA WriteDraftRow ==
    ASSUME TypeInv, NEW w \in Workers, NEW st, WriteDraft(w, st), NEW j \in Jobs, JobOf(w) = j
    PROVE  /\ draft'[j] = st /\ \A i \in Jobs \ {j} : draft'[i] = draft[i]
           /\ UNCHANGED <<job, msg, hold, ledger, queue, events, account, faults, aged>>
           /\ Goes(w, proc[w].plan, proc[w].step + 1)
<1>1. w \in Procs
    BY DEF Procs
<1>2. /\ draft' = [draft EXCEPT ![j] = st]
      /\ UNCHANGED <<job, msg, hold, ledger, queue, events, account, faults, aged>>
      /\ Advance(w)
    BY DEF WriteDraft, billingVars, worldVars
<1>3. draft'[j] = st /\ \A i \in Jobs \ {j} : draft'[i] = draft[i]
    BY <1>2 DEF TypeInv, TypeOK, RowTypes
<1>. QED
    BY <1>1, <1>2, <1>3, AdvanceGoes

(* The message of a sent job is replied to, by its sender or by the repair *)
(* of a sent job.                                                          *)
LEMMA RepliedKeeps ==
    ASSUME TypeInv, CreditInv, NEW w \in Workers, MessageSent(w) \/ MessageReplied(w)
    PROVE  CreditInv'
<1>1. PICK j \in Jobs : j = proc[w].job /\ JobOf(w) = j
    BY CreditsAt DEF MessageSent, MessageReplied
<1>2. /\ \/ proc[w].plan = "accepted" /\ proc[w].step = 2
         \/ proc[w].plan \in {"convergeMessage", "converge"} /\ proc[w].step = 1
      /\ proc[w].plan \in Settling
    BY CreditsAt DEF MessageSent, MessageReplied, PlaceFact, Settling
<1>3. /\ msg'[j].status = "replied" /\ \A i \in Jobs \ {j} : msg'[i] = msg[i]
      /\ UNCHANGED <<job, draft, hold, ledger, queue, events, account, faults, aged>>
      /\ Goes(w, proc[w].plan, proc[w].step + 1)
    BY <1>1, WriteMessageRow DEF MessageSent, MessageReplied
<1>4. /\ job[j].status = "sent" /\ draft[j] # "draft"
      /\ proc[w].step >= DraftFrom(proc[w].plan) => draft[j] = "sent"
    BY <1>1, <1>2, HasAlone DEF Knows, Settles
<1>5. Knows(w)'
    <2>1. /\ proc'[w].job = j /\ proc'[w].plan = proc[w].plan
          /\ proc'[w].step = proc[w].step + 1 /\ job'[j].status = "sent" /\ draft' = draft
        BY <1>1, <1>3, <1>4 DEF Goes
    <2>2. Reads(w, j)' /\ SendsOn(w, j)' /\ GivesUp(w, j)'
        BY <1>2, <2>1 DEF Reads, SendsOn, GivesUp, Releases, GivingUp
    <2>3. Settles(w, j)'
        BY <1>2, <1>3, <1>4, <2>1 DEF Settles, SettlesAt, Base, RepliedFrom, DraftFrom
    <2>. QED
        BY <1>2, <2>1, <2>2, <2>3 DEF Knows, CreditPlans
<1>6. ~SettlesAt(w, 2) /\ ~Releases(w)
    BY <1>2 DEF SettlesAt, Base, Releases
<1>. QED
    BY <1>1, <1>2, <1>3, <1>4, <1>5, <1>6, RowKeeps DEF Goes, Unfinished

LEMMA DraftSentKeeps ==
    ASSUME TypeInv, CreditInv, NEW w \in Workers, DraftSent(w)
    PROVE  CreditInv'
<1>1. PICK j \in Jobs : j = proc[w].job /\ JobOf(w) = j
    BY CreditsAt DEF DraftSent
<1>2. /\ \/ proc[w].plan = "accepted" /\ proc[w].step = 3
         \/ proc[w].plan = "convergeDraft" /\ proc[w].step = 1
         \/ proc[w].plan = "converge" /\ proc[w].step = 2
      /\ proc[w].plan \in Settling
    BY CreditsAt DEF DraftSent, PlaceFact, Settling, Base
<1>3. /\ draft'[j] = "sent" /\ \A i \in Jobs \ {j} : draft'[i] = draft[i]
      /\ UNCHANGED <<job, msg, hold, ledger, queue, events, account, faults, aged>>
      /\ Goes(w, proc[w].plan, proc[w].step + 1)
    BY <1>1, WriteDraftRow DEF DraftSent
<1>4. job[j].status = "sent" /\ msg[j].status = "replied"
    BY <1>1, <1>2, HasAlone DEF Knows, Settles, RepliedFrom
<1>5. Knows(w)'
    <2>1. /\ proc'[w].job = j /\ proc'[w].plan = proc[w].plan
          /\ proc'[w].step = proc[w].step + 1 /\ job'[j].status = "sent" /\ msg' = msg
        BY <1>1, <1>3, <1>4 DEF Goes
    <2>2. Reads(w, j)' /\ SendsOn(w, j)' /\ GivesUp(w, j)'
        BY <1>2, <2>1 DEF Reads, SendsOn, GivesUp, Releases, GivingUp
    <2>3. Settles(w, j)'
        BY <1>2, <1>3, <1>4, <2>1 DEF Settles, SettlesAt, Base
    <2>. QED
        BY <1>2, <2>1, <2>2, <2>3 DEF Knows, CreditPlans
<1>6. ~SettlesAt(w, 2) /\ ~Releases(w)
    BY <1>2 DEF SettlesAt, Base, Releases
<1>. QED
    BY <1>1, <1>2, <1>3, <1>4, <1>5, <1>6, RowKeeps DEF Goes, Unfinished

(* The rows of a job that is given up fail with it.                        *)
LEMMA FailedKeeps ==
    ASSUME TypeInv, CreditInv, NEW w \in Workers, MessageFailed(w) \/ DraftFailed(w)
    PROVE  CreditInv'
<1>1. PICK j \in Jobs : j = proc[w].job /\ JobOf(w) = j
    BY CreditsAt DEF MessageFailed, DraftFailed
<1>2. proc[w].plan \in GivingUp /\ proc[w].step \in 2..3
    BY CreditsAt DEF MessageFailed, DraftFailed, PlaceFact
<1>3. /\ \A i \in Jobs \ {j} : msg'[i] = msg[i] /\ draft'[i] = draft[i]
      /\ UNCHANGED <<job, hold, ledger, queue, events, account, faults>>
      /\ draft'[j] \in {draft[j], "failed"}
      /\ Goes(w, proc[w].plan, proc[w].step + 1)
    BY <1>1, WriteMessageRow, WriteDraftRow DEF MessageFailed, DraftFailed
<1>4. job[j].status = "failed" /\ draft[j] # "draft"
    BY <1>1, <1>2, HasAlone DEF Knows, GivesUp
<1>5. GivesUp(w, j) /\ proc[w].plan \in CreditPlans
    BY <1>1, <1>2 DEF CreditInv, Knows, GivingUp
<1>6. Knows(w)'
    <2>1. /\ proc'[w].job = j /\ proc'[w].plan = proc[w].plan /\ hold' = hold
          /\ proc'[w].step = proc[w].step + 1 /\ job'[j].status = "failed"
        BY <1>1, <1>3, <1>4 DEF Goes
    <2>2. GivesUp(w, j)'
        BY <1>2, <1>5, <2>1 DEF GivesUp, Releases, GivingUp
    <2>3. Reads(w, j)' /\ SendsOn(w, j)' /\ Settles(w, j)'
        BY <1>2, <2>1 DEF Reads, SendsOn, Settles, SettlesAt, Settling, GivingUp
    <2>. QED
        BY <1>5, <2>1, <2>2, <2>3 DEF Knows
<1>7. ~SettlesAt(w, 2) /\ (Releases(w) => Releases(w)')
    BY <1>2, <1>3 DEF SettlesAt, Settling, GivingUp, Releases, Goes
<1>. QED
    BY <1>1, <1>3, <1>4, <1>6, <1>7, RowKeeps DEF Goes, Unfinished

-----------------------------------------------------------------------------
(* The status of the job.                                                  *)

LEMMA WriteJobRow ==
    ASSUME TypeInv, NEW w \in Workers, NEW st, NEW n, NEW err, WriteJob(w, st, n, err),
           NEW j \in Jobs, JobOf(w) = j
    PROVE  /\ job'[j].status = st /\ \A i \in Jobs \ {j} : job'[i] = job[i]
           /\ UNCHANGED <<msg, draft, hold, ledger, queue, events, account, faults>>
           /\ Goes(w, proc[w].plan, proc[w].step + 1)
<1>1. w \in Procs
    BY DEF Procs
<1>2. /\ job' = [job EXCEPT ![j] = [status |-> st, retries |-> n, error |-> err]]
      /\ UNCHANGED <<msg, draft, hold, ledger, queue, events, account, faults>>
      /\ Advance(w)
    BY DEF WriteJob, billingVars, worldVars
<1>3. job'[j].status = st /\ \A i \in Jobs \ {j} : job'[i] = job[i]
    BY <1>2 DEF TypeInv, TypeOK, RowTypes
<1>. QED
    BY <1>1, <1>2, <1>3, AdvanceGoes

LEMMA JobSentKeeps ==
    ASSUME TypeInv, CreditInv, NEW w \in Workers, JobSent(w)
    PROVE  CreditInv'
<1>1. PICK j \in Jobs : j = proc[w].job /\ JobOf(w) = j
    BY CreditsAt DEF JobSent
<1>2. proc[w].plan = "accepted" /\ proc[w].step = 1
    BY CreditsAt DEF JobSent, PlaceFact
<1>3. /\ job'[j].status = "sent" /\ \A i \in Jobs \ {j} : job'[i] = job[i]
      /\ UNCHANGED <<msg, draft, hold, ledger, queue, events, account, faults>>
      /\ Goes(w, "accepted", 2)
    BY <1>1, <1>2, WriteJobRow DEF JobSent
<1>4. job[j].status = "sending"
    BY <1>1, <1>2, HasAlone DEF Knows, Settles, Settling
<1>5. Knows(w)'
    <2>1. /\ proc'[w].job = j /\ proc'[w].plan = "accepted" /\ proc'[w].step = 2
          /\ job'[j].status = "sent"
        BY <1>1, <1>3 DEF Goes
    <2>2. Reads(w, j)' /\ SendsOn(w, j)' /\ GivesUp(w, j)'
        BY <2>1 DEF Reads, SendsOn, GivesUp, Releases, GivingUp
    <2>3. Settles(w, j)'
        BY <2>1 DEF Settles, SettlesAt, Base, RepliedFrom, DraftFrom
    <2>. QED
        BY <2>1, <2>2, <2>3 DEF Knows, CreditPlans, Settling
<1>. QED
    BY <1>1, <1>3, <1>4, <1>5, WriteKeeps DEF Goes, Unfinished, Settling

(* A job that is given up releases what it has reserved, unless the mailbox*)
(* was lost before its recipients were known.                              *)
LEMMA JobFailedKeeps ==
    ASSUME TypeInv, CreditInv, NEW w \in Workers, JobExhausted(w) \/ JobUncertain(w)
    PROVE  CreditInv'
<1>1. PICK j \in Jobs : j = proc[w].job /\ JobOf(w) = j
    BY CreditsAt DEF JobExhausted, JobUncertain
<1>2. proc[w].plan \in GivingUp /\ proc[w].step = 1
    BY CreditsAt DEF JobExhausted, JobUncertain, PlaceFact, GivingUp
<1>3. /\ job'[j].status = "failed" /\ \A i \in Jobs \ {j} : job'[i] = job[i]
      /\ UNCHANGED <<msg, draft, hold, ledger, queue, events, account, faults>>
      /\ Goes(w, proc[w].plan, 2)
    BY <1>1, <1>2, WriteJobRow DEF JobExhausted, JobUncertain
<1>4. /\ job[j].status = "sending" /\ JobOK(j)
      /\ proc[w].plan = "giveUpUnparsed" => "mailbox" \in Faults
    BY <1>1, <1>2, HasAlone DEF Knows, GivesUp
<1>5. j \in External => hold[j] = 1
    BY <1>4 DEF JobOK, Reserved, Unfinished
<1>6. /\ proc'[w].job = j /\ proc'[w].plan = proc[w].plan /\ proc'[w].step = 2
      /\ job'[j].status = "failed" /\ hold' = hold
    BY <1>1, <1>3 DEF Goes
<1>7. Releases(w)' \/ "mailbox" \in Faults
    BY <1>2, <1>4, <1>6 DEF Releases, GivingUp
<1>8. Knows(w)'
    <2>1. GivesUp(w, j)'
        BY <1>2, <1>4, <1>5, <1>6 DEF GivesUp, GivingUp
    <2>2. Reads(w, j)' /\ SendsOn(w, j)' /\ Settles(w, j)'
        BY <1>2, <1>6 DEF Reads, SendsOn, Settles, SettlesAt, Settling, GivingUp
    <2>. QED
        BY <1>2, <1>6, <2>1, <2>2 DEF Knows, CreditPlans
<1>. QED
    BY <1>1, <1>3, <1>4, <1>7, <1>8, WriteKeeps DEF Goes, Unfinished

LEMMA JobRetryKeeps ==
    ASSUME TypeInv, CreditInv, NEW w \in Workers, JobRetry(w)
    PROVE  CreditInv'
<1>1. PICK j \in Jobs : j = proc[w].job /\ JobOf(w) = j
    BY CreditsAt DEF JobRetry
<1>2. proc[w].plan = "retryLater" /\ proc[w].step = 1
    BY CreditsAt DEF JobRetry, PlaceFact
<1>3. /\ job'[j].status = "retry" /\ \A i \in Jobs \ {j} : job'[i] = job[i]
      /\ UNCHANGED <<msg, draft, hold, ledger, queue, events, account, faults>>
      /\ Goes(w, "retryLater", 2)
    BY <1>1, <1>2, WriteJobRow DEF JobRetry
<1>4. job[j].status = "sending"
    BY <1>1, <1>2, HasAlone DEF Knows, GivesUp
<1>5. Knows(w)'
    <2>1. proc'[w].job = j /\ proc'[w].plan = "retryLater" /\ proc'[w].step = 2
        BY <1>1, <1>3 DEF Goes
    <2>. QED
        BY <2>1
        DEF Knows, Reads, SendsOn, GivesUp, Settles, SettlesAt, Releases, Settling, GivingUp,
            CreditPlans
<1>. QED
    BY <1>1, <1>3, <1>4, <1>5, WriteKeeps DEF Goes, Unfinished

-----------------------------------------------------------------------------
(* The settlement.                                                         *)

(* Where a settlement stands, and what it knows there.                     *)
LEMMA SettlesOn ==
    ASSUME TypeInv, CreditInv, NEW w \in Workers, NEW n \in 0..5, SettlesAt(w, n),
           proc[w].job \in Jobs
    PROVE  /\ job[proc[w].job].status = "sent" /\ InRows(proc[w].job)
           /\ n \in 1..4 => proc[w].job \in External
           /\ n = 1 => ~Debited(proc[w].job)
           /\ n = 2 => hold[proc[w].job] = 1
           /\ proc[w].job \in External /\ n >= 2 => Debited(proc[w].job)
           /\ proc[w].plan \in CreditPlans /\ proc[w].plan \in Settling
<1>1. /\ Settles(w, proc[w].job) /\ proc[w].plan \in Settling
      /\ proc[w].step = Base(proc[w].plan) + n
    BY HasAlone DEF Knows, SettlesAt
<1>2. /\ Base(proc[w].plan) \in Nat /\ (proc[w].plan = "accepted" => Base(proc[w].plan) = 4)
      /\ RepliedFrom(proc[w].plan) <= Base(proc[w].plan)
      /\ DraftFrom(proc[w].plan) <= Base(proc[w].plan)
      /\ RepliedFrom(proc[w].plan) \in Nat /\ DraftFrom(proc[w].plan) \in Nat
    BY <1>1 DEF Base, RepliedFrom, DraftFrom, Settling
<1>3. proc[w].plan \in CreditPlans
    BY <1>1 DEF CreditPlans
<1>. QED
    BY <1>1, <1>2, <1>3 DEF Settles, InRows, SettlesAt

(* The next place of a settlement, with what it takes to be there.         *)
LEMMA SettlesNext ==
    ASSUME TypeInv, CreditInv, NEW w \in Workers, NEW n \in 0..5, SettlesAt(w, n),
           NEW j \in Jobs, j = proc[w].job,
           NEW m \in 1..5, Goes(w, proc[w].plan, Base(proc[w].plan) + m), UNCHANGED rowVars,
           m \in 1..4 => j \in External, m = 1 => ~Debited(j)', m = 2 => hold'[j] = 1,
           j \in External /\ m >= 2 => Debited(j)'
    PROVE  Knows(w)' /\ SettlesAt(w, m)' /\ \A k \in Nat \ {m} : ~SettlesAt(w, k)'
<1>1. /\ job[j].status = "sent" /\ InRows(j)
      /\ proc[w].plan \in CreditPlans /\ proc[w].plan \in Settling
    BY SettlesOn
<1>2. /\ proc'[w].job = j /\ proc'[w].plan = proc[w].plan
      /\ proc'[w].step = Base(proc[w].plan) + m
      /\ job'[j] = job[j] /\ msg'[j] = msg[j] /\ draft'[j] = draft[j]
    BY DEF Goes, rowVars
<1>3. Base(proc[w].plan) \in Nat /\ (proc[w].plan = "accepted" => Base(proc[w].plan) = 4)
    BY <1>1 DEF Base, Settling
<1>4. SettlesAt(w, m)' /\ \A k \in Nat \ {m} : ~SettlesAt(w, k)'
    BY <1>1, <1>2, <1>3 DEF SettlesAt
<1>5. Reads(w, j)' /\ SendsOn(w, j)' /\ GivesUp(w, j)'
    BY <1>1, <1>2 DEF Reads, SendsOn, GivesUp, Releases, GivingUp, Settling
<1>6. Settles(w, j)'
    BY <1>1, <1>2, <1>3, <1>4 DEF Settles, InRows
<1>. QED
    BY <1>1, <1>2, <1>4, <1>5, <1>6 DEF Knows

LEMMA FindDebitKeeps ==
    ASSUME TypeInv, CreditInv, NEW w \in Workers, FindDebit(w)
    PROVE  CreditInv'
<1>1. PICK j \in Jobs : j = proc[w].job /\ JobOf(w) = j /\ w \in Procs
    BY CreditsAt DEF FindDebit
<1>2. proc[w].plan \in Settling /\ proc[w].step = Base(proc[w].plan)
    BY CreditsAt DEF FindDebit, PlaceFact
<1>3. Base(proc[w].plan) \in Nat
    BY <1>2 DEF Base, Settling
<1>4. SettlesAt(w, 0) /\ ~SettlesAt(w, 2) /\ ~Releases(w)
    BY <1>2, <1>3 DEF SettlesAt, Releases, Settling
<1>5. /\ UNCHANGED <<rowVars, hold, ledger, queue, events, account, faults>>
      /\ Debited(j)' <=> Debited(j)
    BY DEF FindDebit, billingVars, worldVars, Debited
<1>6. PICK m \in {1, 3, 5} :
        /\ Goes(w, proc[w].plan, Base(proc[w].plan) + m)
        /\ m # 5 => j \in External /\ (m = 1 <=> ~Debited(j))
        /\ m = 5 => j \notin External
    BY <1>1, <1>2, SkipGoes DEF FindDebit
<1>7. Knows(w)'
    BY <1>1, <1>4, <1>5, <1>6, SettlesNext
<1>. QED
    BY <1>1, <1>2, <1>4, <1>5, <1>6, <1>7, PureKeeps DEF Goes

LEMMA SumKeeps ==
    ASSUME TypeInv, CreditInv, NEW w \in Workers, ReadLedger(w) \/ WriteAvailable(w)
    PROVE  CreditInv'
<1>1. PICK j \in Jobs : j = proc[w].job /\ JobOf(w) = j /\ w \in Procs /\ proc[w] \in ProcType
    BY CreditsAt DEF ReadLedger, WriteAvailable
<1>2. PICK n \in {3, 4} : proc[w].plan \in Settling /\ proc[w].step = Base(proc[w].plan) + n
    BY CreditsAt DEF ReadLedger, WriteAvailable, PlaceFact
<1>3. Base(proc[w].plan) \in Nat
    BY <1>2 DEF Base, Settling
<1>4. SettlesAt(w, n) /\ ~SettlesAt(w, 2) /\ ~Releases(w)
    BY <1>2, <1>3 DEF SettlesAt, Releases, Settling
<1>5. /\ UNCHANGED <<rowVars, hold, ledger, queue, events, faults>>
      /\ account'.reserved = account.reserved
      /\ Debited(j)' <=> Debited(j)
    BY DEF ReadLedger, WriteAvailable, billingVars, worldVars, Debited, TypeInv, TypeOK, BillingTypes
<1>6. Goes(w, proc[w].plan, Base(proc[w].plan) + (n + 1))
    BY <1>1, <1>2, <1>3
    DEF Goes, Others, ReadLedger, WriteAvailable, TypeInv, TypeOK, ProcTypes, ProcType
<1>7. j \in External /\ Debited(j)
    BY <1>1, <1>4, SettlesOn
<1>8. Knows(w)'
    BY <1>1, <1>4, <1>5, <1>6, <1>7, SettlesNext
<1>. QED
    BY <1>1, <1>2, <1>4, <1>5, <1>6, <1>8, PureKeeps DEF Goes

(* The pool after a reservation is consumed.                               *)
LEMMA PoolShrinks ==
    ASSUME TypeInv, CreditInv, NEW j \in Jobs, hold[j] = 1,
           hold' = [hold EXCEPT ![j] = @ - 1], ledger' = ledger,
           account.reserved >= 1 => account'.reserved = account.reserved - 1
    PROVE  /\ account.reserved >= 1 /\ PoolHeld'
           /\ hold'[j] = 0 /\ \A i \in Jobs \ {j} : hold'[i] = hold[i]
           /\ \A i : Debited(i)' <=> Debited(i)
<1>1. hold'[j] = 0 /\ \A i \in Jobs \ {j} : hold'[i] = hold[i]
    BY DEF TypeInv, TypeOK, BillingTypes
<1>2. j \in Holders /\ Holders' = Holders \ {j}
    BY <1>1 DEF Holders
<1>3. IsFiniteSet(Holders) /\ account.reserved = Cardinality(Holders)
    BY DEF CreditInv, PoolHeld
<1>4. IsFiniteSet(Holders \ {j}) /\ Cardinality(Holders \ {j}) = Cardinality(Holders) - 1
    BY <1>2, <1>3, FS_RemoveElement
<1>5. Cardinality(Holders) \in Nat /\ Cardinality(Holders \ {j}) \in Nat
    BY <1>3, <1>4, FS_CardinalityType
<1>6. account.reserved >= 1
    BY <1>3, <1>4, <1>5
<1>7. IsFiniteSet(Holders)' /\ account'.reserved = Cardinality(Holders')
    BY <1>2, <1>3, <1>4, <1>6
<1>8. DebitedJobs' = DebitedJobs /\ \A i : Debited(i)' <=> Debited(i)
    BY DEF DebitedJobs, Debited
<1>9. (IsFiniteSet(DebitedJobs) /\ Cardinality(ledger) = Cardinality(DebitedJobs))'
    BY <1>8 DEF CreditInv, PoolHeld
<1>. QED
    BY <1>1, <1>6, <1>7, <1>8, <1>9 DEF PoolHeld

(* The books after a debit is appended.                                    *)
LEMMA DebitJoins ==
    ASSUME TypeInv, CreditInv, NEW j \in Jobs, ~Debited(j), NEW n,
           ledger' = ledger \union {[id |-> n, reference |-> j]}, UNCHANGED <<account, hold>>
    PROVE  /\ PoolHeld' /\ Debited(j)' /\ \A i \in Jobs \ {j} : Debited(i)' <=> Debited(i)
           /\ DebitedJobs' = DebitedJobs \union {j}
<1>1. [id |-> n, reference |-> j] \notin ledger
    BY DEF Debited
<1>2. IsFiniteSet(ledger) /\ Cardinality(ledger') = Cardinality(ledger) + 1
    BY <1>1, FS_AddElement DEF TypeInv
<1>3. \A i : Debited(i)' <=> Debited(i) \/ i = j
    <2>1. [id |-> n, reference |-> j].reference = j
        OBVIOUS
    <2>. DEFINE e == [id |-> n, reference |-> j]
    <2>2. ledger' = ledger \union {e} /\ e.reference = j
        BY <2>1
    <2>. HIDE DEF e
    <2>. QED
        BY <2>2 DEF Debited
<1>4. DebitedJobs' = DebitedJobs \union {j} /\ j \notin DebitedJobs
    BY <1>3 DEF DebitedJobs
<1>5. IsFiniteSet(DebitedJobs) /\ Cardinality(ledger) = Cardinality(DebitedJobs)
    BY DEF CreditInv, PoolHeld
<1>6. /\ IsFiniteSet(DebitedJobs \union {j})
      /\ Cardinality(DebitedJobs \union {j}) = Cardinality(DebitedJobs) + 1
    BY <1>4, <1>5, FS_AddElement
<1>7. (IsFiniteSet(DebitedJobs) /\ Cardinality(ledger) = Cardinality(DebitedJobs))'
    BY <1>2, <1>4, <1>5, <1>6
<1>8. Holders' = Holders
    BY DEF Holders
<1>9. (IsFiniteSet(Holders) /\ account.reserved = Cardinality(Holders))'
    BY <1>8 DEF CreditInv, PoolHeld
<1>. QED
    BY <1>3, <1>4, <1>7, <1>9 DEF PoolHeld

LEMMA AppendDebitKeeps ==
    ASSUME TypeInv, CreditInv, NEW w \in Workers, AppendDebit(w)
    PROVE  CreditInv'
<1>1. PICK j \in Jobs : j = proc[w].job /\ JobOf(w) = j /\ w \in Procs
    BY CreditsAt DEF AppendDebit
<1>2. proc[w].plan \in Settling /\ proc[w].step = Base(proc[w].plan) + 1
    BY CreditsAt DEF AppendDebit, PlaceFact
<1>3. Base(proc[w].plan) \in Nat
    BY <1>2 DEF Base, Settling
<1>4. SettlesAt(w, 1)
    BY <1>2 DEF SettlesAt
<1>5. job[j].status = "sent" /\ j \in External /\ ~Debited(j) /\ JobOK(j) /\ draft[j] # "draft"
    BY <1>1, <1>4, SettlesOn, HasAlone
<1>6. hold[j] = 1
    BY <1>5 DEF JobOK, Reserved
<1>7. /\ UNCHANGED <<rowVars, account, hold, queue, events, faults>>
      /\ ledger' = ledger \union {[id |-> Cardinality(ledger) + 1, reference |-> j]}
      /\ Advance(w)
    BY <1>1, <1>5 DEF AppendDebit, worldVars
<1>8. PoolHeld' /\ Debited(j)' /\ \A i \in Jobs \ {j} : Debited(i)' <=> Debited(i)
    BY <1>5, <1>7, DebitJoins
<1>9. Goes(w, proc[w].plan, Base(proc[w].plan) + 2)
    BY <1>1, <1>2, <1>3, <1>7, AdvanceGoes DEF Goes
<1>10. Knows(w)' /\ SettlesAt(w, 2)'
    BY <1>1, <1>4, <1>5, <1>6, <1>7, <1>8, <1>9, SettlesNext
<1>11. JobOK(j)'
    <2>1. Busy(w, j)' /\ proc'[w].plan \in Settling /\ job'[j] = job[j] /\ hold'[j] = hold[j]
        BY <1>1, <1>2, <1>7, <1>9 DEF Busy, Goes, rowVars
    <2>2. Drafted(j)' /\ events'[j] = {}
        BY <1>5, <1>7 DEF JobOK, Drafted, rowVars
    <2>3. Reserved(j)'
        BY <1>5, <1>8, <2>1 DEF JobOK, Reserved, Unfinished
    <2>4. Converges(j)' /\ Consumed(j)'
        BY <1>5, <1>10, <2>1 DEF Converges, Consumed
    <2>. QED
        BY <2>2, <2>3, <2>4 DEF JobOK
<1>12. Only(j)
    BY <1>7, <1>8 DEF Only, rowVars
<1>. QED
    BY <1>1, <1>7, <1>8, <1>9, <1>10, <1>11, <1>12, StaysKeeps DEF Goes

LEMMA CaptureKeeps ==
    ASSUME TypeInv, CreditInv, NEW w \in Workers, Capture(w)
    PROVE  CreditInv'
<1>1. PICK j \in Jobs : j = proc[w].job /\ JobOf(w) = j /\ w \in Procs
    BY CreditsAt DEF Capture
<1>2. proc[w].plan \in Settling /\ proc[w].step = Base(proc[w].plan) + 2
    BY CreditsAt DEF Capture, PlaceFact
<1>3. Base(proc[w].plan) \in Nat
    BY <1>2 DEF Base, Settling
<1>4. SettlesAt(w, 2)
    BY <1>2 DEF SettlesAt
<1>5. /\ job[j].status = "sent" /\ j \in External /\ Debited(j) /\ hold[j] = 1
      /\ JobOK(j) /\ draft[j] # "draft"
    BY <1>1, <1>4, SettlesOn, HasAlone
<1>6. /\ UNCHANGED <<rowVars, ledger, queue, events, faults>> /\ Advance(w)
      /\ IF account.reserved >= 1
         THEN /\ account' = [account EXCEPT !.reserved = @ - 1]
              /\ hold' = [hold EXCEPT ![j] = @ - 1]
         ELSE UNCHANGED <<account, hold>>
    BY <1>1 DEF Capture, worldVars
<1>7. account.reserved >= 1
    <2>1. /\ IsFiniteSet(Holders) /\ account.reserved = Cardinality(Holders) /\ j \in Holders
        BY <1>5 DEF CreditInv, PoolHeld, Holders
    <2>. QED
        BY <2>1, FS_EmptySet, FS_CardinalityType
<1>8. /\ PoolHeld' /\ hold'[j] = 0 /\ \A i \in Jobs \ {j} : hold'[i] = hold[i]
      /\ \A i : Debited(i)' <=> Debited(i)
    <2>1. account'.reserved = account.reserved - 1 /\ hold' = [hold EXCEPT ![j] = @ - 1]
        BY <1>6, <1>7 DEF TypeInv, TypeOK, BillingTypes
    <2>. QED
        BY <1>5, <1>6, <2>1, PoolShrinks
<1>9. Goes(w, proc[w].plan, Base(proc[w].plan) + 3)
    BY <1>1, <1>2, <1>3, <1>6, AdvanceGoes DEF Goes
<1>10. Knows(w)'
    BY <1>1, <1>4, <1>5, <1>6, <1>8, <1>9, SettlesNext
<1>11. JobOK(j)'
    <2>1. Busy(w, j)' /\ proc'[w].plan \in Settling /\ job'[j] = job[j]
        BY <1>1, <1>2, <1>6, <1>9 DEF Busy, Goes, rowVars
    <2>2. Drafted(j)' /\ events'[j] = {}
        BY <1>5, <1>6 DEF JobOK, Drafted, rowVars
    <2>3. Reserved(j)'
        BY <1>5, <1>8, <2>1 DEF JobOK, Reserved, Unfinished
    <2>4. Converges(j)' /\ Consumed(j)'
        BY <1>8, <2>1 DEF Converges, Consumed
    <2>. QED
        BY <2>2, <2>3, <2>4 DEF JobOK
<1>12. Only(j)
    BY <1>6, <1>8 DEF Only, rowVars
<1>. QED
    BY <1>1, <1>6, <1>8, <1>9, <1>10, <1>11, <1>12, StaysKeeps DEF Goes

(* A release gives back what the job itself has reserved.                  *)
LEMMA ReleaseKeeps ==
    ASSUME TypeInv, CreditInv, NEW w \in Workers, Release(w)
    PROVE  CreditInv'
<1>1. PICK j \in Jobs : j = proc[w].job /\ JobOf(w) = j /\ w \in Procs
    BY CreditsAt DEF Release
<1>2. proc[w].plan \in {"giveUp", "inDoubt"} /\ proc[w].step = 4
    BY CreditsAt DEF Release, PlaceFact
<1>3. /\ job[j].status = "failed" /\ (j \in External => hold[j] = 1)
      /\ JobOK(j) /\ draft[j] # "draft"
    BY <1>1, <1>2, HasAlone DEF Knows, GivesUp, Releases, GivingUp
<1>4. hold[j] \in {0, 1} /\ (hold[j] = 1 => j \in External) /\ ~Debited(j)
    BY <1>3 DEF JobOK, Reserved
<1>5. /\ UNCHANGED <<rowVars, ledger, queue, events, faults>> /\ Advance(w)
      /\ IF j \in External /\ account.reserved >= 1
         THEN /\ account' = [available |-> account.available + 1,
                             reserved  |-> account.reserved - 1]
              /\ hold' = [hold EXCEPT ![j] = @ - 1]
         ELSE UNCHANGED <<account, hold>>
    BY <1>1 DEF Release, worldVars
<1>6. /\ PoolHeld' /\ hold'[j] = 0 /\ \A i \in Jobs \ {j} : hold'[i] = hold[i]
      /\ \A i : Debited(i)' <=> Debited(i)
    <2>1. CASE j \in External
        <3>1. IsFiniteSet(Holders) /\ account.reserved = Cardinality(Holders) /\ j \in Holders
            BY <1>3, <2>1 DEF CreditInv, PoolHeld, Holders
        <3>2. account.reserved >= 1
            BY <3>1, FS_EmptySet, FS_CardinalityType
        <3>3. account'.reserved = account.reserved - 1 /\ hold' = [hold EXCEPT ![j] = @ - 1]
            BY <1>5, <2>1, <3>2
        <3>. QED
            BY <1>3, <1>5, <2>1, <3>3, PoolShrinks
    <2>2. CASE j \notin External
        BY <1>4, <1>5, <2>2, PoolSame
    <2>. QED
        BY <2>1, <2>2
<1>7. Goes(w, proc[w].plan, 5)
    BY <1>1, <1>2, <1>5, AdvanceGoes
<1>8. Knows(w)'
    <2>1. /\ proc'[w].job = j /\ proc'[w].plan = proc[w].plan /\ proc'[w].step = 5
          /\ job'[j].status = "failed"
        BY <1>1, <1>3, <1>5, <1>7 DEF Goes, rowVars
    <2>2. GivesUp(w, j)'
        BY <1>2, <2>1 DEF GivesUp, Releases
    <2>3. Reads(w, j)' /\ SendsOn(w, j)' /\ Settles(w, j)'
        BY <1>2, <2>1 DEF Reads, SendsOn, Settles, SettlesAt, Settling
    <2>. QED
        BY <1>2, <2>1, <2>2, <2>3 DEF Knows, CreditPlans, GivingUp
<1>9. JobOK(j)'
    <2>1. Drafted(j)' /\ events'[j] = {}
        BY <1>3, <1>5 DEF JobOK, Drafted, rowVars
    <2>2. Reserved(j)' /\ Converges(j)' /\ Consumed(j)'
        BY <1>3, <1>4, <1>5, <1>6 DEF Reserved, Converges, Consumed, Unfinished, rowVars
    <2>. QED
        BY <2>1, <2>2 DEF JobOK
<1>10. Only(j)
    BY <1>5, <1>6 DEF Only, rowVars
<1>. QED
    BY <1>1, <1>5, <1>6, <1>7, <1>8, <1>9, <1>10, StaysKeeps DEF Goes

-----------------------------------------------------------------------------
(* The end of an invocation, and its beginning.                            *)

LEMMA QuitKeeps ==
    ASSUME TypeInv, CreditInv, NEW w \in Workers, NEW j \in Jobs, proc[w].job = j, Finish(w),
           UNCHANGED <<rowVars, hold, ledger, account, events>>, faults' = 0 => faults = 0,
           \A i \in Jobs \ {j} : queue'[i] = queue[i], queue'[j] \in {queue[j], queue[j] + 1},
           faults' = 0 => ~SettlesAt(w, 2) /\ ~Releases(w),
           job[j].status = "sent" =>
             queue'[j] > 0 \/ (InRows(j) /\ (j \in External => Debited(j)))
    PROVE  CreditInv'
<1>1. Others(w) /\ proc'[w] = IdleProc
    BY FinishGoes DEF Procs
<1>2. Knows(w)' /\ proc'[w].job = NoJob
    BY <1>1 DEF Knows, IdleProc, Reads, SendsOn, GivesUp, Settles, Releases, Settling, GivingUp
<1>3. PoolHeld' /\ \A i : Debited(i)' <=> Debited(i)
    BY PoolSame
<1>4. Only(j)
    BY <1>3 DEF Only, rowVars
<1>5. /\ \A q \in Workers \ {w} : proc[q].job # j
      /\ "duplicate" \notin Faults => queue[j] = 0
      /\ draft[j] # "draft" /\ JobOK(j)
    BY HasAlone
<1>6. Drafted(j)' /\ Reserved(j)' /\ events'[j] = {}
    BY <1>3, <1>5 DEF JobOK, Drafted, Reserved, rowVars
<1>7. Converges(j)'
    BY <1>3 DEF Converges, InRows, rowVars
<1>8. Consumed(j)'
    <2>1. \A q \in Workers : Busy(q, j) => q = w
        BY <1>5 DEF Busy
    <2>. QED
        BY <1>3, <1>5, <2>1 DEF JobOK, Consumed, rowVars
<1>9. "duplicate" \notin Faults => queue'[j] \in {0, 1} /\ proc'[w].job # j
    BY <1>2, <1>5, ConstantsAssumption
<1>. QED
    BY <1>1, <1>2, <1>3, <1>4, <1>5, <1>6, <1>7, <1>8, <1>9, FrameKeeps DEF JobOK

LEMMA AckKeeps ==
    ASSUME TypeInv, CreditInv, NEW w \in Workers, Ack(w)
    PROVE  CreditInv'
<1>1. PICK j \in Jobs : j = proc[w].job /\ w \in Procs
    BY CreditsAt DEF Ack
<1>2. \/ proc[w].plan \in Settling /\ proc[w].step = Base(proc[w].plan) + 5
      \/ proc[w].plan \in {"giveUp", "inDoubt"} /\ proc[w].step = 5
      \/ proc[w].plan \in {"giveUpUnparsed", "ack"}
    BY CreditsAt DEF Ack, PlaceFact
<1>3. proc[w].plan \in Settling => Base(proc[w].plan) \in Nat
    BY DEF Base, Settling
<1>4. ~SettlesAt(w, 2) /\ ~Releases(w)
    BY <1>2, <1>3 DEF SettlesAt, Releases, Settling
<1>5. UNCHANGED <<rowVars, hold, ledger, account, events, faults, queue>>
    BY DEF Ack, billingVars, worldVars
<1>6. job[j].status = "sent" => queue[j] > 0 \/ (InRows(j) /\ (j \in External => Debited(j)))
    <2>1. CASE proc[w].plan \in Settling
        <3>1. SettlesAt(w, 5)
            BY <1>2, <2>1 DEF SettlesAt, Settling
        <3>. QED
            BY <1>1, <3>1, SettlesOn
    <2>2. CASE proc[w].plan \notin Settling
        <3>1. proc[w].plan # "deliver"
            BY <1>2, <2>2 DEF Settling
        <3>2. \A q \in Workers : Busy(q, j) => q = w
            BY <1>1, HasAlone DEF Busy
        <3>3. Converges(j)
            BY <1>1, HasAlone DEF JobOK
        <3>. QED
            BY <2>2, <3>1, <3>2, <3>3 DEF Converges
    <2>. QED
        BY <2>1, <2>2
<1>7. queue'[j] = queue[j]
    BY <1>5
<1>. QED
    BY <1>1, <1>4, <1>5, <1>6, <1>7, QuitKeeps DEF Ack

LEMMA RedeliverKeeps ==
    ASSUME TypeInv, CreditInv, NEW w \in Workers, Redeliver(w)
    PROVE  CreditInv'
<1>1. PICK j \in Jobs : j = proc[w].job /\ JobOf(w) = j
    BY CreditsAt DEF Redeliver
<1>2. proc[w].plan \in {"retryLater", "redeliver"}
    BY CreditsAt DEF Redeliver, PlaceFact
<1>3. ~SettlesAt(w, 2) /\ ~Releases(w)
    BY <1>2 DEF SettlesAt, Releases, Settling
<1>4. /\ UNCHANGED <<rowVars, hold, ledger, account, events, faults>>
      /\ queue' = [queue EXCEPT ![j] = @ + 1] /\ Finish(w)
    BY <1>1 DEF Redeliver, billingVars
<1>5. /\ queue'[j] = queue[j] + 1 /\ queue'[j] > 0
      /\ \A i \in Jobs \ {j} : queue'[i] = queue[i]
    BY <1>4 DEF TypeInv, TypeOK, WorldTypes
<1>. QED
    BY <1>1, <1>3, <1>4, <1>5, QuitKeeps

LEMMA WorkerCrashKeeps ==
    ASSUME TypeInv, CreditInv, NEW w \in Workers, WorkerCrash(w)
    PROVE  CreditInv'
<1>1. PICK j \in Jobs : j = proc[w].job /\ JobOf(w) = j
    BY DEF WorkerCrash, JobOf, TypeInv, TypeOK, ProcTypes, Procs
<1>2. /\ UNCHANGED <<rowVars, hold, ledger, account, events>>
      /\ queue' = [queue EXCEPT ![j] = @ + 1] /\ Finish(w) /\ faults' # 0
    BY <1>1 DEF WorkerCrash, billingVars, Counted, TypeInv, TypeOK, WorldTypes
<1>3. /\ queue'[j] = queue[j] + 1 /\ queue'[j] > 0
      /\ \A i \in Jobs \ {j} : queue'[i] = queue[i]
    BY <1>2 DEF TypeInv, TypeOK, WorldTypes
<1>. QED
    BY <1>1, <1>2, <1>3, QuitKeeps

(* One copy, one invocation: where the queue repeats nothing the copy it   *)
(* hands out is the last, and where it does there is nobody else to take   *)
(* another.                                                                *)
LEMMA ReceiveKeeps ==
    ASSUME Undisturbed, TypeInv, CreditInv, NEW w \in Workers, NEW j \in Jobs, Receive(w, j)
    PROVE  CreditInv'
<1>1. w \in Procs /\ proc[w].plan = "idle" /\ proc[w].job = NoJob
    BY DEF Receive, CreditInv, Knows, CreditPlans, Settling, GivingUp, Procs
<1>2. /\ proc' = [proc EXCEPT ![w] = [IdleProc EXCEPT !.plan = "deliver", !.job = j]]
      /\ queue' = [queue EXCEPT ![j] = @ - 1] /\ queue[j] > 0
      /\ UNCHANGED <<rowVars, hold, ledger, account, events, faults>>
    BY DEF Receive, billingVars
<1>3. Others(w) /\ proc'[w].job = j /\ proc'[w].plan = "deliver" /\ proc'[w].step = 1
    BY <1>1, <1>2 DEF Others, TypeInv, TypeOK, ProcTypes, IdleProc
<1>4. /\ queue'[j] = queue[j] - 1 /\ queue[j] \in Nat
      /\ \A i \in Jobs \ {j} : queue'[i] = queue[i]
    BY <1>2 DEF TypeInv, TypeOK, WorldTypes
<1>5. Alone(j) /\ JobOK(j)
    BY DEF CreditInv
<1>6. \A q \in Workers \ {w} : proc[q].job # j
    BY <1>2, <1>5 DEF Alone, Busy, Undisturbed
<1>7. "duplicate" \notin Faults => queue[j] = 1
    BY <1>2, <1>4, <1>5 DEF Alone
<1>8. PoolHeld' /\ \A i : Debited(i)' <=> Debited(i)
    BY <1>2, PoolSame
<1>9. Only(j)
    BY <1>2, <1>4, <1>8 DEF Only, rowVars
<1>10. Knows(w)'
    BY <1>3 DEF Knows, Reads, SendsOn, GivesUp, Settles, Releases, Settling, GivingUp, CreditPlans
<1>11. JobOK(j)'
    <2>1. draft[j] # "draft"
        BY <1>2, <1>5 DEF JobOK, Drafted
    <2>2. Drafted(j)' /\ Reserved(j)' /\ events'[j] = {}
        BY <1>2, <1>5, <1>8, <2>1 DEF JobOK, Drafted, Reserved, rowVars
    <2>3. Converges(j)'
        BY <1>3 DEF Converges, Busy
    <2>4. Consumed(j)'
        <3>1. \A q \in Workers : ~Busy(q, j)
            BY <1>1, <1>6, ConstantsAssumption DEF Busy
        <3>. QED
            BY <1>2, <1>5, <1>8, <3>1 DEF JobOK, Consumed, rowVars
    <2>. QED
        BY <2>2, <2>3, <2>4 DEF JobOK
<1>12. "duplicate" \notin Faults => queue'[j] \in {0, 1} /\ queue'[j] # 1
    BY <1>4, <1>7
<1>. QED
    BY <1>1, <1>3, <1>6, <1>8, <1>9, <1>10, <1>11, <1>12, FrameKeeps

-----------------------------------------------------------------------------
(* The steps of nobody, and all steps together.                            *)

LEMMA NobodyKeeps ==
    ASSUME TypeInv, CreditInv, NEW j \in Jobs, proc' = proc, Only(j),
           Alone(j)', JobOK(j)', PoolHeld',
           \/ \A w \in Workers : ~Busy(w, j)
           \/ UNCHANGED <<rowVars, hold, ledger>>
    PROVE  CreditInv'
<1>1. ASSUME NEW i \in Jobs, i # j
      PROVE  Alone(i)' /\ JobOK(i)'
    <2>1. /\ job'[i] = job[i] /\ msg'[i] = msg[i] /\ draft'[i] = draft[i]
          /\ hold'[i] = hold[i] /\ queue'[i] = queue[i] /\ (Debited(i)' <=> Debited(i))
          /\ events' = events /\ (faults' = 0 => faults = 0)
        BY <1>1 DEF Only
    <2>2. Alone(i) /\ JobOK(i)
        BY DEF CreditInv
    <2>3. Alone(i)' /\ Drafted(i)' /\ Reserved(i)' /\ events'[i] = {}
        BY <2>1, <2>2 DEF Alone, Busy, JobOK, Drafted, Reserved
    <2>4. Converges(i)'
        BY <2>1, <2>2 DEF JobOK, Converges, InRows, Busy
    <2>5. Consumed(i)'
        BY <2>1, <2>2 DEF JobOK, Consumed, Busy, SettlesAt, Releases
    <2>. QED
        BY <2>3, <2>4, <2>5 DEF JobOK
<1>2. ASSUME NEW w \in Workers
      PROVE  Knows(w)'
    <2>1. Knows(w) /\ proc'[w] = proc[w] /\ w \in Procs
        BY DEF CreditInv, Procs
    <2>2. CASE proc[w].plan = "idle"
        BY <2>1, <2>2
        DEF Knows, Reads, SendsOn, GivesUp, Settles, Releases, Settling, GivingUp
    <2>3. CASE proc[w].plan # "idle"
        <3>1. PICK i \in Jobs : proc[w].job = i
            BY <2>1, <2>3 DEF TypeInv, TypeOK, ProcTypes
        <3>2. /\ job'[i] = job[i] /\ msg'[i] = msg[i] /\ draft'[i] = draft[i]
              /\ hold'[i] = hold[i] /\ (Debited(i)' <=> Debited(i))
            BY <3>1 DEF Only, Busy, rowVars, Debited
        <3>. QED
            BY <2>1, <3>1, <3>2 DEF Knows, Reads, SendsOn, GivesUp, Settles, Releases, SettlesAt
    <2>. QED
        BY <2>2, <2>3
<1>. QED
    BY <1>1, <1>2 DEF CreditInv

LEMMA DuplicateKeeps ==
    ASSUME TypeInv, CreditInv, NEW j \in Jobs, Duplicate(j)
    PROVE  CreditInv'
<1>1. /\ UNCHANGED <<rowVars, hold, ledger, account, events, proc>>
      /\ queue' = [queue EXCEPT ![j] = @ + 1] /\ faults' # 0
      /\ "duplicate" \in Faults /\ job[j].status # "none"
    BY DEF Duplicate, billingVars, Counted, TypeInv, TypeOK, WorldTypes
<1>2. /\ queue'[j] = queue[j] + 1 /\ queue'[j] > 0
      /\ \A i \in Jobs \ {j} : queue'[i] = queue[i]
    BY <1>1 DEF TypeInv, TypeOK, WorldTypes
<1>3. PoolHeld' /\ \A i : Debited(i)' <=> Debited(i)
    BY <1>1, PoolSame
<1>4. Alone(j) /\ JobOK(j)
    BY DEF CreditInv
<1>5. Alone(j)'
    BY <1>1, <1>4 DEF Alone, Busy
<1>6. draft[j] # "draft"
    BY <1>1, <1>4 DEF JobOK, Drafted
<1>7. Drafted(j)' /\ Reserved(j)' /\ events'[j] = {}
    BY <1>1, <1>3, <1>4, <1>6 DEF JobOK, Drafted, Reserved, rowVars
<1>8. Converges(j)' /\ Consumed(j)'
    BY <1>1, <1>2 DEF Converges, Consumed
<1>9. Only(j)
    BY <1>1, <1>2, <1>3 DEF Only, rowVars
<1>. QED
    BY <1>1, <1>3, <1>5, <1>7, <1>8, <1>9, NobodyKeeps DEF JobOK

LEMMA UntouchedKeeps ==
    ASSUME TypeInv, CreditInv,
           UNCHANGED <<rowVars, hold, ledger, account, events, faults, queue, proc>>
    PROVE  CreditInv'
<1>1. PoolHeld' /\ \A i : Debited(i)' <=> Debited(i)
    BY PoolSame
<1>2. ASSUME NEW j \in Jobs
      PROVE  Alone(j)' /\ JobOK(j)'
    <2>1. Alone(j) /\ JobOK(j)
        BY DEF CreditInv
    <2>2. Alone(j)' /\ Drafted(j)' /\ Reserved(j)' /\ events'[j] = {}
        BY <1>1, <2>1 DEF Alone, Busy, JobOK, Drafted, Reserved, rowVars
    <2>3. Converges(j)'
        BY <1>1, <2>1 DEF JobOK, Converges, InRows, Busy, rowVars
    <2>4. Consumed(j)'
        BY <1>1, <2>1 DEF JobOK, Consumed, Busy, SettlesAt, Releases, rowVars
    <2>. QED
        BY <2>2, <2>3, <2>4 DEF JobOK
<1>3. ASSUME NEW w \in Workers
      PROVE  Knows(w)'
    <2>1. Knows(w)
        BY DEF CreditInv
    <2>. QED
        BY <1>1, <2>1
        DEF Knows, Reads, SendsOn, GivesUp, Settles, Releases, SettlesAt, rowVars
<1>. QED
    BY <1>1, <1>2, <1>3 DEF CreditInv

LEMMA EnqueueKeeps ==
    ASSUME TypeInv, CreditInv, NEW j \in Jobs, EnqueueDraftSend(j)
    PROVE  CreditInv'
<1>1. /\ draft[j] = "draft" /\ Alone(j) /\ JobOK(j)
      /\ hold[j] = 0 /\ ~Debited(j) /\ msg[j].pid = 0 /\ queue[j] = 0
      /\ \A w \in Workers : ~Busy(w, j)
    BY DEF CreditInv, EnqueueDraftSend, JobOK, Drafted
<1>2. /\ draft'[j] = "queued" /\ msg'[j] = [status |-> "tasked", pid |-> 0]
      /\ job'[j].status = "queued" /\ queue'[j] = 1
      /\ \A i \in Jobs \ {j} :
           job'[i] = job[i] /\ msg'[i] = msg[i] /\ draft'[i] = draft[i] /\ queue'[i] = queue[i]
    BY <1>1 DEF EnqueueDraftSend, TypeInv, TypeOK, RowTypes, WorldTypes
<1>3. /\ UNCHANGED <<ledger, events, faults, proc>> /\ \A i : Debited(i)' <=> Debited(i)
    BY DEF EnqueueDraftSend, Debited
<1>4. /\ hold'[j] = IF j \in External THEN 1 ELSE 0
      /\ \A i \in Jobs \ {j} : hold'[i] = hold[i]
    BY <1>1 DEF EnqueueDraftSend, TypeInv, TypeOK, BillingTypes
<1>5. PoolHeld'
    <2>1. CASE j \in External
        <3>1. Holders' = Holders \union {j} /\ j \notin Holders
            BY <1>1, <1>4, <2>1 DEF Holders
        <3>2. account'.reserved = account.reserved + 1
            BY <2>1 DEF EnqueueDraftSend
        <3>3. IsFiniteSet(Holders) /\ account.reserved = Cardinality(Holders)
            BY DEF CreditInv, PoolHeld
        <3>4. IsFiniteSet(Holders') /\ account'.reserved = Cardinality(Holders')
            BY <3>1, <3>2, <3>3, FS_AddElement
        <3>5. DebitedJobs' = DebitedJobs
            BY <1>3 DEF DebitedJobs
        <3>. QED
            BY <1>3, <3>4, <3>5 DEF CreditInv, PoolHeld
    <2>2. CASE j \notin External
        BY <2>2, PoolSame DEF EnqueueDraftSend
    <2>. QED
        BY <2>1, <2>2
<1>6. Alone(j)'
    BY <1>1, <1>2, <1>3 DEF Alone, Busy
<1>7. JobOK(j)'
    <2>1. Drafted(j)' /\ events'[j] = {}
        BY <1>1, <1>2, <1>3 DEF JobOK, Drafted
    <2>2. Reserved(j)'
        BY <1>1, <1>2, <1>3, <1>4 DEF Reserved, Unfinished
    <2>3. Converges(j)' /\ Consumed(j)'
        BY <1>1, <1>2, <1>3 DEF Converges, Consumed
    <2>. QED
        BY <2>1, <2>2, <2>3 DEF JobOK
<1>8. Only(j)
    BY <1>2, <1>3, <1>4 DEF Only
<1>. QED
    BY <1>1, <1>3, <1>5, <1>6, <1>7, <1>8, NobodyKeeps

LEMMA WorkerKeeps ==
    ASSUME Undisturbed, TypeInv, CreditInv, NEW w \in Workers, WorkerStep(w) \/ WorkerFault(w)
    PROVE  CreditInv'
<1>1. ~ (ReadFails(w) \/ WorkerWriteFails(w))
    BY DEF Undisturbed, ReadFails, WorkerWriteFails, Counted
<1>2. ~ (JobFailed(w) \/ JobRetryBlind(w))
    BY CreditsAt DEF JobFailed, JobRetryBlind, PlaceFact
<1>3. CASE Ack(w) \/ Redeliver(w) \/ WorkerCrash(w) \/ \E j \in Jobs : Receive(w, j)
    BY <1>3, AckKeeps, RedeliverKeeps, WorkerCrashKeeps, ReceiveKeeps
<1>4. CASE ReadJob(w) \/ ReadMessage(w) \/ ReadEvents(w)
    BY <1>4, ReadJobKeeps, ReadMessageKeeps, ReadEventsKeeps
<1>5. CASE Claim(w) \/ Check(w) \/ DeliverLocally(w)
    BY <1>5, ClaimKeeps, CheckingKeeps, DeliverLocallyKeeps
<1>6. CASE SubmitAccepted(w) \/ SubmitRefused(w) \/ SubmitAmbiguous(w)
    BY <1>6, SubmitKeeps
<1>7. CASE JobSent(w) \/ JobUncertain(w) \/ JobRetry(w) \/ JobExhausted(w)
    BY <1>7, JobSentKeeps, JobFailedKeeps, JobRetryKeeps
<1>8. CASE MessageSent(w) \/ MessageReplied(w) \/ MessageFailed(w) \/ DraftSent(w) \/ DraftFailed(w)
    BY <1>8, RepliedKeeps, FailedKeeps, DraftSentKeeps
<1>9. CASE FindDebit(w) \/ AppendDebit(w) \/ Capture(w) \/ ReadLedger(w)
           \/ WriteAvailable(w) \/ Release(w)
    BY <1>9, FindDebitKeeps, AppendDebitKeeps, CaptureKeeps, SumKeeps, ReleaseKeeps
<1>. QED
    BY <1>1, <1>2, <1>3, <1>4, <1>5, <1>6, <1>7, <1>8, <1>9 DEF WorkerStep, WorkerFault, SharedStep

LEMMA NextKeeps ==
    ASSUME Undisturbed, TypeInv, CreditInv, [Next]_vars
    PROVE  CreditInv'
<1>1. CASE \E w \in Workers : WorkerStep(w) \/ WorkerFault(w)
    BY <1>1, WorkerKeeps
<1>2. CASE \E j \in Jobs : EnqueueDraftSend(j) \/ Duplicate(j)
    BY <1>2, EnqueueKeeps, DuplicateKeeps
<1>3. CASE \E j \in Jobs : Age(j)
    BY <1>3, UntouchedKeeps DEF Age, billingVars, worldVars
<1>4. CASE UNCHANGED vars
    BY <1>4, UntouchedKeeps DEF vars, billingVars, worldVars
<1>5. Hooks = {} /\ Operators = {}
    BY DEF Undisturbed
<1>. QED
    BY <1>1, <1>2, <1>3, <1>4, <1>5 DEF Next

LEMMA InitKeeps == Init => CreditInv
<1>1. SUFFICES ASSUME Init PROVE CreditInv
    OBVIOUS
<1>2. \A w \in Workers : proc[w] = IdleProc
    BY <1>1 DEF Init, Procs
<1>3. \A j \in Jobs :
        /\ job[j].status = "none" /\ msg[j].pid = 0 /\ draft[j] = "draft" /\ events[j] = {}
        /\ queue[j] = 0 /\ hold[j] = 0 /\ ~Debited(j)
    BY <1>1 DEF Init, Debited
<1>4. ASSUME NEW j \in Jobs
      PROVE  Alone(j) /\ JobOK(j)
    <2>1. \A w \in Workers : ~Busy(w, j)
        BY <1>2, ConstantsAssumption DEF Busy, IdleProc
    <2>. QED
        BY <1>3, <2>1
        DEF Alone, JobOK, Drafted, Reserved, Converges, Consumed, Unfinished
<1>5. ASSUME NEW w \in Workers
      PROVE  Knows(w)
    BY <1>2 DEF IdleProc, Knows, Reads, SendsOn, GivesUp, Settles, Releases, Settling, GivingUp
<1>6. PoolHeld
    <2>1. Holders = {} /\ DebitedJobs = {}
        BY <1>3 DEF Holders, DebitedJobs
    <2>2. account.reserved = 0 /\ ledger = {}
        BY <1>1 DEF Init
    <2>. QED
        BY <2>1, <2>2, FS_EmptySet DEF PoolHeld
<1>. QED
    BY <1>4, <1>5, <1>6 DEF CreditInv

LEMMA CreditsHeld == ASSUME Undisturbed PROVE Spec => [](TypeInv /\ CreditInv)
<1>1. Init => TypeInv /\ CreditInv
    BY InitTypes, InitKeeps
<1>2. TypeInv /\ CreditInv /\ [Next]_vars => (TypeInv /\ CreditInv)'
    BY NextTypes, NextKeeps
<1>. QED
    BY <1>1, <1>2, PTL DEF Spec

(* A reservation is captured by its own debit or released by its own       *)
(* failure, and once: the captures and releases of the pool never add up to*)
(* more than what was reserved for the job they are made for.              *)
THEOREM OwnHoldOnly == ASSUME Undisturbed PROVE Spec => []HoldsConsumedOnce
<1>1. CreditInv => HoldsConsumedOnce
    BY DEF CreditInv, JobOK, Reserved, HoldsConsumedOnce
<1>. QED
    BY <1>1, CreditsHeld, PTL

(* A sent job at rest is sent in all its rows: whatever crash interrupts   *)
(* the writes after `sent`, the redelivered copy goes on with them until   *)
(* the message is replied, the draft sent and the debit in the ledger.     *)
THEOREM SentRowsAgree == ASSUME Undisturbed PROVE Spec => []SentConverges
<1>1. TypeInv /\ CreditInv => SentConverges
    <2>1. SUFFICES ASSUME TypeInv, CreditInv, NEW j \in Jobs, Quiet(j), job[j].status = "sent"
                   PROVE  InRows(j) /\ (j \in External => Debited(j))
        BY DEF SentConverges, InRows
    <2>2. queue[j] = 0 /\ \A w \in Workers : ~Busy(w, j)
        BY <2>1 DEF Quiet, Busy, Procs
    <2>. QED
        BY <2>1, <2>2 DEF CreditInv, JobOK, Converges
<1>. QED
    BY <1>1, CreditsHeld, PTL

(* Nothing stays reserved for a job at rest: a settlement captures what the*)
(* request reserved and every way to give up releases it.  Giving up before*)
(* the recipients are known does not, which a lost mailbox makes happen.   *)
THEOREM NothingLeftReserved ==
    ASSUME Undisturbed, "mailbox" \notin Faults
    PROVE  Spec => []ReservationSettled
<1>1. TypeInv /\ CreditInv /\ NotStranded => ReservationSettled
    <2>1. SUFFICES ASSUME TypeInv, CreditInv, NotStranded, NEW j \in Jobs, faults = 0, Quiet(j),
                          job[j].status # "none"
                   PROVE  hold[j] = 0
        BY DEF ReservationSettled
    <2>2. queue[j] = 0 /\ \A w \in Workers : ~Busy(w, j)
        BY <2>1 DEF Quiet, Busy, Procs
    <2>3. job[j].status \in {"sent", "failed"}
        BY <2>1 DEF NotStranded, TypeInv, TypeOK, RowTypes, JobStatus, Unfinished
    <2>4. Reserved(j) /\ Converges(j) /\ Consumed(j)
        BY <2>1 DEF CreditInv, JobOK
    <2>5. CASE job[j].status = "sent"
        BY <2>1, <2>2, <2>4, <2>5 DEF Reserved, Converges, Consumed
    <2>6. CASE job[j].status = "failed"
        BY <2>1, <2>2, <2>4, <2>6 DEF Reserved, Consumed
    <2>. QED
        BY <2>3, <2>5, <2>6
<1>2. Attended
    BY DEF Undisturbed, Attended
<1>3. Spec => []NotStranded
    BY <1>2, NoJobForgotten
<1>. QED
    BY <1>1, <1>3, CreditsHeld, PTL

-----------------------------------------------------------------------------
(* The books, with one invocation.                                         *)

LEMMA GrantedSame ==
    ASSUME Granted, UNCHANGED <<hold, ledger, account>>
    PROVE  Granted'
<1>1. Holders' = Holders /\ DebitedJobs' = DebitedJobs
    BY DEF Holders, DebitedJobs, Debited
<1>. QED
    BY <1>1 DEF Granted

(* A step that conserves what is free or held, and that leaves unsettled   *)
(* what is not settled.                                                    *)
LEMMA BooksStay ==
    ASSUME OneInvocation, TypeInv, CreditInv, BooksInv, NEW w \in Workers,
           ledger' = ledger, Granted',
           account'.available + account'.reserved = account.available + account.reserved,
           \A i \in Jobs : job[i].status = "sent" => job'[i].status = "sent",
           \A i \in Jobs : queue[i] > 0 =>
             queue'[i] > 0 \/ (proc'[w].job = i /\ proc'[w].plan = "deliver"),
           \A i \in External :
             /\ proc[w].job = i /\ job[i].status = "sent" /\ ~Settled(w)
             /\ proc[w].plan \in Settling \union {"deliver"}
             => \/ queue'[i] > 0
                \/ /\ proc'[w].job = i /\ proc'[w].plan \in Settling \union {"deliver"}
                   /\ ~Settled(w)',
           SettlesAt(w, 4)' => proc'[w].sum = Balance
    PROVE  BooksInv'
<1>1. \A q \in Workers : q = w
    BY DEF OneInvocation
<1>2. Balance' = Balance
    BY DEF Balance
<1>3. SumsRight'
    BY <1>1, <1>2 DEF SumsRight
<1>4. ASSUME NEW i \in Jobs, Unsettled(i)
      PROVE  Unsettled(i)'
    <2>1. i \in External /\ job'[i].status = "sent"
        BY <1>4 DEF Unsettled
    <2>2. CASE queue[i] > 0
        <3>1. CASE queue'[i] > 0
            BY <2>1, <3>1 DEF Unsettled
        <3>2. CASE proc'[w].job = i /\ proc'[w].plan = "deliver"
            BY <2>1, <3>2 DEF Unsettled, Busy, Settled, Settling
        <3>. QED
            BY <2>2, <3>1, <3>2
    <2>3. CASE ~(queue[i] > 0)
        <3>1. /\ proc[w].job = i /\ job[i].status = "sent" /\ ~Settled(w)
              /\ proc[w].plan \in Settling \union {"deliver"}
            BY <1>1, <1>4, <2>3 DEF Unsettled, Busy
        <3>2. \/ queue'[i] > 0
              \/ /\ proc'[w].job = i /\ proc'[w].plan \in Settling \union {"deliver"}
                 /\ ~Settled(w)'
            BY <2>1, <3>1
        <3>. QED
            BY <2>1, <3>2 DEF Unsettled, Busy
    <2>. QED
        BY <2>2, <2>3
<1>5. Booked'
    BY <1>2, <1>4 DEF BooksInv, Booked
<1>. QED
    BY <1>3, <1>5 DEF BooksInv

(* A step of an invocation whose job is not one to settle.                 *)
LEMMA ElsewhereBooks ==
    ASSUME OneInvocation, TypeInv, CreditInv, BooksInv, NEW w \in Workers,
           UNCHANGED <<hold, ledger, account>>,
           \A i \in Jobs : job[i].status = "sent" => job'[i].status = "sent",
           \A i \in Jobs : queue[i] > 0 => queue'[i] > 0,
           \/ proc[w].plan \notin Settling \union {"deliver"}
           \/ Settled(w)
           \/ proc[w].job \in Jobs /\ job[proc[w].job].status # "sent",
           ~SettlesAt(w, 4)'
    PROVE  BooksInv'
<1>1. Granted'
    BY GrantedSame DEF BooksInv
<1>. QED
    BY <1>1, BooksStay

LEMMA NobodyBooks ==
    ASSUME OneInvocation, TypeInv, CreditInv, BooksInv, proc' = proc,
           ledger' = ledger, Granted',
           account'.available + account'.reserved = account.available + account.reserved,
           \A i \in Jobs : job[i].status = "sent" => job'[i].status = "sent",
           \A i \in Jobs : queue[i] > 0 => queue'[i] > 0
    PROVE  BooksInv'
<1>1. Balance' = Balance
    BY DEF Balance
<1>2. SumsRight'
    BY <1>1 DEF BooksInv, SumsRight, SettlesAt
<1>3. \A i \in Jobs : Unsettled(i) => Unsettled(i)'
    BY DEF Unsettled, Busy, Settled
<1>4. Booked'
    BY <1>1, <1>3 DEF BooksInv, Booked
<1>. QED
    BY <1>2, <1>4 DEF BooksInv

LEMMA ReadingBooks ==
    ASSUME OneInvocation, TypeInv, CreditInv, BooksInv, NEW w \in Workers,
           ReadJob(w) \/ ReadMessage(w) \/ ReadEvents(w)
    PROVE  BooksInv'
<1>1. PICK j \in Jobs : j = proc[w].job /\ JobOf(w) = j
    BY CreditsAt DEF ReadJob, ReadMessage, ReadEvents
<1>2. /\ proc[w].plan = "deliver" /\ proc[w].step \in 1..3 /\ proc[w] \in ProcType /\ w \in Procs
      /\ ReadEvents(w) => proc[w].step = 3
    BY CreditsAt DEF ReadJob, ReadMessage, ReadEvents, PlaceFact
<1>3. UNCHANGED <<rowVars, hold, ledger, queue, account>>
    BY DEF ReadJob, ReadMessage, ReadEvents, billingVars, worldVars
<1>4. Granted'
    BY <1>3, GrantedSame DEF BooksInv
<1>5. /\ proc'[w].job = j /\ ~Settled(w)' /\ ~SettlesAt(w, 4)'
      /\ job[j].status = "sent" => proc'[w].plan \in Settling \union {"deliver"}
    <2>1. CASE ReadJob(w) \/ ReadMessage(w)
        <3>1. proc'[w].job = j /\ proc'[w].plan = "deliver"
            BY <1>1, <1>2, <2>1
            DEF ReadJob, ReadMessage, TypeInv, TypeOK, ProcTypes, ProcType
        <3>. QED
            BY <3>1 DEF Settled, SettlesAt, Settling
    <2>2. CASE ReadEvents(w)
        <3>1. /\ proc'[w].job = j /\ proc'[w].plan = BranchPlan(w, events[j])
              /\ proc'[w].step = 1
            BY <1>1, <1>2, <2>2 DEF ReadEvents, TypeInv, TypeOK, ProcTypes, ProcType, IdleProc
        <3>2. job[j].status = "sent" => BranchPlan(w, events[j]) \in Settling
            BY <1>1, <1>2, <2>2, BranchFits
        <3>3. \A pl \in Settling : Base(pl) \in Nat /\ Base(pl) >= 1
            BY DEF Base, Settling
        <3>. QED
            BY <3>1, <3>2, <3>3 DEF Settled, SettlesAt
    <2>. QED
        BY <2>1, <2>2
<1>6. /\ account'.available + account'.reserved = account.available + account.reserved
      /\ \A i \in Jobs : job[i].status = "sent" => job'[i].status = "sent"
      /\ \A i \in Jobs : queue[i] > 0 => queue'[i] > 0
    BY <1>3 DEF rowVars
<1>7. \A i \in External : proc[w].job = i /\ job[i].status = "sent" =>
        proc'[w].job = i /\ proc'[w].plan \in Settling \union {"deliver"} /\ ~Settled(w)'
    BY <1>1, <1>5
<1>. QED
    BY <1>3, <1>4, <1>5, <1>6, <1>7, BooksStay

LEMMA SendingBooks ==
    ASSUME OneInvocation, TypeInv, CreditInv, BooksInv, NEW w \in Workers,
           \/ Claim(w) \/ Check(w) \/ DeliverLocally(w)
           \/ SubmitAccepted(w) \/ SubmitRefused(w) \/ SubmitAmbiguous(w)
    PROVE  BooksInv'
<1>1. /\ proc[w].job \in Jobs /\ JobOf(w) = proc[w].job /\ proc[w].plan = "send"
      /\ proc[w] \in ProcType /\ w \in Procs
    BY CreditsAt
    DEF Claim, Check, DeliverLocally, SubmitAccepted, SubmitRefused, SubmitAmbiguous, PlaceFact
<1>2. UNCHANGED <<hold, ledger, account, queue>>
    BY DEF Claim, Check, DeliverLocally, SubmitAccepted, SubmitRefused, SubmitAmbiguous,
           billingVars, worldVars
<1>3. \A i \in Jobs : job[i].status = "sent" => job'[i].status = "sent"
    <2>1. CASE Claim(w)
        BY <1>1, <2>1 DEF Claim, Claimable, TypeInv, TypeOK, RowTypes
    <2>2. CASE ~Claim(w)
        BY <2>2
        DEF Check, DeliverLocally, SubmitAccepted, SubmitRefused, SubmitAmbiguous, rowVars
    <2>. QED
        BY <2>1, <2>2
<1>4. \/ proc'[w].plan \notin Settling
      \/ proc'[w].plan = "accepted" /\ proc'[w].step = 1
    <2>1. CASE Claim(w)
        <3>1. proc'[w].plan \in {"send", "ack"}
            BY <1>1, <2>1 DEF Claim, Follow, TypeInv, TypeOK, ProcTypes, ProcType
        <3>. QED
            BY <3>1 DEF Settling
    <2>2. CASE Check(w)
        <3>1. proc'[w].plan \in {"send", "giveUp", "giveUpUnparsed", "retryLater"}
            BY <1>1, <2>2 DEF Check, FollowWith, TypeInv, TypeOK, ProcTypes, ProcType
        <3>. QED
            BY <3>1 DEF Settling
    <2>3. CASE DeliverLocally(w) \/ SubmitAccepted(w)
        <3>1. proc'[w].plan = "send" \/ (proc'[w].plan = "accepted" /\ proc'[w].step = 1)
            BY <1>1, <2>3
            DEF DeliverLocally, SubmitAccepted, Follow, Advance, Skip,
                TypeInv, TypeOK, ProcTypes, ProcType
        <3>. QED
            BY <3>1 DEF Settling
    <2>4. CASE SubmitRefused(w) \/ SubmitAmbiguous(w)
        <3>1. Follow(w, CatchPlan(w, "recipients"))
            BY <2>4 DEF SubmitRefused, SubmitAmbiguous
        <3>2. CatchPlan(w, "recipients") \in {"retryLater", "giveUp"}
            BY DEF CatchPlan
        <3>3. proc'[w].plan \in {"retryLater", "giveUp"}
            BY <1>1, <3>1, <3>2, FollowGoes DEF Goes
        <3>. QED
            BY <3>3 DEF Settling
    <2>. QED
        BY <2>1, <2>2, <2>3, <2>4
<1>5. ~SettlesAt(w, 4)'
    BY <1>4 DEF SettlesAt, Base
<1>. QED
    BY <1>1, <1>2, <1>3, <1>5, ElsewhereBooks DEF Settling

LEMMA StatusBooks ==
    ASSUME OneInvocation, TypeInv, CreditInv, BooksInv, NEW w \in Workers,
           JobSent(w) \/ JobExhausted(w) \/ JobUncertain(w) \/ JobRetry(w)
    PROVE  BooksInv'
<1>1. PICK j \in Jobs : j = proc[w].job /\ JobOf(w) = j
    BY CreditsAt DEF JobSent, JobExhausted, JobUncertain, JobRetry
<1>2. proc[w].plan \in {"accepted", "retryLater"} \union GivingUp /\ proc[w].step = 1
    BY CreditsAt DEF JobSent, JobExhausted, JobUncertain, JobRetry, PlaceFact, GivingUp
<1>3. job[j].status = "sending"
    BY <1>1, <1>2, HasAlone DEF Knows, Settles, GivesUp, Settling
<1>4. /\ \A i \in Jobs \ {j} : job'[i] = job[i]
      /\ UNCHANGED <<hold, ledger, account, queue>>
      /\ Goes(w, proc[w].plan, 2)
    BY <1>1, <1>2, WriteJobRow DEF JobSent, JobExhausted, JobUncertain, JobRetry
<1>5. ~SettlesAt(w, 4)'
    BY <1>2, <1>4 DEF Goes, SettlesAt, Base, Settling, GivingUp
<1>6. \A i \in Jobs : job[i].status = "sent" => job'[i].status = "sent"
    BY <1>3, <1>4
<1>. QED
    BY <1>1, <1>3, <1>4, <1>5, <1>6, ElsewhereBooks

LEMMA RowBooks ==
    ASSUME OneInvocation, TypeInv, CreditInv, BooksInv, NEW w \in Workers,
           MessageSent(w) \/ MessageReplied(w) \/ MessageFailed(w) \/ DraftSent(w) \/ DraftFailed(w)
    PROVE  BooksInv'
<1>1. PICK j \in Jobs : j = proc[w].job /\ JobOf(w) = j
    BY CreditsAt DEF MessageSent, MessageReplied, MessageFailed, DraftSent, DraftFailed
<1>2. /\ UNCHANGED <<job, hold, ledger, account, queue>>
      /\ Goes(w, proc[w].plan, proc[w].step + 1)
    BY <1>1, WriteMessageRow, WriteDraftRow
    DEF MessageSent, MessageReplied, MessageFailed, DraftSent, DraftFailed
<1>3. \/ proc[w].plan \in GivingUp
      \/ /\ proc[w].plan \in Settling
         /\ proc[w].step \in Nat /\ proc[w].step + 1 <= Base(proc[w].plan)
    BY CreditsAt
    DEF MessageSent, MessageReplied, MessageFailed, DraftSent, DraftFailed, PlaceFact, Settling, Base
<1>4. \A pl \in Settling : Base(pl) \in Nat
    BY DEF Base, Settling
<1>5. /\ ~Settled(w)' /\ ~SettlesAt(w, 4)'
      /\ proc'[w].job = j /\ proc'[w].plan = proc[w].plan
    BY <1>1, <1>2, <1>3, <1>4 DEF Goes, Settled, SettlesAt, Settling, GivingUp
<1>6. Granted'
    BY <1>2, GrantedSame DEF BooksInv
<1>. QED
    BY <1>1, <1>2, <1>5, <1>6, BooksStay

(* The sets of jobs that hold a credit or have spent one.                  *)
LEMMA Tally ==
    ASSUME TypeInv, CreditInv
    PROVE  /\ IsFiniteSet(Holders) /\ account.reserved = Cardinality(Holders)
           /\ IsFiniteSet(DebitedJobs) /\ Balance = Credits - Cardinality(DebitedJobs)
           /\ IsFiniteSet(Holders \union DebitedJobs)
           /\ Cardinality(Holders) \in Nat /\ Cardinality(DebitedJobs) \in Nat
           /\ Cardinality(Holders \union DebitedJobs) \in Nat
           /\ Cardinality(DebitedJobs) <= Cardinality(Holders \union DebitedJobs)
           /\ Cardinality(Holders \union DebitedJobs)
                <= Cardinality(Holders) + Cardinality(DebitedJobs)
           /\ account.available \in Int /\ Credits \in Nat
<1>1. /\ IsFiniteSet(Holders) /\ account.reserved = Cardinality(Holders)
      /\ IsFiniteSet(DebitedJobs) /\ Balance = Credits - Cardinality(DebitedJobs)
    BY DEF CreditInv, PoolHeld, Balance
<1>2. /\ IsFiniteSet(Holders \union DebitedJobs)
      /\ Cardinality(Holders \union DebitedJobs)
           = Cardinality(Holders) + Cardinality(DebitedJobs)
               - Cardinality(Holders \intersect DebitedJobs)
    BY <1>1, FS_Union
<1>3. IsFiniteSet(Holders \intersect DebitedJobs)
    BY <1>1, FS_Intersection
<1>4. /\ Cardinality(Holders) \in Nat /\ Cardinality(DebitedJobs) \in Nat
      /\ Cardinality(Holders \union DebitedJobs) \in Nat
      /\ Cardinality(Holders \intersect DebitedJobs) \in Nat
    BY <1>1, <1>2, <1>3, FS_CardinalityType
<1>5. Cardinality(DebitedJobs) <= Cardinality(Holders \union DebitedJobs)
    <2>1. DebitedJobs \subseteq Holders \union DebitedJobs
        OBVIOUS
    <2>. QED
        BY <1>2, <2>1, FS_Subset
<1>6. account.available \in Int /\ Credits \in Nat
    BY ConstantsAssumption DEF TypeInv, TypeOK, BillingTypes
<1>. QED
    BY <1>1, <1>2, <1>4, <1>5, <1>6

(* A settlement on its way: where it stands before and after.              *)
LEMMA SettlementStep ==
    ASSUME TypeInv, CreditInv, NEW w \in Workers, NEW op, At(w, op),
           op \in {"FindDebit", "AppendDebit", "Capture", "ReadLedger", "WriteAvailable"}
    PROVE  /\ proc[w].plan \in Settling /\ Base(proc[w].plan) \in Nat
           /\ proc[w].step = Base(proc[w].plan) +
                CASE op = "FindDebit" -> 0
                  [] op = "AppendDebit" -> 1
                  [] op = "Capture" -> 2
                  [] op = "ReadLedger" -> 3
                  [] op = "WriteAvailable" -> 4
<1>1. PlaceFact(proc[w].plan, proc[w].step, op) /\ proc[w].step \in Nat
    BY CreditsAt
<1>2. \A pl \in Settling : Base(pl) \in Nat
    BY DEF Base, Settling
<1>3. proc[w].plan \in Settling
    BY <1>1 DEF PlaceFact
<1>. QED
    BY <1>1, <1>2, <1>3 DEF PlaceFact

LEMMA FindDebitBooks ==
    ASSUME OneInvocation, TypeInv, CreditInv, BooksInv, NEW w \in Workers, FindDebit(w)
    PROVE  BooksInv'
<1>1. PICK j \in Jobs : j = proc[w].job /\ JobOf(w) = j /\ w \in Procs
    BY CreditsAt DEF FindDebit
<1>2. /\ proc[w].plan \in Settling /\ Base(proc[w].plan) \in Nat
      /\ proc[w].step = Base(proc[w].plan)
    BY SettlementStep DEF FindDebit
<1>3. UNCHANGED <<rowVars, hold, ledger, account, queue>>
    BY DEF FindDebit, billingVars, worldVars
<1>4. PICK m \in {1, 3, 5} :
        Goes(w, proc[w].plan, Base(proc[w].plan) + m) /\ (m = 5 => j \notin External)
    BY <1>1, <1>2, SkipGoes DEF FindDebit
<1>5. /\ proc'[w].job = j /\ proc'[w].plan = proc[w].plan /\ ~SettlesAt(w, 4)'
      /\ j \in External => ~Settled(w)'
    BY <1>1, <1>2, <1>4 DEF Goes, Settled, SettlesAt
<1>6. Granted'
    BY <1>3, GrantedSame DEF BooksInv
<1>. QED
    BY <1>1, <1>2, <1>3, <1>5, <1>6, BooksStay DEF rowVars

LEMMA ReadLedgerBooks ==
    ASSUME OneInvocation, TypeInv, CreditInv, BooksInv, NEW w \in Workers, ReadLedger(w)
    PROVE  BooksInv'
<1>1. PICK j \in Jobs : j = proc[w].job /\ w \in Procs /\ proc[w] \in ProcType
    BY CreditsAt DEF ReadLedger
<1>2. /\ proc[w].plan \in Settling /\ Base(proc[w].plan) \in Nat
      /\ proc[w].step = Base(proc[w].plan) + 3
    BY SettlementStep DEF ReadLedger
<1>3. UNCHANGED <<rowVars, hold, ledger, account, queue>>
    BY DEF ReadLedger, billingVars, worldVars
<1>4. /\ proc'[w].job = j /\ proc'[w].plan = proc[w].plan /\ proc'[w].sum = Balance
      /\ proc'[w].step = Base(proc[w].plan) + 4
    BY <1>1, <1>2 DEF ReadLedger, TypeInv, TypeOK, ProcTypes, ProcType
<1>5. ~Settled(w)'
    BY <1>2, <1>4 DEF Settled
<1>6. Granted'
    BY <1>3, GrantedSame DEF BooksInv
<1>. QED
    BY <1>1, <1>2, <1>3, <1>4, <1>5, <1>6, BooksStay DEF rowVars

(* The sum that was read is the sum: nobody debited anything in between.   *)
LEMMA WriteAvailableBooks ==
    ASSUME OneInvocation, TypeInv, CreditInv, BooksInv, NEW w \in Workers, WriteAvailable(w)
    PROVE  BooksInv'
<1>1. w \in Procs /\ proc[w] \in ProcType
    BY CreditsAt DEF WriteAvailable
<1>2. /\ proc[w].plan \in Settling /\ Base(proc[w].plan) \in Nat
      /\ proc[w].step = Base(proc[w].plan) + 4
    BY SettlementStep DEF WriteAvailable
<1>3. proc[w].sum = Balance
    BY <1>2 DEF BooksInv, SumsRight, SettlesAt
<1>4. /\ account'.available = Balance - account.reserved /\ account'.reserved = account.reserved
      /\ hold' = hold /\ ledger' = ledger
    BY <1>3 DEF WriteAvailable, TypeInv, TypeOK, BillingTypes
<1>5. Holders' = Holders /\ DebitedJobs' = DebitedJobs /\ Balance' = Balance
    BY <1>4 DEF Holders, DebitedJobs, Debited, Balance
<1>6. Granted'
    BY <1>4, <1>5, Tally DEF BooksInv, Granted
<1>7. Booked'
    BY <1>4, <1>5, Tally DEF Booked
<1>8. proc'[w].plan = proc[w].plan /\ proc'[w].step = Base(proc[w].plan) + 5
    BY <1>1, <1>2 DEF WriteAvailable, TypeInv, TypeOK, ProcTypes, ProcType
<1>9. SumsRight'
    BY <1>2, <1>8 DEF SumsRight, SettlesAt, OneInvocation
<1>. QED
    BY <1>6, <1>7, <1>9 DEF BooksInv

(* Between the debit and the reconciliation the job is unsettled.          *)
LEMMA DebitBooks ==
    ASSUME OneInvocation, TypeInv, CreditInv, BooksInv, NEW w \in Workers,
           AppendDebit(w) \/ Capture(w)
    PROVE  BooksInv'
<1>1. PICK j \in Jobs : j = proc[w].job /\ JobOf(w) = j /\ w \in Procs
    BY CreditsAt DEF AppendDebit, Capture
<1>2. /\ proc[w].plan \in Settling /\ Base(proc[w].plan) \in Nat
      /\ proc[w].step = Base(proc[w].plan) + (IF AppendDebit(w) THEN 1 ELSE 2)
    BY SettlementStep DEF AppendDebit, Capture
<1>3. /\ job[j].status = "sent" /\ j \in External /\ JobOK(j)
      /\ AppendDebit(w) => ~Debited(j)
      /\ ~AppendDebit(w) => Debited(j) /\ hold[j] = 1
    BY <1>1, <1>2, SettlesOn, HasAlone DEF SettlesAt
<1>4. hold[j] = 1
    BY <1>3 DEF JobOK, Reserved
<1>5. Holders' \union DebitedJobs' = Holders \union DebitedJobs
    <2>1. CASE AppendDebit(w)
        <3>1. /\ ledger' = ledger \union {[id |-> Cardinality(ledger) + 1, reference |-> j]}
              /\ UNCHANGED <<account, hold>>
            BY <1>1, <1>3, <2>1 DEF AppendDebit
        <3>2. DebitedJobs' = DebitedJobs \union {j} /\ Holders' = Holders
            BY <1>3, <2>1, <3>1, DebitJoins DEF Holders
        <3>3. j \in Holders
            BY <1>4 DEF Holders
        <3>. QED
            BY <3>2, <3>3
    <2>2. CASE Capture(w) /\ ~AppendDebit(w)
        <3>1. j \in DebitedJobs
            BY <1>3, <2>2 DEF DebitedJobs
        <3>2. \A i \in Jobs \ {j} : hold'[i] = hold[i]
            BY <1>1, <2>2 DEF Capture, TypeInv, TypeOK, BillingTypes
        <3>3. DebitedJobs' = DebitedJobs
            BY <2>2 DEF Capture, DebitedJobs, Debited
        <3>. QED
            BY <3>1, <3>2, <3>3 DEF Holders
    <2>. QED
        BY <2>1, <2>2
<1>6. account'.available = account.available
    BY DEF AppendDebit, Capture, TypeInv, TypeOK, BillingTypes
<1>7. Granted'
    BY <1>5, <1>6 DEF BooksInv, Granted
<1>8. /\ proc'[w].job = j /\ proc'[w].plan = proc[w].plan /\ proc'[w].step = proc[w].step + 1
      /\ job' = job
    BY <1>1, AdvanceGoes DEF AppendDebit, Capture, Goes, rowVars
<1>9. ~Settled(w)' /\ ~SettlesAt(w, 4)'
    BY <1>2, <1>8 DEF Settled, SettlesAt
<1>10. Unsettled(j)'
    BY <1>2, <1>3, <1>8, <1>9 DEF Unsettled, Busy
<1>11. Booked'
    BY <1>10 DEF Booked
<1>12. SumsRight'
    BY <1>9 DEF SumsRight, OneInvocation
<1>. QED
    BY <1>7, <1>11, <1>12 DEF BooksInv

(* What is released was reserved by a job that is not debited.             *)
LEMMA ReleaseBooks ==
    ASSUME OneInvocation, TypeInv, CreditInv, BooksInv, NEW w \in Workers, Release(w)
    PROVE  BooksInv'
<1>1. PICK j \in Jobs : j = proc[w].job /\ JobOf(w) = j /\ w \in Procs
    BY CreditsAt DEF Release
<1>2. proc[w].plan \in {"giveUp", "inDoubt"} /\ proc[w].step = 4
    BY CreditsAt DEF Release, PlaceFact
<1>3. /\ job[j].status = "failed" /\ (j \in External => hold[j] = 1) /\ ~Debited(j)
    BY <1>1, <1>2, HasAlone DEF Knows, GivesUp, Releases, GivingUp, JobOK, Reserved
<1>4. UNCHANGED <<rowVars, ledger, queue>> /\ Advance(w)
    BY DEF Release, worldVars
<1>5. DebitedJobs' = DebitedJobs
    BY <1>4 DEF DebitedJobs, Debited
<1>6. /\ Granted'
      /\ account'.available + account'.reserved = account.available + account.reserved
    <2>1. CASE j \in External /\ account.reserved >= 1
        <3>1. /\ account' = [available |-> account.available + 1,
                             reserved  |-> account.reserved - 1]
              /\ hold' = [hold EXCEPT ![j] = @ - 1]
            BY <1>1, <2>1 DEF Release
        <3>2. hold'[j] = 0 /\ \A i \in Jobs \ {j} : hold'[i] = hold[i]
            BY <1>3, <2>1, <3>1 DEF TypeInv, TypeOK, BillingTypes
        <3>3. /\ j \in Holders \union DebitedJobs /\ Holders' = Holders \ {j}
            BY <1>3, <2>1, <3>2 DEF Holders
        <3>4. Holders' \union DebitedJobs' = (Holders \union DebitedJobs) \ {j}
            BY <1>3, <1>5, <3>3 DEF DebitedJobs
        <3>5. Cardinality(Holders' \union DebitedJobs') = Cardinality(Holders \union DebitedJobs) - 1
            BY <3>3, <3>4, Tally, FS_RemoveElement
        <3>6. account'.available = account.available + 1 /\ account'.reserved = account.reserved - 1
            BY <3>1
        <3>. QED
            BY <3>5, <3>6, Tally DEF BooksInv, Granted
    <2>2. CASE ~(j \in External /\ account.reserved >= 1)
        <3>1. UNCHANGED <<hold, ledger, account>>
            BY <1>1, <1>4, <2>2 DEF Release
        <3>. QED
            BY <3>1, GrantedSame DEF BooksInv
    <2>. QED
        BY <2>1, <2>2
<1>7. Goes(w, proc[w].plan, 5)
    BY <1>1, <1>2, <1>4, AdvanceGoes
<1>8. ~SettlesAt(w, 4)'
    BY <1>2, <1>7 DEF Goes, SettlesAt, Settling
<1>. QED
    BY <1>2, <1>4, <1>6, <1>8, BooksStay DEF rowVars, Settling

LEMMA QuitBooks ==
    ASSUME OneInvocation, TypeInv, CreditInv, BooksInv, NEW w \in Workers,
           Ack(w) \/ Redeliver(w) \/ WorkerCrash(w)
    PROVE  BooksInv'
<1>1. Finish(w) /\ UNCHANGED <<rowVars, hold, ledger, account>> /\ w \in Procs
    BY DEF Ack, Redeliver, WorkerCrash, billingVars, Procs
<1>2. proc'[w].plan = "idle"
    BY <1>1, FinishGoes DEF IdleProc
<1>3. ~SettlesAt(w, 4)' /\ Granted'
    BY <1>1, <1>2, GrantedSame DEF SettlesAt, Settling, BooksInv
<1>4. CASE Ack(w)
    <2>1. PlaceFact(proc[w].plan, proc[w].step, "Ack")
        BY <1>4, CreditsAt DEF Ack
    <2>2. Base(proc[w].plan) \in Nat \/ proc[w].plan \notin Settling
        BY DEF Base, Settling
    <2>3. Settled(w) \/ proc[w].plan \notin Settling \union {"deliver"}
        BY <2>1, <2>2 DEF PlaceFact, Settled, Settling
    <2>4. queue' = queue
        BY <1>4 DEF Ack, worldVars
    <2>. QED
        BY <1>1, <1>3, <2>3, <2>4, ElsewhereBooks DEF rowVars
<1>5. CASE Redeliver(w) \/ WorkerCrash(w)
    <2>1. proc[w].job \in Jobs /\ JobOf(w) = proc[w].job
        BY <1>5, CreditsAt DEF Redeliver, WorkerCrash, JobOf, TypeInv, TypeOK, ProcTypes, Procs
    <2>2. queue' = [queue EXCEPT ![proc[w].job] = @ + 1]
        BY <1>5, <2>1 DEF Redeliver, WorkerCrash
    <2>3. /\ queue'[proc[w].job] > 0
          /\ \A i \in Jobs : queue[i] > 0 => queue'[i] > 0
        BY <2>1, <2>2 DEF TypeInv, TypeOK, WorldTypes
    <2>. QED
        BY <1>1, <1>3, <2>1, <2>3, BooksStay DEF rowVars
<1>. QED
    BY <1>4, <1>5

LEMMA ReceiveBooks ==
    ASSUME OneInvocation, TypeInv, CreditInv, BooksInv, NEW w \in Workers, NEW j \in Jobs,
           Receive(w, j)
    PROVE  BooksInv'
<1>1. w \in Procs /\ proc[w].plan = "idle"
    BY DEF Receive, Procs
<1>2. /\ proc' = [proc EXCEPT ![w] = [IdleProc EXCEPT !.plan = "deliver", !.job = j]]
      /\ queue' = [queue EXCEPT ![j] = @ - 1]
      /\ UNCHANGED <<rowVars, hold, ledger, account>>
    BY DEF Receive, billingVars
<1>3. proc'[w].job = j /\ proc'[w].plan = "deliver"
    BY <1>1, <1>2 DEF TypeInv, TypeOK, ProcTypes, IdleProc
<1>4. \A i \in Jobs \ {j} : queue'[i] = queue[i]
    BY <1>2 DEF TypeInv, TypeOK, WorldTypes
<1>5. ~SettlesAt(w, 4)' /\ Granted'
    BY <1>2, <1>3, GrantedSame DEF SettlesAt, Settling, BooksInv
<1>6. \A i \in Jobs : queue[i] > 0 =>
        queue'[i] > 0 \/ (proc'[w].job = i /\ proc'[w].plan = "deliver")
    BY <1>3, <1>4
<1>7. proc[w].plan \notin Settling \union {"deliver"}
    BY <1>1 DEF Settling
<1>. QED
    BY <1>2, <1>5, <1>6, <1>7, BooksStay DEF rowVars

LEMMA EnqueueBooks ==
    ASSUME OneInvocation, TypeInv, CreditInv, BooksInv, NEW j \in Jobs, EnqueueDraftSend(j)
    PROVE  BooksInv'
<1>1. draft[j] = "draft" /\ hold[j] = 0 /\ ~Debited(j) /\ job[j].status = "none"
    BY DEF CreditInv, EnqueueDraftSend, JobOK, Drafted
<1>2. /\ proc' = proc /\ ledger' = ledger
      /\ \A i \in Jobs : job[i].status = "sent" => job'[i].status = "sent"
      /\ \A i \in Jobs : queue[i] > 0 => queue'[i] > 0
    BY <1>1 DEF EnqueueDraftSend, TypeInv, TypeOK, RowTypes, WorldTypes
<1>3. DebitedJobs' = DebitedJobs
    BY <1>2 DEF DebitedJobs, Debited
<1>4. /\ Granted'
      /\ account'.available + account'.reserved = account.available + account.reserved
    <2>1. CASE j \in External
        <3>1. /\ account' = [available |-> account.available - 1,
                             reserved  |-> account.reserved + 1]
              /\ hold' = [hold EXCEPT ![j] = @ + 1] /\ account.available >= 1
            BY <2>1 DEF EnqueueDraftSend
        <3>2. hold'[j] = 1 /\ \A i \in Jobs \ {j} : hold'[i] = hold[i]
            BY <1>1, <3>1 DEF TypeInv, TypeOK, BillingTypes
        <3>3. /\ Holders' \union DebitedJobs' = (Holders \union DebitedJobs) \union {j}
              /\ j \notin Holders \union DebitedJobs
            BY <1>1, <1>3, <3>2 DEF Holders, DebitedJobs
        <3>4. Cardinality(Holders' \union DebitedJobs')
                = Cardinality(Holders \union DebitedJobs) + 1
            BY <3>3, Tally, FS_AddElement
        <3>5. account'.available = account.available - 1 /\ account'.reserved = account.reserved + 1
            BY <3>1
        <3>. QED
            BY <3>1, <3>4, <3>5, Tally DEF BooksInv, Granted
    <2>2. CASE j \notin External
        <3>1. UNCHANGED <<hold, ledger, account>>
            BY <2>2 DEF EnqueueDraftSend
        <3>. QED
            BY <3>1, GrantedSame DEF BooksInv
    <2>. QED
        BY <2>1, <2>2
<1>. QED
    BY <1>2, <1>4, NobodyBooks

LEMMA WorkerBooks ==
    ASSUME OneInvocation, TypeInv, CreditInv, BooksInv, NEW w \in Workers,
           WorkerStep(w) \/ WorkerFault(w)
    PROVE  BooksInv'
<1>1. ~ (ReadFails(w) \/ WorkerWriteFails(w))
    BY DEF OneInvocation, Undisturbed, ReadFails, WorkerWriteFails, Counted
<1>2. ~ (JobFailed(w) \/ JobRetryBlind(w))
    BY CreditsAt DEF JobFailed, JobRetryBlind, PlaceFact
<1>3. CASE Ack(w) \/ Redeliver(w) \/ WorkerCrash(w) \/ \E j \in Jobs : Receive(w, j)
    BY <1>3, QuitBooks, ReceiveBooks
<1>4. CASE ReadJob(w) \/ ReadMessage(w) \/ ReadEvents(w)
    BY <1>4, ReadingBooks
<1>5. CASE \/ Claim(w) \/ Check(w) \/ DeliverLocally(w)
           \/ SubmitAccepted(w) \/ SubmitRefused(w) \/ SubmitAmbiguous(w)
    BY <1>5, SendingBooks
<1>6. CASE JobSent(w) \/ JobUncertain(w) \/ JobRetry(w) \/ JobExhausted(w)
    BY <1>6, StatusBooks
<1>7. CASE MessageSent(w) \/ MessageReplied(w) \/ MessageFailed(w) \/ DraftSent(w) \/ DraftFailed(w)
    BY <1>7, RowBooks
<1>8. CASE FindDebit(w) \/ AppendDebit(w) \/ Capture(w) \/ ReadLedger(w)
           \/ WriteAvailable(w) \/ Release(w)
    BY <1>8, FindDebitBooks, DebitBooks, ReadLedgerBooks, WriteAvailableBooks, ReleaseBooks
<1>. QED
    BY <1>1, <1>2, <1>3, <1>4, <1>5, <1>6, <1>7, <1>8 DEF WorkerStep, WorkerFault, SharedStep

LEMMA NextBooks ==
    ASSUME OneInvocation, TypeInv, CreditInv, BooksInv, [Next]_vars
    PROVE  BooksInv'
<1>1. CASE \E w \in Workers : WorkerStep(w) \/ WorkerFault(w)
    BY <1>1, WorkerBooks
<1>2. CASE \E j \in Jobs : EnqueueDraftSend(j)
    BY <1>2, EnqueueBooks
<1>3. CASE (\E j \in Jobs : Duplicate(j) \/ Age(j)) \/ UNCHANGED vars
    <2>1. UNCHANGED <<rowVars, hold, ledger, account, proc>>
        BY <1>3 DEF Duplicate, Age, vars, billingVars
    <2>2. \A i \in Jobs : queue[i] > 0 => queue'[i] > 0
        BY <1>3 DEF Duplicate, Age, vars, worldVars, TypeInv, TypeOK, WorldTypes
    <2>3. Granted'
        BY <2>1, GrantedSame DEF BooksInv
    <2>. QED
        BY <2>1, <2>2, <2>3, NobodyBooks DEF rowVars
<1>4. Hooks = {} /\ Operators = {}
    BY DEF OneInvocation, Undisturbed
<1>. QED
    BY <1>1, <1>2, <1>3, <1>4 DEF Next

LEMMA InitBooks == Init => BooksInv
<1>1. SUFFICES ASSUME Init PROVE BooksInv
    OBVIOUS
<1>2. Holders = {} /\ DebitedJobs = {} /\ ledger = {}
    BY <1>1 DEF Init, Holders, DebitedJobs, Debited
<1>3. Cardinality({}) = 0
    BY FS_EmptySet
<1>4. Granted /\ Booked
    BY <1>1, <1>2, <1>3, ConstantsAssumption DEF Init, Granted, Booked, Balance
<1>5. SumsRight
    BY <1>1 DEF Init, SumsRight, SettlesAt, Settling, IdleProc, Procs
<1>. QED
    BY <1>4, <1>5 DEF BooksInv

LEMMA BooksHeld == ASSUME OneInvocation PROVE Spec => [](TypeInv /\ CreditInv /\ BooksInv)
<1>1. Init => TypeInv /\ CreditInv /\ BooksInv
    BY InitTypes, InitKeeps, InitBooks
<1>2. TypeInv /\ CreditInv /\ BooksInv /\ [Next]_vars => (TypeInv /\ CreditInv /\ BooksInv)'
    BY NextTypes, NextKeeps, NextBooks DEF OneInvocation
<1>. QED
    BY <1>1, <1>2, PTL DEF Spec

(* The debits never exceed what the tenant was granted: every job that is  *)
(* debited held a credit of its own, and what is free, held or debited was *)
(* granted.  Two invocations can break it: a reconciliation that writes an *)
(* older sum gives a spent credit back.                                    *)
THEOREM WithinTheGrant == ASSUME OneInvocation PROVE Spec => []NoOverspend
<1>1. TypeInv /\ CreditInv /\ BooksInv => NoOverspend
    BY Tally DEF BooksInv, Granted, NoOverspend
<1>. QED
    BY <1>1, BooksHeld, PTL

(* With nobody at work the account agrees with the ledger: a settlement    *)
(* that a crash interrupts leaves a copy in the queue, and whoever receives*)
(* it reconciles the account, also when it finds the debit.                *)
THEOREM AccountAgrees == ASSUME OneInvocation PROVE Spec => []BooksBalance
<1>1. TypeInv /\ CreditInv /\ BooksInv => BooksBalance
    <2>1. SUFFICES ASSUME TypeInv, BooksInv, \A j \in Jobs : Quiet(j)
                   PROVE  account.available + account.reserved = Balance
        BY DEF BooksBalance
    <2>2. \A j \in Jobs : ~Unsettled(j)
        BY <2>1 DEF Quiet, Unsettled, Busy, Procs
    <2>. QED
        BY <2>1, <2>2 DEF BooksInv, Booked
<1>. QED
    BY <1>1, BooksHeld, PTL

=============================================================================
