---------------------------- MODULE EmailReceive ----------------------------
(***************************************************************************)
(* Email arrives: handleEmail for an SMTP delivery, deliverLocallyToMail-  *)
(* boxes for a local outbound job, which brings one email per recipient.   *)
(* A delivery that throws or dies is tried again by the SMTP server, or by *)
(* the outbound queue, with the same emails.                               *)
(***************************************************************************)
EXTENDS InboundStore

IsSmtp(p) == p \in Deliveries \ Local
Mine(p) == <<Email(p), p, proc[p].attempt>>

(* Where the work on one email starts: the local route looks nothing up.   *)
FirstStep(p) == IF IsSmtp(p) THEN "Lookup" ELSE "Insert"
Started(p, n) == [IdleProc EXCEPT !.pc = FirstStep(p), !.kind = "delivery", !.attempt = n,
                                  !.todo = Carries[p]]

Deliver(p) ==
    /\ At(p, "free")
    /\ \E c \in workload : c.who = p /\ c.call = "deliver"
    /\ Put(p, Started(p, 1))
    /\ UNCHANGED <<mailVars, taskVars, worldVars, historyVars, fixedVars, blobs, keyed, dead>>

Again(p) ==
    /\ At(p, "again")
    /\ Put(p, Started(p, proc[p].attempt + 1))
    /\ UNCHANGED <<mailVars, taskVars, worldVars, historyVars, fixedVars, blobs, keyed, dead>>

(* The email is done with: the next one, or the answer.                    *)
AfterEmail(p) ==
    IF Len(proc[p].todo) = 1 THEN [IdleProc EXCEPT !.pc = "accepted"]
    ELSE [Started(p, proc[p].attempt) EXCEPT !.todo = Tail(proc[p].todo)]

Resume(p, m) ==
    Put(p, IF Resumable(m) THEN [proc[p] EXCEPT !.pc = "Dispatch", !.msg = m] ELSE AfterEmail(p))

(* An email that is rejected, or that nobody brings again, is given up,    *)
(* and those the delivery has not come to are, too.                        *)
Left(p) == {m \in Messages : m[2] = p /\ \E i \in DOMAIN proc[p].todo : m[1] = proc[p].todo[i]}

Lookup(p) ==
    /\ At(p, "Lookup")
    /\ LET e == About[Email(p)]
           k == Known(e.box, e.id)
           open == box[e.box] = "active"
       IN /\ \/ ~open /\ Put(p, [IdleProc EXCEPT !.pc = "rejected"])
             \/ open /\ k # None /\ Resume(p, k)
             \/ open /\ k = None /\ Go(p, "Insert")
          /\ dropped' = IF open THEN dropped ELSE dropped \union Left(p)
    /\ UNCHANGED <<mailVars, taskVars, worldVars, fixedVars, blobs, keyed, dead, idleAt, failed,
                   faults>>

(* The raw object has a fresh name that nobody sees before the row: putting*)
(* it, the insertion and, if that finds a row, its deletion are one step.  *)
Received(e) == [NoMessage EXCEPT !.status = "received", !.id = e.id]

InsertRow(p) ==
    /\ message' = [message EXCEPT ![Mine(p)] = Received(About[Email(p)])]
    /\ blobs' = blobs \union {Raw(Mine(p))}
    /\ Put(p, [proc[p] EXCEPT !.pc = "Finalize", !.msg = Mine(p)])

(* Variant: every delivery stores its copy.                                *)
InsertAlways(p) ==
    /\ At(p, "Insert")
    /\ InsertRow(p)
    /\ UNCHANGED <<sentThread, thread, files, taskVars, worldVars, historyVars, fixedVars,
                   keyed, dead>>

Insert(p) ==
    /\ At(p, "Insert")
    /\ LET e == About[Email(p)] IN
         \/ Same(e.box, e.id) = {} /\ InsertRow(p)
         \/ Same(e.box, e.id) # {} /\ Go(p, "Relook") /\ UNCHANGED <<message, blobs>>
    /\ UNCHANGED <<sentThread, thread, files, taskVars, worldVars, historyVars, fixedVars,
                   keyed, dead>>

Finalize(p) ==
    /\ At(p, "Finalize")
    /\ \/ /\ Seen(proc[p].msg)
          /\ Go(p, "Dispatch")
          /\ UNCHANGED <<message, blobs>>
       \/ /\ ~Seen(proc[p].msg)
          /\ message' = [message EXCEPT ![proc[p].msg] = NoMessage]
          /\ blobs' = blobs \ {Raw(proc[p].msg)}
          /\ Go(p, "Bounce")
    /\ UNCHANGED <<sentThread, thread, files, taskVars, worldVars, historyVars, fixedVars,
                   keyed, dead>>

Relook(p) ==
    /\ At(p, "Relook")
    /\ LET e == About[Email(p)]
           k == Known(e.box, e.id)
       IN \/ k # None /\ Resume(p, k)
          \/ k = None /\ Go(p, "Bounce")
    /\ UNCHANGED <<mailVars, taskVars, worldVars, historyVars, fixedVars, blobs, keyed, dead>>

(* The ingest is queued, or done at once if the queue refuses.             *)
Dispatch(p) ==
    /\ At(p, "Dispatch")
    /\ \/ /\ "ingest" \notin down
          /\ Enqueue(IngestSlots, "job", Job(proc[p].msg), p, AfterEmail(p))
       \/ "ingest" \in down /\ Go(p, "Read")
    /\ UNCHANGED <<mailVars, taskVars, worldVars, historyVars, fixedVars, blobs, keyed, dead>>

(* failInboundMessage, whose own failures are swallowed.                   *)
SetFailed(p) ==
    message' = IF Seen(proc[p].msg) THEN [message EXCEPT ![proc[p].msg].status = "failed"] ELSE message

FailRow(p) ==
    /\ At(p, "FailRow")
    /\ SetFailed(p)
    /\ dead' = dead \union {proc[p].msg}
    /\ Go(p, "Bounce")
    /\ UNCHANGED <<sentThread, thread, files, taskVars, worldVars, historyVars, fixedVars,
                   blobs, keyed>>

(* The handler throws, and whoever delivered the email may try again.      *)
Bounced(p) ==
    LET again == proc[p].attempt < MaxAttempts IN
    /\ Put(p, [IdleProc EXCEPT !.pc = IF again THEN "again" ELSE "bounced",
                               !.attempt = proc[p].attempt])
    /\ dropped' = dropped \union
                    (IF ~again THEN Left(p) \union ({proc[p].msg} \ {None})
                     ELSE IF About[Email(p)].id = None THEN {proc[p].msg} \ {None} ELSE {})

Bounce(p) ==
    /\ At(p, "Bounce")
    /\ Bounced(p)
    /\ UNCHANGED <<mailVars, taskVars, worldVars, fixedVars, blobs, keyed, dead, idleAt, failed,
                   faults>>

ReceiveStep(p) ==
    \/ Deliver(p) \/ Again(p) \/ Lookup(p) \/ Insert(p) \/ Finalize(p) \/ Relook(p)
    \/ Dispatch(p) \/ FailRow(p) \/ Bounce(p)

-----------------------------------------------------------------------------
(* Failing calls.                                                          *)

(* Nothing is stored, or no read is answered: the handler throws.  A row   *)
(* that cannot be read back stays, and its raw object is deleted.          *)
FailReceive(p) ==
    /\ proc[p].pc \in {"Lookup", "Insert", "Finalize", "Relook"}
    /\ MayFail(proc[p].pc) /\ Record(proc[p].pc)
    /\ blobs' = IF At(p, "Finalize") THEN blobs \ {Raw(proc[p].msg)} ELSE blobs
    /\ Go(p, "Bounce")
    /\ UNCHANGED <<mailVars, taskVars, worldVars, fixedVars, keyed, dead>>

FailDispatch(p) ==
    /\ At(p, "Dispatch")
    /\ MayFail("Dispatch") /\ Record("Dispatch")
    /\ Go(p, "Read")
    /\ UNCHANGED <<mailVars, taskVars, worldVars, fixedVars, blobs, keyed, dead>>

FailFailRow(p) ==
    /\ At(p, "FailRow")
    /\ MayFail("FailRow") /\ Record("FailRow")
    /\ \/ SetFailed(p) /\ dead' = dead
       \/ message' = message /\ dead' = dead \union {proc[p].msg}
    /\ Go(p, "Bounce")
    /\ UNCHANGED <<sentThread, thread, files, taskVars, worldVars, fixedVars, blobs, keyed>>

ReceiveFailure(p) == FailReceive(p) \/ FailDispatch(p) \/ FailFailRow(p)
=============================================================================
