----------------------------- MODULE Deployments -----------------------------
(***************************************************************************)
(* Deployments, mailbox bindings and the resolution of the agent that      *)
(* works on a mailbox, statement by statement.                             *)
(*                                                                         *)
(*   deploy    POST /v1/agents/:id/deployments                             *)
(*   rollout   POST /v1/agents/:id/deployments/rollout                     *)
(*   rollback  POST /v1/agents/:id/deployments/:deploymentId/rollback      *)
(*   status    PATCH /v1/agents/:id/deployments/:deploymentId              *)
(*   bind      POST /v1/agents/:id/mailboxes and bind_mailbox              *)
(*   drop      deleteMailboxIfUnreferenced, when an alias is taken back    *)
(*   resolve   resolveAgentExecutionTarget                                 *)
(*   access    may this agent work on (`any`) or send from (`send`) this   *)
(*             mailbox: a draft, a send, a token, a self-addressed tool    *)
(***************************************************************************)
EXTENDS RegistryStore

-----------------------------------------------------------------------------
(* Arrival: the route reads the rows the request names and refuses it if   *)
(* one of them is missing.                                                 *)

ArriveDeploy(r, c) ==
    /\ c.kind = "deploy"
    /\ \E v \in c.on, t \in c.at :
         Begin(r, [IdleProc EXCEPT
           !.pc = IF version[v] # None /\ t \in mailbox THEN "Insert" ELSE "refused",
           !.kind = "deploy", !.agent = version[v], !.version = v, !.target = t, !.d = r,
           !.status = c.as])

ArriveRollout(r, c) ==
    /\ c.kind = "rollout"
    /\ \E v \in c.on, t \in c.at :
         Begin(r, [IdleProc EXCEPT
           !.pc = IF version[v] # None /\ t \in mailbox THEN "List" ELSE "refused",
           !.kind = "rollout", !.agent = version[v], !.version = v, !.target = t, !.d = r,
           !.status = "paused", !.restores = TRUE])

ArriveRollback(r, c) ==
    /\ c.kind = "rollback"
    /\ \E d \in c.on :
         Begin(r, [IdleProc EXCEPT
           !.pc = IF Valid(d) THEN "List" ELSE "refused",
           !.kind = "rollback", !.target = deployment[d].target, !.d = d,
           !.status = deployment[d].status, !.restores = TRUE])

(* An activation lists the target's deployment first, another status is    *)
(* written at once.                                                        *)
ArriveStatus(r, c) ==
    /\ c.kind = "status"
    /\ \E d \in c.on :
         LET activates == c.as = "active" /\ deployment[d].status # "active" IN
         Begin(r, [IdleProc EXCEPT
           !.pc = IF ~Valid(d) THEN "refused" ELSE IF activates THEN "List" ELSE "Write",
           !.kind = "status", !.target = deployment[d].target, !.d = d,
           !.status = deployment[d].status, !.restores = activates,
           !.todo = IF activates THEN <<>> ELSE <<<<d, c.as>>>>,
           !.undo = <<<<d, deployment[d].status>>>>])

-----------------------------------------------------------------------------
(* Creating a deployment.                                                  *)

(* The active deployment a request reads.  The index allows one.           *)
Serving(r) ==
    LET s == ServingTarget(proc[r].target) \ {proc[r].d}
    IN  IF s = {} THEN None ELSE CHOOSE d \in s : TRUE

(* The status writes of a rollout or a rollback, and of an activation.     *)
Each(d, s) == IF d = None THEN <<>> ELSE <<<<d, s>>>>
Switch(d, previous) ==
    Each(previous, "paused") \o <<<<d, "active">>>> \o Each(previous, "rolled_back")
Activate(d, previous) ==
    <<<<d, "paused">>>> \o Each(previous, "paused") \o <<<<d, "active">>>>

(* Variant: a snapshot of the request's own deployment only.               *)
OwnSnapshot(d, status, previous) == <<<<d, status>>>>
Snapshots(d, status, previous) == <<<<d, status>>>> \o Each(previous, "active")

List(r) ==
    /\ At(r, "List")
    /\ LET d == proc[r].d
           p == Serving(r)
       IN proc' = [proc EXCEPT
            ![r].pc = IF proc[r].kind = "rollout" THEN "Insert" ELSE "Write",
            ![r].todo = IF proc[r].kind = "status" THEN Activate(d, p) ELSE Switch(d, p),
            ![r].undo = Snapshots(d, proc[r].status, p)]
    /\ UNCHANGED <<agentVars, targetVars, historyVars>>

Row(r) == [status |-> proc[r].status, agent |-> proc[r].agent,
           version |-> proc[r].version, target |-> proc[r].target]

(* The unique index on active deployments.                                 *)
MayBeActive(t, d) == ActiveOn(t) \subseteq {d}

CanInsert(r) == proc[r].status # "active" \/ MayBeActive(proc[r].target, r)

Insert(r) ==
    /\ At(r, "Insert")
    /\ IF CanInsert(r)
       THEN deployment' = [deployment EXCEPT ![r] = Row(r)] /\ Go(r, "Check")
       ELSE Go(r, "ListTaken") /\ UNCHANGED deployment
    /\ UNCHANGED <<agentVars, mailbox, binding, historyVars>>

(* The index refused an active deployment: if the one in its way is not    *)
(* valid, it is deleted, and the insertion repeated once.                  *)
ListTaken(r) ==
    /\ At(r, "ListTaken")
    /\ Go(r, IF ServingTarget(proc[r].target) = {} THEN "Sweep" ELSE "refused")
    /\ UNCHANGED <<agentVars, targetVars, historyVars>>

Sweep(r) ==
    /\ At(r, "Sweep")
    /\ LET invalid == {d \in ActiveOn(proc[r].target) : ~Valid(d)} IN
       \/ /\ invalid = {}
          /\ Go(r, "refused")
       \/ \E d \in invalid : proc' = [proc EXCEPT ![r].pc = "SweepRow", ![r].seen = d]
    /\ UNCHANGED <<agentVars, targetVars, historyVars>>

SweepRow(r) ==
    /\ At(r, "SweepRow")
    /\ deployment' = [deployment EXCEPT ![proc[r].seen] = NoDeployment]
    /\ Go(r, "Reinsert")
    /\ UNCHANGED <<agentVars, mailbox, binding, historyVars>>

Reinsert(r) ==
    /\ At(r, "Reinsert")
    /\ IF CanInsert(r)
       THEN deployment' = [deployment EXCEPT ![r] = Row(r)] /\ Go(r, "Check")
       ELSE Go(r, "refused") /\ UNCHANGED deployment
    /\ UNCHANGED <<agentVars, mailbox, binding, historyVars>>

(* The rows the deployment names are read again.  An invalid deployment    *)
(* does not become valid, so that the last of the reads decides.           *)
Check(r) ==
    /\ At(r, "Check")
    /\ Go(r, IF ~Valid(r) THEN "Discard"
             ELSE IF proc[r].kind = "rollout" THEN "Write" ELSE "done")
    /\ UNCHANGED <<agentVars, targetVars, historyVars>>

(* The request deletes the deployment it created.                          *)
Delete(r, s) ==
    /\ At(r, s)
    /\ deployment' = [deployment EXCEPT ![r] = NoDeployment]
    /\ Go(r, "refused")
    /\ UNCHANGED <<agentVars, mailbox, binding, historyVars>>

Discard(r) == Delete(r, "Discard")
Withdraw(r) == Delete(r, "Withdraw")

-----------------------------------------------------------------------------
(* Status writes.  A write throws if the deployment is no longer valid or  *)
(* another one is active; the first that throws ends the request's list.   *)

CanSet(d, s) ==
    /\ Valid(d)
    /\ s = "active" => MayBeActive(deployment[d].target, d)

SetStatus(d, s) == deployment' = [deployment EXCEPT ![d].status = s]

(* Variant: no restoration.                                                *)
Surrender(r) == Go(r, "refused")
Throw(r) == Go(r, IF proc[r].restores THEN "Restore" ELSE "refused")

Write(r) ==
    /\ At(r, "Write")
    /\ LET w == Head(proc[r].todo) IN
       IF CanSet(w[1], w[2])
       THEN /\ SetStatus(w[1], w[2])
            /\ proc' = [proc EXCEPT ![r].todo = Tail(@),
                                    ![r].pc = IF Len(proc[r].todo) = 1 THEN "ReadBack" ELSE "Write"]
       ELSE Throw(r) /\ UNCHANGED deployment
    /\ UNCHANGED <<agentVars, mailbox, binding, historyVars>>

(* A restoring write that throws ends the restoration, and nobody is told. *)
Restore(r) ==
    /\ At(r, "Restore")
    /\ LET w == Head(proc[r].undo) IN
       IF CanSet(w[1], w[2])
       THEN /\ SetStatus(w[1], w[2])
            /\ proc' = [proc EXCEPT ![r].undo = Tail(@),
                                    ![r].pc = IF Len(proc[r].undo) = 1 THEN "refused" ELSE "Restore"]
       ELSE Go(r, "refused") /\ UNCHANGED deployment
    /\ UNCHANGED <<agentVars, mailbox, binding, historyVars>>

(* A deployment that can no longer be read is restored from its snapshots; *)
(* the first of them is its own, which throws.  A rollout's is deleted.    *)
ReadBack(r) ==
    /\ At(r, "ReadBack")
    /\ Go(r, IF Valid(proc[r].d) THEN "done"
             ELSE IF proc[r].kind = "rollout" THEN "Withdraw" ELSE "refused")
    /\ UNCHANGED <<agentVars, targetVars, historyVars>>

-----------------------------------------------------------------------------
(* Bindings.                                                               *)

ArriveBind(r, c) ==
    /\ c.kind = "bind"
    /\ \E a \in c.on, m \in c.at :
         Begin(r, [IdleProc EXCEPT
           !.pc = IF agent[a].status = "active" /\ m \in mailbox THEN "Bind" ELSE "refused",
           !.kind = "bind", !.agent = a, !.target = m, !.status = c.as])

Slot(r) == <<proc[r].agent, proc[r].target>>

Bind(r) ==
    /\ At(r, "Bind")
    /\ IF binding[Slot(r)] = "none"
       THEN /\ binding' = [binding EXCEPT ![Slot(r)] = proc[r].status]
            /\ Go(r, "BindCheck")
       ELSE Go(r, "BindTaken") /\ UNCHANGED binding
    /\ UNCHANGED <<agentVars, mailbox, deployment, historyVars>>

(* The pair has a row: the same role is an answer, another a conflict.  A  *)
(* row of a mailbox that is gone is deleted and the insertion repeated,    *)
(* only to be withdrawn.                                                   *)
BindTaken(r) ==
    /\ At(r, "BindTaken")
    /\ LET role == RoleOf(proc[r].agent, proc[r].target) IN
       Go(r, IF role = "none" THEN "Unbind"
             ELSE IF role = proc[r].status THEN "done" ELSE "refused")
    /\ UNCHANGED <<agentVars, targetVars, historyVars>>

BindCheck(r) ==
    /\ At(r, "BindCheck")
    /\ Go(r, IF proc[r].target \in mailbox THEN "done" ELSE "Unbind")
    /\ UNCHANGED <<agentVars, targetVars, historyVars>>

Unbind(r) ==
    /\ At(r, "Unbind")
    /\ binding' = [binding EXCEPT ![Slot(r)] = "none"]
    /\ Go(r, "refused")
    /\ UNCHANGED <<agentVars, mailbox, deployment, historyVars>>

(* Variant: the deletion does not look at the deployments.                 *)
Unbound(m) == \A a \in AllAgents : ~HasBinding(a, m)

(* deleteMailboxIfUnreferenced is one statement.  Threads, messages, drafts*)
(* and tasks keep a mailbox too; the aliases it is called for have none.   *)
Unreferenced(m) ==
    /\ \A a \in AllAgents : ~HasBinding(a, m)
    /\ \A d \in Deployments : deployment[d].target = m => ~Valid(d)

Drop(r, c) ==
    /\ c.kind = "drop"
    /\ \E m \in c.at :
         /\ mailbox' = IF Unreferenced(m) THEN mailbox \ {m} ELSE mailbox
         /\ Begin(r, [IdleProc EXCEPT !.pc = "done"])
    /\ UNCHANGED <<agentVars, binding, deployment>>

-----------------------------------------------------------------------------
(* Resolution.  It reads bindings and deployments in separate statements.  *)
(* Fallbacks go by the age of the bindings; any of them may be the oldest. *)

ArriveResolve(r, c) ==
    /\ c.kind = "resolve"
    /\ \E a \in c.on, m \in c.at :
         Begin(r, [IdleProc EXCEPT
           !.pc = IF m \notin mailbox THEN "unresolved"
                  ELSE IF a = None THEN "ListServing" ELSE "RequestedRole",
           !.kind = "resolve", !.agent = a, !.target = m, !.use = c.as,
           !.bound = {b \in AllAgents : HasRole(b, m, c.as)},
           !.barred = {b \in AllAgents : HasBinding(b, m) /\ ~HasRole(b, m, c.as)}])

Resolve(r, a, d) == proc' = [proc EXCEPT ![r].pc = "done", ![r].agent = a, ![r].d = d]

(* hasActiveMailboxBinding for the agent the caller asks for.  `config`    *)
(* holds that it has a fitting role.                                       *)
RequestedRole(r) ==
    /\ At(r, "RequestedRole")
    /\ LET has == HasRole(proc[r].agent, proc[r].target, proc[r].use) IN
       proc' = [proc EXCEPT ![r].pc = IF has THEN "ListServing" ELSE "RequestedAny",
                            ![r].config = has]
    /\ UNCHANGED <<agentVars, targetVars, historyVars>>

RequestedAny(r) ==
    /\ At(r, "RequestedAny")
    /\ Go(r, IF HasBinding(proc[r].agent, proc[r].target) THEN "unresolved" ELSE "ListServing")
    /\ UNCHANGED <<agentVars, targetVars, historyVars>>

(* The deployments listed here need not belong to a mailbox that exists.   *)
ListServing(r) ==
    /\ At(r, "ListServing")
    /\ LET rows == {d \in ActiveOn(proc[r].target) :
                      /\ version[deployment[d].version] = deployment[d].agent
                      /\ proc[r].agent \in {None, deployment[d].agent}} IN
       \/ rows = {} /\ Go(r, "FallbackBindings")
       \/ \E d \in rows :
            proc' = [proc EXCEPT ![r].pc = "MatchRole", ![r].seen = d,
                                 ![r].owner = deployment[d].agent]
    /\ UNCHANGED <<agentVars, targetVars, historyVars>>

MatchRole(r) ==
    /\ At(r, "MatchRole")
    /\ IF HasRole(proc[r].owner, proc[r].target, proc[r].use)
       THEN Resolve(r, proc[r].owner, proc[r].seen) ELSE Go(r, "MatchAny")
    /\ UNCHANGED <<agentVars, targetVars, historyVars>>

(* Variant: a deployed agent is the last resort whatever its role.         *)
AnyDeployed(r) ==
    /\ At(r, "MatchAny")
    /\ proc' = [proc EXCEPT ![r].pc = "FallbackBindings", ![r].fallback = TRUE]
    /\ UNCHANGED <<agentVars, targetVars, historyVars>>

(* A deployed agent that is not bound at all is the last resort.           *)
MatchAny(r) ==
    /\ At(r, "MatchAny")
    /\ proc' = [proc EXCEPT
         ![r].pc = "FallbackBindings",
         ![r].fallback = ~HasBinding(proc[r].owner, proc[r].target)]
    /\ UNCHANGED <<agentVars, targetVars, historyVars>>

Capable(r) == {a \in AllAgents : HasRole(a, proc[r].target, proc[r].use)}

(* Without a deployment, a requested agent runs its default version.       *)
FallbackBindings(r) ==
    /\ At(r, "FallbackBindings")
    /\ LET asked == proc[r].agent
           bindings == IF asked = None THEN Capable(r) ELSE {}
       IN \/ \E a \in bindings : Resolve(r, a, None)
          \/ /\ bindings = {}
             /\ IF proc[r].fallback THEN Resolve(r, proc[r].owner, proc[r].seen)
                ELSE IF asked = None THEN Go(r, "LastFallback")
                ELSE IF proc[r].config THEN Resolve(r, asked, None)
                ELSE Go(r, "unresolved")
    /\ UNCHANGED <<agentVars, targetVars, historyVars>>

(* The bindings are read a second time.                                    *)
LastFallback(r) ==
    /\ At(r, "LastFallback")
    /\ \/ \E a \in Capable(r) : Resolve(r, a, None)
       \/ Capable(r) = {} /\ Go(r, "unresolved")
    /\ UNCHANGED <<agentVars, targetVars, historyVars>>

-----------------------------------------------------------------------------
(* Access.  An agent may send from a mailbox it is bound to with a fitting *)
(* role, or serves without being bound; it may work on one it is bound to  *)
(* or serves.                                                              *)

ArriveAccess(r, c) ==
    /\ c.kind = "access"
    /\ \E a \in c.on, m \in c.at :
         Begin(r, [IdleProc EXCEPT
           !.pc = IF agent[a].status = "active" /\ m \in mailbox THEN "AccessRole" ELSE "refused",
           !.kind = "access", !.agent = a, !.target = m, !.use = c.as,
           !.bound = {b \in AllAgents : HasRole(b, m, c.as)},
           !.barred = {b \in AllAgents : HasBinding(b, m) /\ ~HasRole(b, m, c.as)}])

AccessRole(r) ==
    /\ At(r, "AccessRole")
    /\ Go(r, IF HasRole(proc[r].agent, proc[r].target, proc[r].use) THEN "done"
             ELSE IF proc[r].use = "any" THEN "AccessDeployed" ELSE "AccessAny")
    /\ UNCHANGED <<agentVars, targetVars, historyVars>>

AccessAny(r) ==
    /\ At(r, "AccessAny")
    /\ Go(r, IF HasBinding(proc[r].agent, proc[r].target) THEN "denied" ELSE "AccessDeployed")
    /\ UNCHANGED <<agentVars, targetVars, historyVars>>

(* hasActiveMailboxDeployment                                              *)
AccessDeployed(r) ==
    /\ At(r, "AccessDeployed")
    /\ Go(r, IF \E d \in ServingTarget(proc[r].target) : deployment[d].agent = proc[r].agent
             THEN "done" ELSE "denied")
    /\ UNCHANGED <<agentVars, targetVars, historyVars>>

-----------------------------------------------------------------------------
(* Failures of the writes above: the request sees an error.                *)

(* The write is not done, or it is done and its answer is lost.            *)
FailWrite(r) ==
    /\ At(r, "Write")
    /\ LET w == Head(proc[r].todo) IN
       \/ MayFail("throw") /\ Record("throw") /\ UNCHANGED deployment
       \/ /\ MayFail("unclear") /\ Record("unclear")
          /\ CanSet(w[1], w[2])
          /\ SetStatus(w[1], w[2])
    /\ Throw(r)
    /\ UNCHANGED <<agentVars, mailbox, binding>>

FailRead(r) ==
    /\ proc[r].pc \in {"List", "Insert", "ListTaken", "Sweep", "Check", "ReadBack", "Bind",
                       "BindCheck"} \union ResolveSteps
    /\ MayFail("throw") /\ Record("throw")
    /\ Go(r, "refused")
    /\ UNCHANGED <<agentVars, targetVars>>

FailUndo(r) ==
    /\ proc[r].pc \in {"Restore", "Discard", "Withdraw", "Unbind"}
    /\ MayFail("undo") /\ Record("undo")
    /\ Go(r, "refused")
    /\ UNCHANGED <<agentVars, targetVars>>

ArriveOnTarget(r, c) ==
    /\ \/ ArriveDeploy(r, c)
       \/ ArriveRollout(r, c)
       \/ ArriveRollback(r, c)
       \/ ArriveStatus(r, c)
       \/ ArriveBind(r, c)
       \/ ArriveResolve(r, c)
       \/ ArriveAccess(r, c)
    /\ UNCHANGED <<agentVars, targetVars>>

TargetStep(r) ==
    \/ List(r) \/ Insert(r) \/ ListTaken(r) \/ Sweep(r) \/ SweepRow(r) \/ Reinsert(r)
    \/ Check(r) \/ Discard(r) \/ Withdraw(r)
    \/ Write(r) \/ Restore(r) \/ ReadBack(r)
    \/ Bind(r) \/ BindTaken(r) \/ BindCheck(r) \/ Unbind(r)
    \/ RequestedRole(r) \/ RequestedAny(r) \/ ListServing(r) \/ MatchRole(r) \/ MatchAny(r)
    \/ FallbackBindings(r) \/ LastFallback(r)
    \/ AccessRole(r) \/ AccessAny(r) \/ AccessDeployed(r)

TargetFailure(r) == FailWrite(r) \/ FailRead(r) \/ FailUndo(r)
=============================================================================
