---------------------------- MODULE AgentRegistry ----------------------------
(***************************************************************************)
(* The agent registry: requests on agents and versions and on deployments  *)
(* and bindings interleave at every call, over the same rows.              *)
(***************************************************************************)
EXTENDS Deployments, AgentVersions

Init ==
    /\ agent = [a \in AllAgents |->
                  IF a \in Agents
                  THEN [status |-> "active", config |-> <<"config", a>>, default |-> None]
                  ELSE NoAgent]
    /\ version = [v \in AllVersions |-> IF v \in Versions THEN OwnerOf[v] ELSE None]
    /\ parts = [v \in AllVersions |-> IF v \in Versions THEN WholeVersion ELSE 0]
    /\ blobs = {<<"config", a>> : a \in Agents} \union ({"config", "manifest"} \X Versions)
    /\ mailbox = Mailboxes
    /\ binding = [b \in AllAgents \X Mailboxes |-> IF b[1] \in Agents THEN Bound[b] ELSE "none"]
    /\ deployment = [d \in Deployments |-> IF d \in Deployed THEN Serves[d] ELSE NoDeployment]
    /\ workload \in Workloads
    /\ failed = {}
    /\ faults = 0
    /\ proc = [r \in Requests |-> IdleProc]

Arrive(r) ==
    /\ At(r, "idle")
    /\ Cardinality({q \in Requests : Running(q)}) < MaxRunning
    /\ \E c \in workload : ArriveOnTarget(r, c) \/ Drop(r, c) \/ ArriveForAgent(r, c)
    /\ UNCHANGED historyVars

Step(r) == TargetStep(r) \/ AgentStep(r)

(* A request ends between two calls: a Worker is stopped or times out.     *)
Crash(r) ==
    /\ Running(r)
    /\ MayFail("crash") /\ Record("crash")
    /\ Go(r, "crashed")
    /\ UNCHANGED <<agentVars, targetVars>>

Next == \E r \in Requests :
          Arrive(r) \/ Step(r) \/ TargetFailure(r) \/ AgentFailure(r) \/ Crash(r)

Spec == Init /\ [][Next]_vars

-----------------------------------------------------------------------------
(* Properties.                                                             *)

(* Every variable has its type.                                            *)
TypeOK ==
    /\ agent \in [AllAgents -> [status  : {"none", "active"},
                                config  : Blobs \union {None},
                                default : AllVersions \union {None}]]
    /\ version \in [AllVersions -> AllAgents \union {None}]
    /\ parts \in [AllVersions -> 0..WholeVersion]
    /\ blobs \subseteq Blobs
    /\ mailbox \subseteq Mailboxes
    /\ binding \in [AllAgents \X Mailboxes -> Roles \union {"none"}]
    /\ deployment \in [Deployments -> [status  : DeploymentStatus,
                                       agent   : AllAgents \union {None},
                                       version : AllVersions \union {None},
                                       target  : Mailboxes \union {None}]]
    /\ workload \in Workloads
    /\ failed \subseteq FaultKinds
    /\ faults \in 0..MaxFaults
    /\ \A r \in Requests : proc[r].pc \in Steps \union Answers \union {"idle"}

Switches == {"rollout", "rollback", "status"}
Unfailing == failed \subseteq {"throw", "unclear"}

(* The statuses but for the deployment a request created.                  *)
Others(r, s) == [d \in Deployments \ {r} |-> s[d]]

(* A rollout, a rollback or a status change that ran alone and was refused *)
(* left the other deployments as it found them, or, if only its last read  *)
(* failed, switched the target to its own; one that succeeded switched it. *)
(* (setDeploymentsStatus, restoreDeploymentStatuses)                       *)
AllOrNothing ==
    \A r \in Requests :
      LET p == proc[r]
          now == Others(r, Statuses)
          switched == ActiveOn(p.target) = {p.d}
          changed == p.kind = "status" /\ p.d # None
                       /\ now = [Others(r, p.before) EXCEPT ![p.d] = deployment[p.d].status]
      IN AtRest /\ Unfailing /\ p.alone /\ p.kind \in Switches
           /\ (\A q \in Requests \ {r} : proc[q].pc = "idle")
         => /\ p.pc = "refused" => now = Others(r, p.before) \/ switched \/ changed
            /\ p.pc = "done" => switched \/ changed

(* However two rollouts at a time interleave and fail, the target they     *)
(* compete for is served when the last of them has ended, unless the       *)
(* process died, a restoring write failed or a write was done that looked  *)
(* failed.  With three at a time it is not so: the second restores, over   *)
(* the first's activation, the deployment the first is about to mark       *)
(* rolled_back, and the third is between its pauses and its restoration.   *)
(* (rolloutAgentDeployment)                                                *)
StaysServed ==
    AtRest /\ MaxRunning <= 2 /\ failed \subseteq {"throw"}
    /\ (\A c \in workload : c.kind \in {"rollout", "resolve", "bind"})
      => \A t \in Mailboxes :
           (\E d \in Deployed : Serves[d].target = t /\ Serves[d].status = "active")
             => ServingTarget(t) # {}

(* Whatever is rolled out meanwhile, a resolution never hands mail to an   *)
(* agent that was bound without a fitting role when it began, nor may such *)
(* an agent send; a resolution finds an agent if one was bound with a      *)
(* fitting role (the one asked for, or any), and such an agent is not      *)
(* denied its mailbox.  (resolveAgentExecutionTarget,                      *)
(* validateBindingResources, canAgentSendForMailbox)                       *)
FittingAgents ==
    \A r \in Requests :
      LET p == proc[r] IN p.kind \in {"resolve", "access"} =>
        /\ p.pc = "done" => p.agent \notin p.barred
        /\ p.pc = "denied" => p.agent \notin p.bound
        /\ p.pc = "unresolved" /\ p.target \in mailbox =>
             /\ p.agent = None => p.bound = {}
             /\ p.agent \notin p.bound

UpdatesOverlap == \E r \in Requests : proc[r].kind = "update" /\ ~proc[r].alone

(* The configuration an agent names is stored, through failures and        *)
(* crashes of the changes that replace it, as long as they do not overlap; *)
(* and at rest a version has all its parts and objects, or no row.         *)
(* (updateAgent, createAgentVersion)                                       *)
ArtifactsStored ==
    /\ ~UpdatesOverlap /\ "unclear" \notin failed =>
         \A a \in AllAgents : agent[a].status # "none" => agent[a].config \in blobs
    /\ AtRest /\ Unfailing =>
         \A v \in AllVersions : version[v] # None =>
           /\ parts[v] = WholeVersion
           /\ {<<"config", v>>, <<"manifest", v>>} \subseteq blobs

(* A mailbox that a deployment serves or an agent is bound to is not       *)
(* deleted: a binding that was answered stands for a mailbox that exists,  *)
(* and so does a deployment, as long as its version is not taken back by   *)
(* the creation that failed after another request had seen its row.        *)
(* (deleteMailboxIfUnreferenced, createAgentDeployment, bindMailbox,       *)
(* createAgentVersion)                                                     *)
AnsweredRowsStand ==
    \A r \in Requests : proc[r].pc = "done" =>
      /\ proc[r].kind = "bind" => HasBinding(proc[r].agent, proc[r].target)
      /\ /\ proc[r].kind \in {"deploy", "rollout"} /\ deployment[r].status # "none"
         /\ version[deployment[r].version] = deployment[r].agent
         => deployment[r].target \in mailbox
=============================================================================
