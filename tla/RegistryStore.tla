---------------------------- MODULE RegistryStore ----------------------------
(***************************************************************************)
(* The rows of the agent registry and the requests that work on them.      *)
(*                                                                         *)
(* A version may be served to a target (a mailbox) by a deployment; the    *)
(* unique index on active deployments allows one of them per target.  An   *)
(* agent is bound to a mailbox with a role.  Configurations and manifests  *)
(* are objects in R2 that the rows name.  No statement has a transaction   *)
(* around it: a request is a sequence of D1 and R2 calls, and the rows it  *)
(* inserts carry its name.                                                 *)
(***************************************************************************)
EXTENDS Integers, FiniteSets, Sequences

CONSTANTS
    Requests,    \* requests
    Agents,      \* agents that exist before any of them
    Versions,    \* versions that exist before
    Deployed,    \* deployments that exist before
    Mailboxes,   \* mailboxes that exist before
    None,        \* null
    OwnerOf,     \* the agent of each of Versions
    Serves,      \* [agent, version, target, status] of each of Deployed
    Bound,       \* the role of <<agent, mailbox>>, "none" if it is not bound
    Workloads,   \* sets of calls; a behaviour makes the calls of one of them
    Faults,      \* the kinds of failure a run allows
    MaxFaults,   \* how many failures it allows
    MaxRunning   \* how many requests run at once

Roles == {"primary", "shared", "send_only", "receive_only"}
CapableRoles == [receive |-> {"primary", "shared", "receive_only"},
                 send    |-> {"primary", "shared", "send_only"},
                 any     |-> Roles]
DeploymentStatus == {"none", "active", "paused", "rolled_back"}

(* throw: a call fails and does nothing; unclear: a write is done although *)
(* the call fails; undo: a call of an error path fails.                    *)
FaultKinds == {"crash", "throw", "unclear", "undo"}

AllAgents == Agents \union Requests
AllVersions == Versions \union Requests
Deployments == Deployed \union Requests
Blobs == {"config", "manifest"} \X (AllAgents \union AllVersions)

Kinds == {"deploy", "rollout", "rollback", "status", "bind", "drop", "resolve", "access",
          "agent", "update", "version"}

Settable == DeploymentStatus \ {"none"}

(* A call: the rows it works `on`, the mailboxes it may be `at`, and the   *)
(* status, role, use or change it asks for.                                *)
CallType ==
    [kind : Kinds, on : SUBSET (AllAgents \union AllVersions \union Deployments \union {None}),
     at : SUBSET Mailboxes,
     as : Settable \union Roles \union DOMAIN CapableRoles \union {"config", "default", ""}]
Fitting(c) ==
    /\ c.kind \in {"deploy", "rollout"} => c.on \subseteq AllVersions
    /\ c.kind \in {"rollback", "status"} => c.on \subseteq Deployments
    /\ c.kind \in {"deploy", "status"} => c.as \in Settable
    /\ c.kind \in {"bind", "access", "update", "version"} => c.on \subseteq AllAgents
    /\ c.kind = "bind" => c.as \in Roles
    /\ c.kind = "resolve" => c.on \subseteq AllAgents \union {None}
    /\ c.kind \in {"resolve", "access"} => c.as \in DOMAIN CapableRoles

ASSUME RegistryAssumption ==
    /\ Requests \intersect (Agents \union Versions \union Deployed) = {}
    /\ Agents \intersect Versions = {}
    /\ None \notin AllAgents \union AllVersions \union Deployments \union Mailboxes
    /\ OwnerOf \in [Versions -> Agents]
    /\ Serves \in [Deployed -> [agent : Agents, version : Versions, target : Mailboxes,
                                status : Settable]]
    /\ \A d, e \in Deployed : Serves[d].status = "active" /\ Serves[e].status = "active"
                               /\ Serves[d].target = Serves[e].target => d = e
    /\ Bound \in [Agents \X Mailboxes -> Roles \union {"none"}]
    /\ \A w \in Workloads : \A c \in w : c \in CallType /\ Fitting(c)
    /\ Faults \subseteq FaultKinds
    /\ MaxFaults \in Nat
    /\ MaxRunning \in Nat

VARIABLES
    agent,       \* agents: [status, config, default]
    version,     \* agent_versions: the agent, None if there is no row
    parts,       \* agent_capabilities and agent_tool_bindings of a version
    blobs,       \* R2: the configurations and manifests stored
    mailbox,     \* mailboxes: the rows that exist
    binding,     \* agent_mailboxes: the role, "none" if there is no row
    deployment,  \* agent_deployments: [status, agent, version, target]
    workload,    \* the calls of this behaviour
    failed,      \* history: the kinds of failure that happened
    faults,      \* how many failures have happened
    proc         \* the requests

agentVars == <<agent, version, parts, blobs>>
targetVars == <<mailbox, binding, deployment>>
historyVars == <<workload, failed, faults>>
vars == <<agentVars, targetVars, historyVars, proc>>

-----------------------------------------------------------------------------
(* Rows.                                                                   *)

NoDeployment == [status |-> "none", agent |-> None, version |-> None, target |-> None]

(* The conditions every read of a deployment puts on the rows it names.    *)
Valid(d) ==
    /\ deployment[d].status # "none"
    /\ version[deployment[d].version] = deployment[d].agent
    /\ deployment[d].target \in mailbox

ActiveOn(t) == {d \in Deployments : deployment[d].status = "active" /\ deployment[d].target = t}

(* listActiveDeploymentsForTarget                                          *)
ServingTarget(t) == {d \in ActiveOn(t) : Valid(d)}

RoleOf(a, m) == IF m \in mailbox THEN binding[<<a, m>>] ELSE "none"
HasBinding(a, m) == RoleOf(a, m) # "none"
HasRole(a, m, use) == RoleOf(a, m) \in CapableRoles[use]

-----------------------------------------------------------------------------
(* Requests.  What a request keeps in its local variables: `todo` are the  *)
(* status writes it has left, `undo` those that restore what it found;     *)
(* `seen` is the row it has read, `owner` that row's agent.                *)
(* History: `alone` while no other request ran together with it, `before`  *)
(* the statuses when it arrived, `bound` and `barred` the agents that had  *)
(* a fitting or an unfitting role when a check or resolution began.        *)

IdleProc ==
    [pc |-> "idle", kind |-> "drop", agent |-> None, version |-> None, target |-> None,
     d |-> None, status |-> "none", use |-> "receive", todo |-> <<>>, undo |-> <<>>,
     restores |-> FALSE, seen |-> None, owner |-> None, config |-> FALSE,
     fallback |-> FALSE, alone |-> TRUE, before |-> <<>>, bound |-> {}, barred |-> {}]

DeploymentSteps == {"List", "Insert", "ListTaken", "Sweep", "SweepRow", "Reinsert",
                    "Check", "Discard", "Write", "Restore", "ReadBack", "Withdraw"}
BindingSteps == {"Bind", "BindTaken", "Unbind", "BindCheck", "Drop"}
ResolveSteps == {"RequestedRole", "RequestedAny", "ListServing", "MatchRole", "MatchAny",
                 "FallbackBindings", "LastFallback",
                 "AccessRole", "AccessAny", "AccessDeployed"}
AgentSteps == {"PutAgent", "InsertAgent", "DropAgentBlob", "ReadAgent", "PutUpdate",
               "UpdateAgent", "ReadUpdated", "DropNew", "DropOld"}
VersionSteps == {"PutConfig", "PutManifest", "InsertVersion", "InsertParts", "ReadVersion",
                 "UndoParts", "UndoVersion", "UndoConfig", "UndoManifest"}
Steps == DeploymentSteps \union BindingSteps \union ResolveSteps \union AgentSteps
           \union VersionSteps
UndoSteps == {"Discard", "Restore", "Withdraw", "Unbind", "DropAgentBlob", "DropNew",
              "DropOld", "UndoParts", "UndoVersion", "UndoConfig", "UndoManifest"}

(* done: the request succeeded; unresolved: null is its answer; denied: the*)
(* agent may not work on the mailbox; refused: any other error.  A request *)
(* that a crash ended has no answer.                                       *)
Answers == {"done", "unresolved", "denied", "refused", "crashed"}

Running(r) == proc[r].pc \in Steps
AtRest == \A r \in Requests : ~Running(r)

At(r, s) == proc[r].pc = s
Go(r, s) == proc' = [proc EXCEPT ![r].pc = s]

Statuses == [d \in Deployments |-> deployment[d].status]

(* A request of kind k arrives, with the locals l it starts with.          *)
Begin(r, l) ==
    proc' = [q \in Requests |->
               IF q = r
               THEN [l EXCEPT !.alone = AtRest, !.before = Statuses]
               ELSE IF Running(q) THEN [proc[q] EXCEPT !.alone = FALSE] ELSE proc[q]]

(* A failure of kind k may happen to request r.                            *)
MayFail(k) == k \in Faults /\ faults < MaxFaults
Record(k) == failed' = failed \union {k} /\ faults' = faults + 1 /\ UNCHANGED workload
=============================================================================
