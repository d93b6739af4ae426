---------------------------- MODULE RegistryStands ----------------------------
(***************************************************************************)
(* Type correctness of AgentRegistry, and what its answers are worth while *)
(* other requests go on: the agent a resolution names fits, an answered    *)
(* binding or deployment stands, a configuration that is named is stored.  *)
(* A switch of deployments that runs alone is done or undone as a whole.   *)
(* For any agents, versions, mailboxes, calls and failures.                *)
(***************************************************************************)
EXTENDS AgentRegistry, TLAPS

-----------------------------------------------------------------------------
(* The types of the rows and of what a request keeps.                      *)

AgentType == [status : {"none", "active"}, config : Blobs \union {None},
              default : AllVersions \union {None}]
RowType == [status : DeploymentStatus, agent : AllAgents \union {None},
            version : AllVersions \union {None}, target : Mailboxes \union {None}]
Named(row) == row.agent \in AllAgents /\ row.version \in AllVersions /\ row.target \in Mailboxes

AgentTypes ==
    /\ agent \in [AllAgents -> AgentType]
    /\ \A a \in AllAgents : agent[a].status # "none" => agent[a].config \in Blobs
    /\ version \in [AllVersions -> AllAgents \union {None}]
    /\ parts \in [AllVersions -> 0..WholeVersion]
    /\ blobs \subseteq Blobs
BindingTypes ==
    /\ mailbox \subseteq Mailboxes
    /\ binding \in [AllAgents \X Mailboxes -> Roles \union {"none"}]
DeploymentTypes ==
    /\ deployment \in [Deployments -> RowType]
    /\ \A d \in Deployments : deployment[d].status # "none" => Named(deployment[d])
HistoryTypes ==
    /\ workload \in Workloads /\ failed \subseteq FaultKinds /\ faults \in 0..MaxFaults

Pcs == Steps \union Answers \union {"idle"}
Writes == Seq(Deployments \X DeploymentStatus)
ProcType ==
    [pc : Pcs, kind : Kinds, agent : AllAgents \union {None}, version : AllVersions \union {None},
     target : Mailboxes \union {None}, d : Deployments \union {None},
     status : DeploymentStatus \union Roles, use : DOMAIN CapableRoles, todo : Writes,
     undo : Writes, restores : BOOLEAN, seen : Deployments \union Blobs \union {None},
     owner : AllAgents \union {None}, config : BOOLEAN, fallback : BOOLEAN, alone : BOOLEAN,
     before : [Deployments -> DeploymentStatus] \union {<<>>},
     bound : SUBSET AllAgents, barred : SUBSET AllAgents]

-----------------------------------------------------------------------------
(* What a request of each kind may be doing, and what it then knows.       *)

CreateSteps == {"Insert", "ListTaken", "Sweep", "SweepRow", "Reinsert", "Check", "Discard",
                "Withdraw"}
SwitchSteps == {"List", "Write", "Restore", "ReadBack"}
RoleSteps == {"RequestedRole", "RequestedAny"}
ServedSteps == {"ListServing", "MatchRole", "MatchAny", "FallbackBindings", "LastFallback"}
AccessSteps == {"AccessRole", "AccessAny", "AccessDeployed"}
NewAgentSteps == {"PutAgent", "InsertAgent", "DropAgentBlob", "ReadAgent"}
UpdateSteps == {"PutUpdate", "UpdateAgent", "ReadUpdated", "DropNew", "DropOld"}
Creations == {"deploy", "rollout"}

Makes(r, p) ==
    /\ p.agent \in AllAgents /\ p.version \in AllVersions /\ p.target \in Mailboxes
    /\ p.d = r /\ p.status \in DeploymentStatus
DeployLocals(r, p) ==
    /\ p.pc \in CreateSteps => p.kind \in Creations /\ Makes(r, p)
    /\ p.pc \in SwitchSteps =>
         /\ p.kind \in {"rollout", "rollback", "status"}
         /\ p.d \in Deployments /\ p.target \in Mailboxes /\ p.status \in DeploymentStatus
         /\ p.kind = "rollout" => Makes(r, p)
    /\ p.pc = "Write" => p.todo # <<>> /\ (p.restores => p.undo # <<>>)
    /\ p.pc \in CreateSteps \ {"Withdraw"} /\ p.kind = "rollout" =>
         p.todo # <<>> /\ p.undo # <<>>
    /\ p.pc = "Restore" => p.undo # <<>>
    /\ p.pc = "SweepRow" => p.seen \in Deployments
    /\ p.pc = "done" /\ p.kind \in Creations => Makes(r, p)
BindLocals(r, p) ==
    p.pc \in BindingSteps \/ (p.pc = "done" /\ p.kind = "bind") =>
      p.kind = "bind" /\ p.agent \in AllAgents /\ p.target \in Mailboxes /\ p.status \in Roles
ResolveLocals(r, p) ==
    /\ p.pc \in RoleSteps \union ServedSteps => p.kind = "resolve" /\ p.target \in Mailboxes
    /\ p.pc \in RoleSteps => p.agent \in AllAgents
    /\ p.pc \in ServedSteps /\ p.config => p.agent \in AllAgents
    /\ p.pc \in {"MatchRole", "MatchAny"} \/ p.fallback =>
         p.owner \in AllAgents /\ p.seen \in Deployments
    /\ p.pc \in RoleSteps \union {"ListServing", "MatchRole", "MatchAny"} => ~p.fallback
    /\ p.pc \in AccessSteps =>
         p.kind = "access" /\ p.agent \in AllAgents /\ p.target \in Mailboxes
AgentLocals(r, p) ==
    /\ p.pc \in NewAgentSteps => p.kind = "agent"
    /\ p.pc \in UpdateSteps => p.kind = "update"
    /\ p.kind = "update" => p.agent \in AllAgents /\ p.seen \in Blobs
    /\ p.pc \in {"PutUpdate", "DropNew", "DropOld"} => p.config
    /\ p.pc \in VersionSteps => p.kind = "version" /\ p.agent \in AllAgents
Locals(r, p) ==
    /\ p.pc = "idle" => p.kind = "drop"
    /\ DeployLocals(r, p)
    /\ BindLocals(r, p)
    /\ ResolveLocals(r, p)
    /\ AgentLocals(r, p)

(* A version a request creates has a row only once it is inserted.         *)
Fresh(p) == p.kind # "version" \/ p.pc \in {"PutConfig", "PutManifest", "InsertVersion"}
VersionRows ==
    \A r \in Requests :
      /\ Fresh(proc[r]) => version[r] = None /\ parts[r] = 0
      /\ proc[r].pc = "InsertParts" => parts[r] < WholeVersion

TypeInv ==
    /\ AgentTypes /\ BindingTypes /\ DeploymentTypes /\ HistoryTypes
    /\ proc \in [Requests -> ProcType]
    /\ \A r \in Requests : Locals(r, proc[r])
    /\ VersionRows

-----------------------------------------------------------------------------
(* Bindings.  That of a mailbox that exists is not removed.                *)

BindOK(r) ==
    LET p == proc[r] IN
    /\ p.pc \in {"BindTaken", "BindCheck"} /\ p.target \in mailbox
         => HasBinding(p.agent, p.target)
    /\ p.pc = "Unbind" => p.target \notin mailbox
    /\ p.pc = "done" /\ p.kind = "bind" => HasBinding(p.agent, p.target)
BindInv == \A r \in Requests : BindOK(r)

(* A deployment names a version that is there, or was.                     *)
Known(v) == v \in Requests => ~Fresh(proc[v])
DeployOK(r) ==
    LET p == proc[r] IN
    /\ p.kind \notin Creations => deployment[r].status = "none"
    /\ p.kind \in Creations /\ p.pc \in CreateSteps \union SwitchSteps \union {"done"} =>
         /\ Known(p.version)
         /\ deployment[r].status # "none" =>
              /\ deployment[r].version = p.version
              /\ deployment[r].agent = p.agent
              /\ deployment[r].target = p.target
    /\ p.kind \in Creations /\ p.pc = "done" =>
         \/ deployment[r].status = "none"
         \/ version[p.version] # p.agent
         \/ p.target \in mailbox
DeployInv == \A r \in Requests : DeployOK(r)

(* What a resolution or a check has found out stays true.                  *)
Fits(p) ==
    p.kind \in {"resolve", "access"} =>
      /\ \A a \in p.bound : HasRole(a, p.target, p.use)
      /\ \A a \in p.barred : HasBinding(a, p.target) /\ ~HasRole(a, p.target, p.use)
FoundOut(p) ==
    /\ p.pc = "RequestedAny" => ~p.config
    /\ p.pc \in {"RequestedAny"} \union ServedSteps =>
         /\ p.config => p.agent \notin p.barred
         /\ ~p.config => p.agent \notin p.bound
         /\ p.fallback => p.owner \notin p.barred
    /\ p.pc = "LastFallback" => p.agent = None
    /\ p.pc \in {"AccessAny", "AccessDeployed"} => p.agent \notin p.bound
    /\ p.pc = "AccessDeployed" => p.agent \notin p.barred
    /\ p.kind \in {"resolve", "access"} =>
         /\ p.pc = "done" => p.agent \notin p.barred
         /\ p.pc = "denied" => p.agent \notin p.bound
         /\ p.pc = "unresolved" /\ p.target \in mailbox =>
              /\ p.agent = None => p.bound = {}
              /\ p.agent \notin p.bound
FitOK(r) == Fits(proc[r]) /\ FoundOut(proc[r])
FitInv == \A r \in Requests : FitOK(r)

-----------------------------------------------------------------------------
(* Objects.  A configuration that an agent names, or has named, was stored *)
(* by a request for an agent, or for this agent.                           *)

OfAgent(b, a) ==
    \/ b = <<"config", a>>
    \/ \E q \in Requests : b = <<"config", q>> /\ proc[q].kind = "update" /\ proc[q].agent = a
Origins ==
    /\ \A a \in AllAgents : agent[a].status # "none" =>
         /\ a \in Requests => proc[a].kind = "agent"
         /\ OfAgent(agent[a].config, a)
    /\ \A r \in Requests : proc[r].kind = "update" =>
         /\ agent[proc[r].agent].status # "none"
         /\ OfAgent(proc[r].seen, proc[r].agent) /\ proc[r].seen # <<"config", r>>

Alone ==
    \A r \in Requests : Running(r) /\ proc[r].alone => \A q \in Requests \ {r} : ~Running(q)

StoredFor(r, p) ==
    /\ p.pc \in {"InsertAgent", "UpdateAgent"} /\ (p.pc = "UpdateAgent" => p.config)
         => <<"config", r>> \in blobs
    /\ p.pc \in {"PutAgent", "InsertAgent", "DropAgentBlob"} => agent[r].status = "none"
    /\ p.pc \in {"PutUpdate", "UpdateAgent", "DropNew"} => agent[p.agent].config = p.seen
    /\ p.pc \in {"ReadUpdated", "DropOld"} /\ p.config =>
         agent[p.agent].config = <<"config", r>>
AllStored ==
    /\ \A a \in AllAgents : agent[a].status # "none" => agent[a].config \in blobs
    /\ \A r \in Requests : StoredFor(r, proc[r])
Stored == ~UpdatesOverlap /\ "unclear" \notin failed => AllStored

Whole(v) ==
    parts[v] = WholeVersion /\ {<<"config", v>>, <<"manifest", v>>} \subseteq blobs
VersionFor(r, p) ==
    /\ p.pc \in {"PutManifest", "InsertVersion", "InsertParts"} => <<"config", r>> \in blobs
    /\ p.pc \in {"InsertVersion", "InsertParts"} => <<"manifest", r>> \in blobs
    /\ p.pc \in {"ReadVersion", "done"} => Whole(r)
    /\ p.pc \in {"UndoConfig", "UndoManifest"} => version[r] = None
    /\ p.pc \notin Steps => version[r] = None \/ Whole(r)
AllWhole ==
    /\ \A v \in Versions : Whole(v)
    /\ \A r \in Requests : proc[r].kind = "version" => VersionFor(r, proc[r])
VersionsWhole == Unfailing => AllWhole

RegistryInv ==
    TypeInv /\ BindInv /\ DeployInv /\ FitInv /\ Origins /\ Alone /\ Stored /\ VersionsWhole

-----------------------------------------------------------------------------
(* A step of a request, and what it does to the others.                    *)

Same(p, x) ==
    /\ x.kind = p.kind /\ x.agent = p.agent /\ x.version = p.version /\ x.target = p.target
    /\ x.d = p.d /\ x.status = p.status /\ x.use = p.use /\ x.todo = p.todo /\ x.undo = p.undo
    /\ x.restores = p.restores /\ x.seen = p.seen /\ x.owner = p.owner /\ x.config = p.config
    /\ x.fallback = p.fallback /\ x.bound = p.bound /\ x.barred = p.barred
Still(q) == Same(proc[q], proc'[q]) /\ proc'[q].pc = proc[q].pc
Alike(q) == proc'[q].alone = proc[q].alone /\ proc'[q].before = proc[q].before

(* Only request r goes on, and its locals fit.                             *)
Typed(r) ==
    /\ proc' \in [Requests -> ProcType]
    /\ \A q \in Requests \ {r} : Still(q)
    /\ Locals(r, proc'[r])
Proceeds(r) == Typed(r) /\ \A q \in Requests : Alike(q)
Goes(r, s) == Same(proc[r], proc'[r]) /\ proc'[r].pc = s

ProcsOK == proc \in [Requests -> ProcType] /\ \A r \in Requests : Locals(r, proc[r])

LEMMA PcNames ==
    /\ Steps \subseteq Pcs /\ Answers \subseteq Pcs
    /\ CreateSteps \union SwitchSteps \union BindingSteps \union RoleSteps \union ServedSteps
         \union AccessSteps \union NewAgentSteps \union UpdateSteps \union VersionSteps = Steps
BY DEF Pcs, Steps, CreateSteps, SwitchSteps, DeploymentSteps, BindingSteps, ResolveSteps, RoleSteps,
       ServedSteps, AccessSteps, AgentSteps, NewAgentSteps, UpdateSteps, VersionSteps

(* An answer that tells nothing fits whatever came before.                 *)
LEMMA EndLocals ==
    ASSUME NEW r, NEW p, NEW x, Locals(r, p), Same(p, x),
           x.pc \in {"refused", "crashed", "unresolved", "denied"}
    PROVE  Locals(r, x)
BY DEF Locals, DeployLocals, BindLocals, ResolveLocals, AgentLocals, Same, CreateSteps, SwitchSteps,
       BindingSteps, RoleSteps, ServedSteps, AccessSteps, NewAgentSteps, UpdateSteps, VersionSteps

LEMMA PutIs ==
    ASSUME proc \in [Requests -> ProcType], NEW r \in Requests, NEW x \in ProcType,
           proc' = [proc EXCEPT ![r] = x]
    PROVE  /\ proc' \in [Requests -> ProcType] /\ proc'[r] = x
           /\ \A q \in Requests \ {r} : Still(q) /\ Alike(q)
BY DEF Still, Same, Alike

(* What a request is given at its arrival it keeps.                        *)
Base(p, x) ==
    /\ x.kind = p.kind /\ x.version = p.version /\ x.target = p.target /\ x.status = p.status
    /\ x.use = p.use /\ x.restores = p.restores /\ x.bound = p.bound /\ x.barred = p.barred
    /\ x.alone = p.alone /\ x.before = p.before

(* The records of the steps that change more than where a request is.      *)
Moving(p, s) == [p EXCEPT !.pc = s]

LEMMA MovingRecord ==
    ASSUME NEW p \in ProcType, NEW s \in Pcs
    PROVE  LET x == Moving(p, s) IN
           /\ x \in ProcType /\ Base(p, x) /\ x.pc = s
           /\ x.agent = p.agent /\ x.d = p.d /\ x.todo = p.todo
           /\ x.undo = p.undo /\ x.seen = p.seen /\ x.owner = p.owner /\ x.config = p.config
           /\ x.fallback = p.fallback
<1>. DEFINE x == Moving(p, s)
<1>1. x \in ProcType
    BY DEF ProcType, Moving
<1>2. x.pc = s
    BY DEF ProcType, Moving
<1>3. /\ x.agent = p.agent /\ x.d = p.d /\ x.todo = p.todo
      /\ x.undo = p.undo /\ x.seen = p.seen /\ x.owner = p.owner /\ x.config = p.config
      /\ x.fallback = p.fallback
    BY DEF ProcType, Moving
<1>4. Base(p, x)
    BY DEF ProcType, Moving, Base
<1>. QED
    BY <1>1, <1>2, <1>3, <1>4

Listing(p, s, t, u) == [p EXCEPT !.pc = s, !.todo = t, !.undo = u]

LEMMA ListingRecord ==
    ASSUME NEW p \in ProcType, NEW s \in Pcs, NEW t \in Writes, NEW u \in Writes
    PROVE  LET x == Listing(p, s, t, u) IN
           /\ x \in ProcType /\ Base(p, x) /\ x.pc = s
           /\ x.todo = t /\ x.undo = u
           /\ x.agent = p.agent /\ x.d = p.d /\ x.seen = p.seen
           /\ x.owner = p.owner /\ x.config = p.config /\ x.fallback = p.fallback
<1>. DEFINE x == Listing(p, s, t, u)
<1>1. x \in ProcType
    BY DEF ProcType, Listing
<1>2. x.pc = s /\ x.todo = t /\ x.undo = u
    BY DEF ProcType, Listing
<1>3. /\ x.agent = p.agent /\ x.d = p.d /\ x.seen = p.seen
      /\ x.owner = p.owner /\ x.config = p.config /\ x.fallback = p.fallback
    BY DEF ProcType, Listing
<1>4. Base(p, x)
    BY DEF ProcType, Listing, Base
<1>. QED
    BY <1>1, <1>2, <1>3, <1>4

Writing(p, s, t) == [p EXCEPT !.pc = s, !.todo = t]

LEMMA WritingRecord ==
    ASSUME NEW p \in ProcType, NEW s \in Pcs, NEW t \in Writes
    PROVE  LET x == Writing(p, s, t) IN
           /\ x \in ProcType /\ Base(p, x) /\ x.pc = s
           /\ x.todo = t
           /\ x.agent = p.agent /\ x.d = p.d /\ x.undo = p.undo
           /\ x.seen = p.seen /\ x.owner = p.owner /\ x.config = p.config /\ x.fallback = p.fallback
<1>. DEFINE x == Writing(p, s, t)
<1>1. x \in ProcType
    BY DEF ProcType, Writing
<1>2. x.pc = s /\ x.todo = t
    BY DEF ProcType, Writing
<1>3. /\ x.agent = p.agent /\ x.d = p.d /\ x.undo = p.undo
      /\ x.seen = p.seen /\ x.owner = p.owner /\ x.config = p.config /\ x.fallback = p.fallback
    BY DEF ProcType, Writing
<1>4. Base(p, x)
    BY DEF ProcType, Writing, Base
<1>. QED
    BY <1>1, <1>2, <1>3, <1>4

Restoring(p, s, u) == [p EXCEPT !.pc = s, !.undo = u]

LEMMA RestoringRecord ==
    ASSUME NEW p \in ProcType, NEW s \in Pcs, NEW u \in Writes
    PROVE  LET x == Restoring(p, s, u) IN
           /\ x \in ProcType /\ Base(p, x) /\ x.pc = s
           /\ x.undo = u
           /\ x.agent = p.agent /\ x.d = p.d /\ x.todo = p.todo
           /\ x.seen = p.seen /\ x.owner = p.owner /\ x.config = p.config /\ x.fallback = p.fallback
<1>. DEFINE x == Restoring(p, s, u)
<1>1. x \in ProcType
    BY DEF ProcType, Restoring
<1>2. x.pc = s /\ x.undo = u
    BY DEF ProcType, Restoring
<1>3. /\ x.agent = p.agent /\ x.d = p.d /\ x.todo = p.todo
      /\ x.seen = p.seen /\ x.owner = p.owner /\ x.config = p.config /\ x.fallback = p.fallback
    BY DEF ProcType, Restoring
<1>4. Base(p, x)
    BY DEF ProcType, Restoring, Base
<1>. QED
    BY <1>1, <1>2, <1>3, <1>4

Sweeping(p, s, e) == [p EXCEPT !.pc = s, !.seen = e]

LEMMA SweepingRecord ==
    ASSUME NEW p \in ProcType, NEW s \in Pcs, NEW e \in Deployments
    PROVE  LET x == Sweeping(p, s, e) IN
           /\ x \in ProcType /\ Base(p, x) /\ x.pc = s
           /\ x.seen = e
           /\ x.agent = p.agent /\ x.d = p.d /\ x.todo = p.todo
           /\ x.undo = p.undo /\ x.owner = p.owner /\ x.config = p.config /\ x.fallback = p.fallback
<1>. DEFINE x == Sweeping(p, s, e)
<1>1. x \in ProcType
    BY DEF ProcType, Sweeping
<1>2. x.pc = s /\ x.seen = e
    BY DEF ProcType, Sweeping
<1>3. /\ x.agent = p.agent /\ x.d = p.d /\ x.todo = p.todo
      /\ x.undo = p.undo /\ x.owner = p.owner /\ x.config = p.config /\ x.fallback = p.fallback
    BY DEF ProcType, Sweeping
<1>4. Base(p, x)
    BY DEF ProcType, Sweeping, Base
<1>. QED
    BY <1>1, <1>2, <1>3, <1>4

Asking(p, s, b) == [p EXCEPT !.pc = s, !.config = b]

LEMMA AskingRecord ==
    ASSUME NEW p \in ProcType, NEW s \in Pcs, NEW b \in BOOLEAN
    PROVE  LET x == Asking(p, s, b) IN
           /\ x \in ProcType /\ Base(p, x) /\ x.pc = s
           /\ x.config = b
           /\ x.agent = p.agent /\ x.d = p.d /\ x.todo = p.todo
           /\ x.undo = p.undo /\ x.seen = p.seen /\ x.owner = p.owner /\ x.fallback = p.fallback
<1>. DEFINE x == Asking(p, s, b)
<1>1. x \in ProcType
    BY DEF ProcType, Asking
<1>2. x.pc = s /\ x.config = b
    BY DEF ProcType, Asking
<1>3. /\ x.agent = p.agent /\ x.d = p.d /\ x.todo = p.todo
      /\ x.undo = p.undo /\ x.seen = p.seen /\ x.owner = p.owner /\ x.fallback = p.fallback
    BY DEF ProcType, Asking
<1>4. Base(p, x)
    BY DEF ProcType, Asking, Base
<1>. QED
    BY <1>1, <1>2, <1>3, <1>4

Matching(p, s, e, o) == [p EXCEPT !.pc = s, !.seen = e, !.owner = o]

LEMMA MatchingRecord ==
    ASSUME NEW p \in ProcType, NEW s \in Pcs, NEW e \in Deployments, NEW o \in AllAgents
    PROVE  LET x == Matching(p, s, e, o) IN
           /\ x \in ProcType /\ Base(p, x) /\ x.pc = s
           /\ x.seen = e /\ x.owner = o
           /\ x.agent = p.agent /\ x.d = p.d /\ x.todo = p.todo
           /\ x.undo = p.undo /\ x.config = p.config /\ x.fallback = p.fallback
<1>. DEFINE x == Matching(p, s, e, o)
<1>1. x \in ProcType
    BY DEF ProcType, Matching
<1>2. x.pc = s /\ x.seen = e /\ x.owner = o
    BY DEF ProcType, Matching
<1>3. /\ x.agent = p.agent /\ x.d = p.d /\ x.todo = p.todo
      /\ x.undo = p.undo /\ x.config = p.config /\ x.fallback = p.fallback
    BY DEF ProcType, Matching
<1>4. Base(p, x)
    BY DEF ProcType, Matching, Base
<1>. QED
    BY <1>1, <1>2, <1>3, <1>4

Falling(p, s, b) == [p EXCEPT !.pc = s, !.fallback = b]

LEMMA FallingRecord ==
    ASSUME NEW p \in ProcType, NEW s \in Pcs, NEW b \in BOOLEAN
    PROVE  LET x == Falling(p, s, b) IN
           /\ x \in ProcType /\ Base(p, x) /\ x.pc = s
           /\ x.fallback = b
           /\ x.agent = p.agent /\ x.d = p.d /\ x.todo = p.todo
           /\ x.undo = p.undo /\ x.seen = p.seen /\ x.owner = p.owner /\ x.config = p.config
<1>. DEFINE x == Falling(p, s, b)
<1>1. x \in ProcType
    BY DEF ProcType, Falling
<1>2. x.pc = s /\ x.fallback = b
    BY DEF ProcType, Falling
<1>3. /\ x.agent = p.agent /\ x.d = p.d /\ x.todo = p.todo
      /\ x.undo = p.undo /\ x.seen = p.seen /\ x.owner = p.owner /\ x.config = p.config
    BY DEF ProcType, Falling
<1>4. Base(p, x)
    BY DEF ProcType, Falling, Base
<1>. QED
    BY <1>1, <1>2, <1>3, <1>4

Naming(p, s, a, e) == [p EXCEPT !.pc = s, !.agent = a, !.d = e]

LEMMA NamingRecord ==
    ASSUME NEW p \in ProcType, NEW s \in Pcs, NEW a \in AllAgents, NEW e \in Deployments \union {None}
    PROVE  LET x == Naming(p, s, a, e) IN
           /\ x \in ProcType /\ Base(p, x) /\ x.pc = s
           /\ x.agent = a /\ x.d = e
           /\ x.todo = p.todo /\ x.undo = p.undo /\ x.seen = p.seen
           /\ x.owner = p.owner /\ x.config = p.config /\ x.fallback = p.fallback
<1>. DEFINE x == Naming(p, s, a, e)
<1>1. x \in ProcType
    BY DEF ProcType, Naming
<1>2. x.pc = s /\ x.agent = a /\ x.d = e
    BY DEF ProcType, Naming
<1>3. /\ x.todo = p.todo /\ x.undo = p.undo /\ x.seen = p.seen
      /\ x.owner = p.owner /\ x.config = p.config /\ x.fallback = p.fallback
    BY DEF ProcType, Naming
<1>4. Base(p, x)
    BY DEF ProcType, Naming, Base
<1>. QED
    BY <1>1, <1>2, <1>3, <1>4

LEMMA GoIs ==
    ASSUME proc \in [Requests -> ProcType], NEW r \in Requests, NEW s \in Pcs, Go(r, s)
    PROVE  /\ proc' \in [Requests -> ProcType] /\ Goes(r, s)
           /\ \A q \in Requests \ {r} : Still(q)
           /\ \A q \in Requests : Alike(q)
<1>. DEFINE x == Moving(proc[r], s)
<1>1. proc[r] \in ProcType
    OBVIOUS
<1>2. x \in ProcType /\ x.pc = s /\ Same(proc[r], x) /\ x.alone = proc[r].alone
      /\ x.before = proc[r].before
    BY <1>1, MovingRecord DEF Base, Same
<1>3. proc' = [proc EXCEPT ![r] = x]
    BY DEF Go, Moving
<1>. HIDE DEF x
<1>. QED
    BY <1>2, <1>3, PutIs DEF Goes, Alike

LEMMA GoEnds ==
    ASSUME ProcsOK, NEW r \in Requests, NEW s \in {"refused", "crashed", "unresolved", "denied"},
           Go(r, s)
    PROVE  Proceeds(r) /\ Goes(r, s)
<1>1. s \in Pcs
    BY PcNames DEF Answers
<1>. QED
    BY <1>1, GoIs, EndLocals DEF ProcsOK, Proceeds, Typed, Goes

(* The moves that need no more than where the request is.                  *)
DeployLeads(s, t) ==
    \/ s \in {"Insert", "Reinsert"} /\ t = "Check"
    \/ s = "Insert" /\ t = "ListTaken"
    \/ s = "ListTaken" /\ t = "Sweep"
    \/ s = "SweepRow" /\ t = "Reinsert"
    \/ s = "Check" /\ t \in {"Discard", "done"}
    \/ s = "ReadBack" /\ t = "done"
BindLeads(s, t) ==
    \/ s = "Bind" /\ t \in {"BindCheck", "BindTaken"}
    \/ s \in {"BindCheck", "BindTaken"} /\ t \in {"Unbind", "done"}
ResolveLeads(s, t) ==
    \/ s = "RequestedAny" /\ t = "ListServing"
    \/ s = "ListServing" /\ t = "FallbackBindings"
    \/ s = "MatchRole" /\ t = "MatchAny"
    \/ s = "FallbackBindings" /\ t = "LastFallback"
    \/ s = "AccessRole" /\ t \in {"AccessAny", "AccessDeployed", "done"}
    \/ s = "AccessAny" /\ t = "AccessDeployed"
    \/ s = "AccessDeployed" /\ t = "done"
AgentLeads(s, t) ==
    \/ s = "PutAgent" /\ t = "InsertAgent"
    \/ s = "InsertAgent" /\ t \in {"ReadAgent", "DropAgentBlob"}
    \/ s = "PutUpdate" /\ t = "UpdateAgent"
    \/ s = "UpdateAgent" /\ t = "ReadUpdated"
    \/ s \in {"ReadAgent", "ReadUpdated", "DropOld", "ReadVersion"} /\ t = "done"
    \/ s = "PutConfig" /\ t = "PutManifest"
    \/ s = "PutManifest" /\ t = "InsertVersion"
    \/ s = "InsertVersion" /\ t \in {"InsertParts", "UndoParts"}
    \/ s = "InsertParts" /\ t \in {"InsertParts", "ReadVersion", "UndoParts"}
    \/ s = "UndoParts" /\ t = "UndoVersion"
    \/ s = "UndoVersion" /\ t = "UndoConfig"
    \/ s = "UndoConfig" /\ t = "UndoManifest"

LEMMA LeadLocals ==
    ASSUME NEW r, NEW p, NEW x, Locals(r, p), Same(p, x),
           \/ DeployLeads(p.pc, x.pc)
           \/ BindLeads(p.pc, x.pc)
           \/ ResolveLeads(p.pc, x.pc)
           \/ AgentLeads(p.pc, x.pc)
    PROVE  Locals(r, x)
<1>1. CASE DeployLeads(p.pc, x.pc)
    BY <1>1 DEF DeployLeads, Locals, DeployLocals, BindLocals, ResolveLocals, AgentLocals, Same,
       Makes, Creations, CreateSteps, SwitchSteps, BindingSteps, RoleSteps, ServedSteps, AccessSteps,
       NewAgentSteps, UpdateSteps, VersionSteps
<1>2. CASE BindLeads(p.pc, x.pc)
    BY <1>2 DEF BindLeads, Locals, DeployLocals, BindLocals, ResolveLocals, AgentLocals, Same,
       Makes, Creations, CreateSteps, SwitchSteps, BindingSteps, RoleSteps, ServedSteps, AccessSteps,
       NewAgentSteps, UpdateSteps, VersionSteps
<1>3. CASE ResolveLeads(p.pc, x.pc)
    BY <1>3 DEF ResolveLeads, Locals, DeployLocals, BindLocals, ResolveLocals, AgentLocals, Same,
       Makes, Creations, CreateSteps, SwitchSteps, BindingSteps, RoleSteps, ServedSteps, AccessSteps,
       NewAgentSteps, UpdateSteps, VersionSteps
<1>4. CASE AgentLeads(p.pc, x.pc)
    BY <1>4 DEF AgentLeads, Locals, DeployLocals, BindLocals, ResolveLocals, AgentLocals, Same,
       Makes, Creations, CreateSteps, SwitchSteps, BindingSteps, RoleSteps, ServedSteps, AccessSteps,
       NewAgentSteps, UpdateSteps, VersionSteps
<1>. QED
    BY <1>1, <1>2, <1>3, <1>4

LEMMA GoFits ==
    ASSUME ProcsOK, NEW r \in Requests, NEW s \in Pcs, Go(r, s),
           \A x : Same(proc[r], x) /\ x.pc = s => Locals(r, x)
    PROVE  Proceeds(r) /\ Goes(r, s)
BY GoIs DEF ProcsOK, Proceeds, Typed, Goes

LEMMA GoLeads ==
    ASSUME ProcsOK, NEW r \in Requests, NEW s, Go(r, s),
           \/ DeployLeads(proc[r].pc, s)
           \/ BindLeads(proc[r].pc, s)
           \/ ResolveLeads(proc[r].pc, s)
           \/ AgentLeads(proc[r].pc, s)
    PROVE  Proceeds(r) /\ Goes(r, s)
<1>1. s \in Pcs
    BY DEF DeployLeads, BindLeads, ResolveLeads, AgentLeads, Pcs, Steps, Answers, DeploymentSteps,
           BindingSteps, ResolveSteps, AgentSteps, VersionSteps
<1>. QED
    BY <1>1, GoIs, LeadLocals DEF ProcsOK, Proceeds, Typed, Goes

-----------------------------------------------------------------------------
(* The steps of deployments.                                               *)

LEMMA WriteLists ==
    /\ \A e \in Deployments \X DeploymentStatus : <<e>> \in Writes /\ <<e>> # <<>>
    /\ \A s, t \in Writes :
         /\ s \o t \in Writes
         /\ s # <<>> \/ t # <<>> => s \o t # <<>>
    /\ \A s \in Writes : s # <<>> =>
         /\ Head(s) \in Deployments \X DeploymentStatus /\ Tail(s) \in Writes
         /\ Len(s) # 1 => Tail(s) # <<>>
    /\ <<>> \in Writes
<1>. DEFINE E == Deployments \X DeploymentStatus
<1>1. \A e \in E : <<e>> \in Seq(E) /\ Len(<<e>>) = 1
    OBVIOUS
<1>2. \A s, t \in Seq(E) : s \o t \in Seq(E) /\ Len(s \o t) = Len(s) + Len(t)
    OBVIOUS
<1>3. \A s \in Seq(E) : s # <<>> =>
        Head(s) \in E /\ Tail(s) \in Seq(E) /\ Len(Tail(s)) = Len(s) - 1
    OBVIOUS
<1>4. \A s \in Seq(E) : Len(s) \in Nat /\ (Len(s) = 0 <=> s = <<>>)
    OBVIOUS
<1>5. <<>> \in Seq(E)
    OBVIOUS
<1>. HIDE DEF E
<1>5a. Len(<<>>) = 0
    OBVIOUS
<1>6. ASSUME NEW s \in Seq(E), NEW t \in Seq(E), s # <<>> \/ t # <<>>
      PROVE  s \o t # <<>>
    <2>1. Len(s) + Len(t) # 0
        BY <1>4, <1>6
    <2>. QED
        BY <2>1, <1>2, <1>5a
<1>6a. ASSUME NEW s \in Seq(E), s # <<>>, Len(s) # 1
       PROVE  Tail(s) # <<>>
    <2>1. Len(Tail(s)) # 0
        BY <1>3, <1>4, <1>6a
    <2>. QED
        BY <2>1, <1>5a
<1>7. \A e \in E : <<e>> # <<>>
    BY <1>1, <1>4
<1>8. Writes = Seq(E)
    BY DEF Writes, E
<1>. QED
    BY <1>1, <1>2, <1>3, <1>5, <1>6, <1>6a, <1>7, <1>8 DEF E

LEMMA EachTypes ==
    ASSUME NEW d \in Deployments \union {None}, NEW s \in DeploymentStatus
    PROVE  Each(d, s) \in Writes
BY WriteLists DEF Each

LEMMA ListsTyped ==
    ASSUME NEW d \in Deployments, NEW p \in Deployments \union {None}, NEW s \in DeploymentStatus
    PROVE  /\ Switch(d, p) \in Writes /\ Switch(d, p) # <<>>
           /\ Activate(d, p) \in Writes /\ Activate(d, p) # <<>>
           /\ Snapshots(d, s, p) \in Writes /\ Snapshots(d, s, p) # <<>>
<1>. {"active", "paused", "rolled_back"} \subseteq DeploymentStatus
    BY DEF DeploymentStatus
<1>1. /\ Each(p, "active") \in Writes /\ Each(p, "paused") \in Writes
      /\ Each(p, "rolled_back") \in Writes
    BY EachTypes
<1>2. \A t \in DeploymentStatus : <<<<d, t>>>> \in Writes /\ <<<<d, t>>>> # <<>>
    BY WriteLists
<1>3. Switch(d, p) \in Writes /\ Switch(d, p) # <<>>
    <2>1. /\ Each(p, "paused") \o <<<<d, "active">>>> \in Writes
          /\ Each(p, "paused") \o <<<<d, "active">>>> # <<>>
        BY <1>1, <1>2, WriteLists
    <2>. QED
        BY <1>1, <2>1, WriteLists DEF Switch
<1>4. Activate(d, p) \in Writes /\ Activate(d, p) # <<>>
    <2>1. /\ <<<<d, "paused">>>> \o Each(p, "paused") \in Writes
          /\ <<<<d, "paused">>>> \o Each(p, "paused") # <<>>
        BY <1>1, <1>2, WriteLists
    <2>. QED
        BY <1>2, <2>1, WriteLists DEF Activate
<1>5. Snapshots(d, s, p) \in Writes /\ Snapshots(d, s, p) # <<>>
    BY <1>1, <1>2, WriteLists DEF Snapshots
<1>. QED
    BY <1>3, <1>4, <1>5

LEMMA PutFits ==
    ASSUME ProcsOK, NEW r \in Requests, NEW x \in ProcType, proc' = [proc EXCEPT ![r] = x],
           x.alone = proc[r].alone, x.before = proc[r].before, Locals(r, x)
    PROVE  Proceeds(r) /\ proc'[r] = x
BY PutIs DEF ProcsOK, Proceeds, Typed, Alike

LEMMA ServingIs ==
    ASSUME NEW r
    PROVE  Serving(r) \in Deployments \union {None}
<1>. DEFINE s == ServingTarget(proc[r].target) \ {proc[r].d}
<1>1. s \subseteq Deployments
    BY DEF ServingTarget, ActiveOn
<1>2. s # {} => (CHOOSE d \in s : TRUE) \in s
    OBVIOUS
<1>. QED
    BY <1>1, <1>2 DEF Serving

LEMMA ListTypes ==
    ASSUME ProcsOK, NEW r \in Requests, List(r)
    PROVE  /\ Proceeds(r) /\ Base(proc[r], proc'[r])
           /\ proc'[r].agent = proc[r].agent /\ proc'[r].d = proc[r].d
           /\ proc'[r].pc = IF proc[r].kind = "rollout" THEN "Insert" ELSE "Write"
           /\ proc'[r].todo = IF proc[r].kind = "status" THEN Activate(proc[r].d, Serving(r))
                              ELSE Switch(proc[r].d, Serving(r))
           /\ proc'[r].undo = Snapshots(proc[r].d, proc[r].status, Serving(r))
<1>. DEFINE p == proc[r]
            s == IF p.kind = "rollout" THEN "Insert" ELSE "Write"
            t == IF p.kind = "status" THEN Activate(p.d, Serving(r)) ELSE Switch(p.d, Serving(r))
            u == Snapshots(p.d, p.status, Serving(r))
            x == Listing(p, s, t, u)
<1>1. p \in ProcType /\ Locals(r, p) /\ p.pc = "List" /\ proc' = [proc EXCEPT ![r] = x]
    BY DEF ProcsOK, List, At, Listing
<1>2. p.d \in Deployments /\ p.status \in DeploymentStatus
    BY <1>1 DEF Locals, DeployLocals, SwitchSteps
<1>3. t \in Writes /\ t # <<>> /\ u \in Writes /\ u # <<>>
    BY <1>2, ServingIs, ListsTyped
<1>4. s \in Pcs
    BY DEF Pcs, Steps, DeploymentSteps
<1>5. /\ x \in ProcType /\ Base(p, x) /\ x.pc = s /\ x.todo = t /\ x.undo = u
      /\ x.agent = p.agent /\ x.d = p.d /\ x.seen = p.seen /\ x.owner = p.owner
      /\ x.config = p.config /\ x.fallback = p.fallback
    BY <1>1, <1>3, <1>4, ListingRecord
<1>. HIDE DEF x
<1>6. Locals(r, x)
    BY <1>1, <1>3, <1>5 DEF Locals, DeployLocals, BindLocals, ResolveLocals, AgentLocals, Base,
       Makes, Creations, CreateSteps, SwitchSteps, BindingSteps, RoleSteps, ServedSteps, AccessSteps,
       NewAgentSteps, UpdateSteps, VersionSteps
<1>. QED
    BY <1>1, <1>5, <1>6, PutFits DEF Base

LEMMA InsertTypes ==
    ASSUME ProcsOK, NEW r \in Requests, Insert(r)
    PROVE  /\ Proceeds(r)
           /\ \/ Goes(r, "Check") /\ CanInsert(r) /\ deployment' = [deployment EXCEPT ![r] = Row(r)]
              \/ Goes(r, "ListTaken") /\ ~CanInsert(r) /\ deployment' = deployment
<1>1. CASE Go(r, "Check") /\ CanInsert(r) /\ deployment' = [deployment EXCEPT ![r] = Row(r)]
    BY <1>1, GoLeads DEF Insert, At, DeployLeads
<1>2. CASE Go(r, "ListTaken") /\ ~CanInsert(r) /\ deployment' = deployment
    BY <1>2, GoLeads DEF Insert, At, DeployLeads
<1>. QED
    BY <1>1, <1>2 DEF Insert

LEMMA ListTakenTypes ==
    ASSUME ProcsOK, NEW r \in Requests, ListTaken(r)
    PROVE  Proceeds(r) /\ \E s \in {"Sweep", "refused"} : Goes(r, s)
<1>1. CASE Go(r, "Sweep")
    BY <1>1, GoLeads DEF ListTaken, At, DeployLeads
<1>2. CASE Go(r, "refused")
    BY <1>2, GoEnds
<1>. QED
    BY <1>1, <1>2 DEF ListTaken

LEMMA SweepTypes ==
    ASSUME ProcsOK, NEW r \in Requests, Sweep(r)
    PROVE  /\ Proceeds(r)
           /\ \/ Goes(r, "refused")
              \/ /\ Base(proc[r], proc'[r]) /\ proc'[r].pc = "SweepRow"
                 /\ proc'[r].agent = proc[r].agent /\ proc'[r].d = proc[r].d
<1>1. CASE Go(r, "refused")
    BY <1>1, GoEnds
<1>2. ASSUME NEW e \in Deployments, proc' = [proc EXCEPT ![r].pc = "SweepRow", ![r].seen = e]
      PROVE  /\ Proceeds(r) /\ Base(proc[r], proc'[r]) /\ proc'[r].pc = "SweepRow"
             /\ proc'[r].agent = proc[r].agent /\ proc'[r].d = proc[r].d
    <2>. DEFINE p == proc[r]
                x == Sweeping(p, "SweepRow", e)
    <2>0. proc' = [proc EXCEPT ![r] = x]
        BY <1>2 DEF Sweeping
    <2>1. p \in ProcType /\ Locals(r, p) /\ p.pc = "Sweep"
        BY DEF ProcsOK, Sweep, At
    <2>2. "SweepRow" \in Pcs
        BY DEF Pcs, Steps, DeploymentSteps
    <2>3. /\ x \in ProcType /\ Base(p, x) /\ x.pc = "SweepRow" /\ x.seen = e
          /\ x.agent = p.agent /\ x.d = p.d /\ x.todo = p.todo /\ x.undo = p.undo
          /\ x.owner = p.owner /\ x.config = p.config /\ x.fallback = p.fallback
        BY <2>1, <2>2, SweepingRecord
    <2>. HIDE DEF x
    <2>4. Locals(r, x)
        BY <2>1, <2>3 DEF Locals, DeployLocals, BindLocals, ResolveLocals, AgentLocals, Base, Makes,
           Creations, CreateSteps, SwitchSteps, BindingSteps, RoleSteps, ServedSteps, AccessSteps,
           NewAgentSteps, UpdateSteps, VersionSteps
    <2>. QED
        BY <2>0, <2>1, <2>3, <2>4, PutFits DEF Base
<1>3. ActiveOn(proc[r].target) \subseteq Deployments
    BY DEF ActiveOn
<1>. QED
    BY <1>1, <1>2, <1>3 DEF Sweep

LEMMA SweepRowTypes ==
    ASSUME ProcsOK, NEW r \in Requests, SweepRow(r)
    PROVE  /\ Proceeds(r) /\ Goes(r, "Reinsert") /\ proc[r].seen \in Deployments
           /\ deployment' = [deployment EXCEPT ![proc[r].seen] = NoDeployment]
<1>1. proc[r].seen \in Deployments
    BY DEF ProcsOK, Locals, DeployLocals, SweepRow, At
<1>. QED
    BY <1>1, GoLeads DEF SweepRow, At, DeployLeads

LEMMA ReinsertTypes ==
    ASSUME ProcsOK, NEW r \in Requests, Reinsert(r)
    PROVE  /\ Proceeds(r)
           /\ \/ Goes(r, "Check") /\ CanInsert(r) /\ deployment' = [deployment EXCEPT ![r] = Row(r)]
              \/ Goes(r, "refused") /\ deployment' = deployment
<1>1. CASE Go(r, "Check") /\ CanInsert(r) /\ deployment' = [deployment EXCEPT ![r] = Row(r)]
    BY <1>1, GoLeads DEF Reinsert, At, DeployLeads
<1>2. CASE Go(r, "refused") /\ deployment' = deployment
    BY <1>2, GoEnds
<1>. QED
    BY <1>1, <1>2 DEF Reinsert

LEMMA CheckTypes ==
    ASSUME ProcsOK, NEW r \in Requests, Check(r)
    PROVE  /\ Proceeds(r)
           /\ \/ Goes(r, "Discard") /\ ~Valid(r)
              \/ Goes(r, "Write") /\ proc[r].kind = "rollout"
              \/ Goes(r, "done") /\ Valid(r) /\ proc[r].kind # "rollout"
<1>1. CASE Go(r, "Discard") /\ ~Valid(r)
    BY <1>1, GoLeads DEF Check, At, DeployLeads
<1>2. CASE Go(r, "done") /\ Valid(r) /\ proc[r].kind # "rollout"
    BY <1>2, GoLeads DEF Check, At, DeployLeads
<1>3. CASE Go(r, "Write") /\ proc[r].kind = "rollout"
    <2>1. "Write" \in Pcs
        BY DEF Pcs, Steps, DeploymentSteps
    <2>2. ASSUME NEW x, Same(proc[r], x), x.pc = "Write"
          PROVE  Locals(r, x)
        BY <1>3, <2>2 DEF Deployments, Check, At, ProcsOK, Same, Locals, DeployLocals,
                BindLocals, ResolveLocals, AgentLocals, Base, Makes,
           Creations, CreateSteps, SwitchSteps, BindingSteps, RoleSteps, ServedSteps, AccessSteps,
           NewAgentSteps, UpdateSteps, VersionSteps
    <2>. QED
        BY <1>3, <2>1, <2>2, GoFits
<1>. QED
    BY <1>1, <1>2, <1>3 DEF Check

LEMMA DeleteTypes ==
    ASSUME ProcsOK, NEW r \in Requests, Discard(r) \/ Withdraw(r)
    PROVE  /\ Proceeds(r) /\ Goes(r, "refused")
           /\ deployment' = [deployment EXCEPT ![r] = NoDeployment]
BY GoEnds DEF Discard, Withdraw, Delete

(* A write that throws.                                                    *)
LEMMA ThrowTypes ==
    ASSUME ProcsOK, NEW r \in Requests, proc[r].pc = "Write", Throw(r)
    PROVE  Proceeds(r) /\ Goes(r, IF proc[r].restores THEN "Restore" ELSE "refused")
<1>1. CASE Go(r, "refused") /\ ~proc[r].restores
    BY <1>1, GoEnds
<1>2. CASE Go(r, "Restore") /\ proc[r].restores
    <2>1. "Restore" \in Pcs
        BY DEF Pcs, Steps, DeploymentSteps
    <2>2. ASSUME NEW x, Same(proc[r], x), x.pc = "Restore"
          PROVE  Locals(r, x)
        BY <1>2, <2>2 DEF ProcsOK, Same, Locals, DeployLocals, BindLocals, ResolveLocals,
                AgentLocals, Base, Makes,
           Creations, CreateSteps, SwitchSteps, BindingSteps, RoleSteps, ServedSteps, AccessSteps,
           NewAgentSteps, UpdateSteps, VersionSteps
    <2>. QED
        BY <1>2, <2>1, <2>2, GoFits
<1>. QED
    BY <1>1, <1>2 DEF Throw

(* What a status write does.                                               *)
Sets(d, s) == d \in Deployments /\ s \in DeploymentStatus /\ CanSet(d, s) /\ SetStatus(d, s)

LEMMA WriteTypes ==
    ASSUME ProcsOK, NEW r \in Requests, Write(r)
    PROVE  /\ Proceeds(r) /\ Base(proc[r], proc'[r])
           /\ proc'[r].agent = proc[r].agent /\ proc'[r].d = proc[r].d
           /\ proc'[r].pc \in {"Write", "ReadBack", "Restore", "refused"}
           /\ proc'[r].undo = proc[r].undo
           /\ \/ /\ Sets(Head(proc[r].todo)[1], Head(proc[r].todo)[2])
                 /\ proc'[r].todo = Tail(proc[r].todo)
                 /\ proc'[r].pc = IF Len(proc[r].todo) = 1 THEN "ReadBack" ELSE "Write"
              \/ /\ deployment' = deployment /\ proc'[r].todo = proc[r].todo
                 /\ proc'[r].pc = IF proc[r].restores THEN "Restore" ELSE "refused"
<1>. DEFINE p == proc[r]
            w == Head(p.todo)
            s == IF Len(p.todo) = 1 THEN "ReadBack" ELSE "Write"
            x == Writing(p, s, Tail(p.todo))
<1>1. p \in ProcType /\ Locals(r, p) /\ p.pc = "Write"
    BY DEF ProcsOK, Write, At
<1>2. p.todo \in Writes /\ p.todo # <<>> /\ (p.restores => p.undo # <<>>)
    BY <1>1 DEF Locals, DeployLocals, ProcType
<1>3. w \in Deployments \X DeploymentStatus /\ Tail(p.todo) \in Writes
      /\ (Len(p.todo) # 1 => Tail(p.todo) # <<>>)
    BY <1>2, WriteLists
<1>4. CASE CanSet(w[1], w[2])
    <2>1. proc' = [proc EXCEPT ![r] = x] /\ SetStatus(w[1], w[2])
        BY <1>4 DEF Write, Writing
    <2>2. s \in Pcs
        BY DEF Pcs, Steps, DeploymentSteps
    <2>3. /\ x \in ProcType /\ Base(p, x) /\ x.pc = s /\ x.todo = Tail(p.todo)
          /\ x.agent = p.agent /\ x.d = p.d /\ x.seen = p.seen /\ x.undo = p.undo
          /\ x.owner = p.owner /\ x.config = p.config /\ x.fallback = p.fallback
        BY <1>1, <1>3, <2>2, WritingRecord
    <2>. HIDE DEF x
    <2>4. Locals(r, x)
        BY <1>1, <1>2, <1>3, <2>3 DEF Locals, DeployLocals, BindLocals, ResolveLocals,
                AgentLocals, Base, Makes,
           Creations, CreateSteps, SwitchSteps, BindingSteps, RoleSteps, ServedSteps, AccessSteps,
           NewAgentSteps, UpdateSteps, VersionSteps
    <2>5. w[1] \in Deployments /\ w[2] \in DeploymentStatus
        BY <1>3
    <2>. QED
        BY <1>1, <1>4, <2>1, <2>3, <2>4, <2>5, PutFits DEF Base, Sets
<1>5. CASE ~CanSet(w[1], w[2])
    <2>1. Throw(r) /\ deployment' = deployment
        BY <1>5 DEF Write
    <2>2. Proceeds(r) /\ Goes(r, IF p.restores THEN "Restore" ELSE "refused")
        BY <1>1, <2>1, ThrowTypes
    <2>. QED
        BY <2>1, <2>2 DEF Proceeds, Goes, Same, Base, Alike
<1>. QED
    BY <1>4, <1>5

LEMMA RestoreTypes ==
    ASSUME ProcsOK, NEW r \in Requests, Restore(r)
    PROVE  /\ Proceeds(r) /\ Base(proc[r], proc'[r])
           /\ proc'[r].agent = proc[r].agent /\ proc'[r].d = proc[r].d
           /\ proc'[r].pc \in {"Restore", "refused"}
           /\ \/ /\ Sets(Head(proc[r].undo)[1], Head(proc[r].undo)[2])
                 /\ proc'[r].undo = Tail(proc[r].undo)
                 /\ proc'[r].pc = IF Len(proc[r].undo) = 1 THEN "refused" ELSE "Restore"
              \/ /\ ~CanSet(Head(proc[r].undo)[1], Head(proc[r].undo)[2])
                 /\ deployment' = deployment /\ proc'[r].pc = "refused"
<1>. DEFINE p == proc[r]
            w == Head(p.undo)
            s == IF Len(p.undo) = 1 THEN "refused" ELSE "Restore"
            x == Restoring(p, s, Tail(p.undo))
<1>1. p \in ProcType /\ Locals(r, p) /\ p.pc = "Restore"
    BY DEF ProcsOK, Restore, At
<1>2. p.undo \in Writes /\ p.undo # <<>>
    BY <1>1 DEF Locals, DeployLocals, ProcType
<1>3. w \in Deployments \X DeploymentStatus /\ Tail(p.undo) \in Writes
      /\ (Len(p.undo) # 1 => Tail(p.undo) # <<>>)
    BY <1>2, WriteLists
<1>4. CASE CanSet(w[1], w[2])
    <2>1. proc' = [proc EXCEPT ![r] = x] /\ SetStatus(w[1], w[2])
        BY <1>4 DEF Restore, Restoring
    <2>2. s \in Pcs
        BY DEF Pcs, Steps, DeploymentSteps, Answers
    <2>3. /\ x \in ProcType /\ Base(p, x) /\ x.pc = s /\ x.undo = Tail(p.undo)
          /\ x.agent = p.agent /\ x.d = p.d /\ x.seen = p.seen /\ x.todo = p.todo
          /\ x.owner = p.owner /\ x.config = p.config /\ x.fallback = p.fallback
        BY <1>1, <1>3, <2>2, RestoringRecord
    <2>. HIDE DEF x
    <2>4. Locals(r, x)
        BY <1>1, <1>2, <1>3, <2>3 DEF Locals, DeployLocals, BindLocals, ResolveLocals,
                AgentLocals, Base, Makes,
           Creations, CreateSteps, SwitchSteps, BindingSteps, RoleSteps, ServedSteps, AccessSteps,
           NewAgentSteps, UpdateSteps, VersionSteps
    <2>5. w[1] \in Deployments /\ w[2] \in DeploymentStatus
        BY <1>3
    <2>. QED
        BY <1>1, <1>4, <2>1, <2>3, <2>4, <2>5, PutFits DEF Base, Sets
<1>5. CASE ~CanSet(w[1], w[2])
    <2>1. Go(r, "refused") /\ deployment' = deployment
        BY <1>5 DEF Restore
    <2>2. Proceeds(r) /\ Goes(r, "refused")
        BY <2>1, GoEnds
    <2>. QED
        BY <1>5, <2>1, <2>2 DEF Proceeds, Goes, Same, Base, Alike
<1>. QED
    BY <1>4, <1>5

LEMMA ReadBackTypes ==
    ASSUME ProcsOK, NEW r \in Requests, ReadBack(r)
    PROVE  /\ Proceeds(r)
           /\ \/ Goes(r, "done") /\ Valid(proc[r].d)
              \/ Goes(r, "Withdraw") /\ ~Valid(proc[r].d) /\ proc[r].kind = "rollout"
              \/ Goes(r, "refused") /\ ~Valid(proc[r].d)
<1>1. CASE Go(r, "done") /\ Valid(proc[r].d)
    BY <1>1, GoLeads DEF ReadBack, At, DeployLeads
<1>2. CASE Go(r, "refused") /\ ~Valid(proc[r].d)
    BY <1>2, GoEnds
<1>3. CASE Go(r, "Withdraw") /\ ~Valid(proc[r].d) /\ proc[r].kind = "rollout"
    <2>1. "Withdraw" \in Pcs
        BY DEF Pcs, Steps, DeploymentSteps
    <2>2. ASSUME NEW x, Same(proc[r], x), x.pc = "Withdraw"
          PROVE  Locals(r, x)
        BY <1>3, <2>2 DEF ReadBack, At, ProcsOK, Same, Locals, DeployLocals, BindLocals,
                ResolveLocals, AgentLocals, Base, Makes,
           Creations, CreateSteps, SwitchSteps, BindingSteps, RoleSteps, ServedSteps, AccessSteps,
           NewAgentSteps, UpdateSteps, VersionSteps
    <2>. QED
        BY <1>3, <2>1, <2>2, GoFits
<1>. QED
    BY <1>1, <1>2, <1>3 DEF ReadBack

-----------------------------------------------------------------------------
(* The steps of bindings, resolutions and checks of access.                *)

LEMMA BindTypes ==
    ASSUME ProcsOK, NEW r \in Requests, Bind(r)
    PROVE  /\ Proceeds(r)
           /\ \/ /\ Goes(r, "BindCheck") /\ binding[Slot(r)] = "none"
                 /\ binding' = [binding EXCEPT ![Slot(r)] = proc[r].status]
              \/ Goes(r, "BindTaken") /\ binding[Slot(r)] # "none" /\ binding' = binding
<1>1. CASE binding[Slot(r)] = "none"
    BY <1>1, GoLeads DEF Bind, At, BindLeads
<1>2. CASE binding[Slot(r)] # "none"
    BY <1>2, GoLeads DEF Bind, At, BindLeads
<1>. QED
    BY <1>1, <1>2

LEMMA BindTakenTypes ==
    ASSUME ProcsOK, NEW r \in Requests, BindTaken(r)
    PROVE  /\ Proceeds(r)
           /\ \/ Goes(r, "Unbind") /\ ~HasBinding(proc[r].agent, proc[r].target)
              \/ Goes(r, "done") /\ RoleOf(proc[r].agent, proc[r].target) = proc[r].status
              \/ Goes(r, "refused")
<1>. DEFINE role == RoleOf(proc[r].agent, proc[r].target)
<1>1. CASE Go(r, "Unbind") /\ role = "none"
    BY <1>1, GoLeads DEF BindTaken, At, BindLeads, HasBinding
<1>2. CASE Go(r, "done") /\ role = proc[r].status
    BY <1>2, GoLeads DEF BindTaken, At, BindLeads
<1>3. CASE Go(r, "refused")
    BY <1>3, GoEnds
<1>. QED
    BY <1>1, <1>2, <1>3 DEF BindTaken

LEMMA BindCheckTypes ==
    ASSUME ProcsOK, NEW r \in Requests, BindCheck(r)
    PROVE  /\ Proceeds(r)
           /\ \/ Goes(r, "done") /\ proc[r].target \in mailbox
              \/ Goes(r, "Unbind") /\ proc[r].target \notin mailbox
<1>1. CASE Go(r, "done") /\ proc[r].target \in mailbox
    BY <1>1, GoLeads DEF BindCheck, At, BindLeads
<1>2. CASE Go(r, "Unbind") /\ proc[r].target \notin mailbox
    BY <1>2, GoLeads DEF BindCheck, At, BindLeads
<1>. QED
    BY <1>1, <1>2 DEF BindCheck

LEMMA UnbindTypes ==
    ASSUME ProcsOK, NEW r \in Requests, Unbind(r)
    PROVE  Proceeds(r) /\ Goes(r, "refused")
BY GoEnds DEF Unbind

LEMMA RequestedRoleTypes ==
    ASSUME ProcsOK, NEW r \in Requests, RequestedRole(r)
    PROVE  /\ Proceeds(r) /\ Base(proc[r], proc'[r])
           /\ proc'[r].agent = proc[r].agent /\ proc'[r].fallback = proc[r].fallback
           /\ proc'[r].owner = proc[r].owner
           /\ proc'[r].config = HasRole(proc[r].agent, proc[r].target, proc[r].use)
           /\ proc'[r].pc = IF proc'[r].config THEN "ListServing" ELSE "RequestedAny"
<1>. DEFINE p == proc[r]
            has == HasRole(p.agent, p.target, p.use)
            s == IF has THEN "ListServing" ELSE "RequestedAny"
            x == Asking(p, s, has)
<1>1. p \in ProcType /\ Locals(r, p) /\ p.pc = "RequestedRole"
    BY DEF ProcsOK, RequestedRole, At
<1>2. proc' = [proc EXCEPT ![r] = x]
    BY DEF RequestedRole, Asking
<1>3. s \in Pcs /\ has \in BOOLEAN
    BY DEF Pcs, Steps, ResolveSteps, HasRole
<1>4. /\ x \in ProcType /\ Base(p, x) /\ x.pc = s /\ x.config = has
      /\ x.agent = p.agent /\ x.d = p.d /\ x.todo = p.todo /\ x.undo = p.undo
      /\ x.owner = p.owner /\ x.seen = p.seen /\ x.fallback = p.fallback
    BY <1>1, <1>3, AskingRecord
<1>. HIDE DEF x, has
<1>5. Locals(r, x)
    BY <1>1, <1>4 DEF Locals, DeployLocals, BindLocals, ResolveLocals, AgentLocals, Base, Makes,
           Creations, CreateSteps, SwitchSteps, BindingSteps, RoleSteps, ServedSteps, AccessSteps,
           NewAgentSteps, UpdateSteps, VersionSteps
<1>. QED
    BY <1>1, <1>2, <1>4, <1>5, PutFits DEF Base, has

LEMMA RequestedAnyTypes ==
    ASSUME ProcsOK, NEW r \in Requests, RequestedAny(r)
    PROVE  Proceeds(r) /\ \E s \in {"unresolved", "ListServing"} : Goes(r, s)
<1>1. CASE Go(r, "unresolved")
    BY <1>1, GoEnds
<1>2. CASE Go(r, "ListServing")
    BY <1>2, GoLeads DEF RequestedAny, At, ResolveLeads
<1>. QED
    BY <1>1, <1>2 DEF RequestedAny

LEMMA ListServingTypes ==
    ASSUME ProcsOK, DeploymentTypes, NEW r \in Requests, ListServing(r)
    PROVE  /\ Proceeds(r)
           /\ \/ Goes(r, "FallbackBindings")
              \/ /\ Base(proc[r], proc'[r]) /\ proc'[r].agent = proc[r].agent
                 /\ proc'[r].fallback = proc[r].fallback /\ proc'[r].config = proc[r].config
                 /\ proc'[r].pc = "MatchRole"
<1>0. proc[r].pc = "ListServing"
    BY Zenon DEF ListServing, At
<1>1. CASE Go(r, "FallbackBindings")
    BY <1>0, <1>1, GoLeads DEF ResolveLeads
<1>2. ASSUME NEW e \in Deployments, deployment[e].status = "active",
             proc' = [proc EXCEPT ![r] = Matching(proc[r], "MatchRole", e, deployment[e].agent)]
      PROVE  /\ Proceeds(r) /\ Base(proc[r], proc'[r]) /\ proc'[r].agent = proc[r].agent
             /\ proc'[r].fallback = proc[r].fallback /\ proc'[r].config = proc[r].config
             /\ proc'[r].pc = "MatchRole"
    <2>. DEFINE p == proc[r]
                o == deployment[e].agent
                x == Matching(p, "MatchRole", e, o)
    <2>1. p \in ProcType /\ Locals(r, p) /\ p.pc = "ListServing"
        BY <1>0 DEF ProcsOK
    <2>2. proc' = [proc EXCEPT ![r] = x]
        BY <1>2
    <2>3. "MatchRole" \in Pcs /\ o \in AllAgents
        BY <1>2 DEF Pcs, Steps, ResolveSteps, DeploymentTypes, Named
    <2>4. /\ x \in ProcType /\ Base(p, x) /\ x.pc = "MatchRole" /\ x.seen = e /\ x.owner = o
          /\ x.agent = p.agent /\ x.d = p.d /\ x.todo = p.todo /\ x.undo = p.undo
          /\ x.config = p.config /\ x.fallback = p.fallback
        BY <2>1, <2>3, MatchingRecord
    <2>. HIDE DEF x, o
    <2>5. Locals(r, x)
        BY <2>1, <2>3, <2>4 DEF Locals, DeployLocals, BindLocals, ResolveLocals, AgentLocals,
                Base, Makes,
           Creations, CreateSteps, SwitchSteps, BindingSteps, RoleSteps, ServedSteps, AccessSteps,
           NewAgentSteps, UpdateSteps, VersionSteps
    <2>. QED
        BY <2>1, <2>2, <2>4, <2>5, PutFits DEF Base
<1>3. \/ Go(r, "FallbackBindings")
      \/ \E e \in ActiveOn(proc[r].target) :
           proc' = [proc EXCEPT ![r] = Matching(proc[r], "MatchRole", e, deployment[e].agent)]
    BY Zenon DEF ListServing, Matching
<1>4. \A e \in ActiveOn(proc[r].target) : e \in Deployments /\ deployment[e].status = "active"
    BY DEF ActiveOn
<1>. QED
    BY <1>1, <1>2, <1>3, <1>4

(* A resolution that ends with an agent.                                   *)
Resolves(r, a) ==
    /\ Base(proc[r], proc'[r])
    /\ proc'[r].pc = "done" /\ proc'[r].agent = a

LEMMA ResolveTypes ==
    ASSUME ProcsOK, NEW r \in Requests, NEW a \in AllAgents, NEW e \in Deployments \union {None},
           Resolve(r, a, e), proc[r].pc \in ServedSteps
    PROVE  Proceeds(r) /\ Resolves(r, a)
<1>. DEFINE p == proc[r]
            x == Naming(p, "done", a, e)
<1>1. p \in ProcType /\ Locals(r, p)
    BY DEF ProcsOK
<1>2. proc' = [proc EXCEPT ![r] = x]
    BY DEF Resolve, Naming
<1>3. "done" \in Pcs
    BY DEF Pcs, Answers
<1>4. /\ x \in ProcType /\ Base(p, x) /\ x.pc = "done" /\ x.agent = a /\ x.d = e
      /\ x.todo = p.todo /\ x.undo = p.undo /\ x.seen = p.seen
      /\ x.owner = p.owner /\ x.config = p.config /\ x.fallback = p.fallback
    BY <1>1, <1>3, NamingRecord
<1>. HIDE DEF x
<1>5. Locals(r, x)
    BY <1>1, <1>4 DEF Locals, DeployLocals, BindLocals, ResolveLocals, AgentLocals, Base, Makes,
           Creations, CreateSteps, SwitchSteps, BindingSteps, RoleSteps, ServedSteps, AccessSteps,
           NewAgentSteps, UpdateSteps, VersionSteps
<1>. QED
    BY <1>1, <1>2, <1>4, <1>5, PutFits DEF Base, Resolves

LEMMA MatchRoleTypes ==
    ASSUME ProcsOK, NEW r \in Requests, MatchRole(r)
    PROVE  /\ Proceeds(r)
           /\ \/ /\ Resolves(r, proc[r].owner)
                 /\ HasRole(proc[r].owner, proc[r].target, proc[r].use)
              \/ Goes(r, "MatchAny")
<1>1. proc[r].pc = "MatchRole" /\ proc[r].owner \in AllAgents /\ proc[r].seen \in Deployments
    BY DEF MatchRole, At, ProcsOK, Locals, ResolveLocals
<1>2. CASE Go(r, "MatchAny")
    BY <1>1, <1>2, GoLeads DEF ResolveLeads
<1>3. CASE HasRole(proc[r].owner, proc[r].target, proc[r].use)
             /\ Resolve(r, proc[r].owner, proc[r].seen)
    BY <1>1, <1>3, ResolveTypes DEF ServedSteps
<1>. QED
    BY <1>2, <1>3 DEF MatchRole

LEMMA MatchAnyTypes ==
    ASSUME ProcsOK, NEW r \in Requests, MatchAny(r)
    PROVE  /\ Proceeds(r) /\ Base(proc[r], proc'[r])
           /\ proc'[r].agent = proc[r].agent /\ proc'[r].owner = proc[r].owner
           /\ proc'[r].config = proc[r].config /\ proc'[r].pc = "FallbackBindings"
           /\ proc'[r].fallback = ~HasBinding(proc[r].owner, proc[r].target)
<1>. DEFINE p == proc[r]
            b == ~HasBinding(p.owner, p.target)
            x == Falling(p, "FallbackBindings", b)
<1>1. p \in ProcType /\ Locals(r, p) /\ p.pc = "MatchAny"
    BY DEF ProcsOK, MatchAny, At
<1>2. proc' = [proc EXCEPT ![r] = x]
    BY DEF MatchAny, Falling
<1>3. "FallbackBindings" \in Pcs /\ b \in BOOLEAN
    BY DEF Pcs, Steps, ResolveSteps
<1>4. /\ x \in ProcType /\ Base(p, x) /\ x.pc = "FallbackBindings" /\ x.fallback = b
      /\ x.agent = p.agent /\ x.d = p.d /\ x.todo = p.todo /\ x.undo = p.undo
      /\ x.owner = p.owner /\ x.seen = p.seen /\ x.config = p.config
    BY <1>1, <1>3, FallingRecord
<1>. HIDE DEF x, b
<1>5. Locals(r, x)
    BY <1>1, <1>4 DEF Locals, DeployLocals, BindLocals, ResolveLocals, AgentLocals, Base, Makes,
           Creations, CreateSteps, SwitchSteps, BindingSteps, RoleSteps, ServedSteps, AccessSteps,
           NewAgentSteps, UpdateSteps, VersionSteps
<1>. QED
    BY <1>1, <1>2, <1>4, <1>5, PutFits DEF Base, b

LEMMA FallbackBindingsTypes ==
    ASSUME ProcsOK, NEW r \in Requests, FallbackBindings(r)
    PROVE  /\ Proceeds(r)
           /\ \/ \E a \in Capable(r) : Resolves(r, a)
              \/ proc[r].fallback /\ Resolves(r, proc[r].owner)
              \/ proc[r].agent = None /\ Goes(r, "LastFallback")
              \/ proc[r].config /\ Resolves(r, proc[r].agent)
              \/ proc[r].agent # None /\ ~proc[r].config /\ Goes(r, "unresolved")
<1>1. /\ proc[r].pc = "FallbackBindings" /\ proc[r].pc \in ServedSteps
      /\ proc[r].fallback => proc[r].owner \in AllAgents /\ proc[r].seen \in Deployments
      /\ proc[r].config => proc[r].agent \in AllAgents
    BY DEF FallbackBindings, At, ProcsOK, Locals, ResolveLocals, ServedSteps
<1>2. CASE \E a \in Capable(r) : Resolve(r, a, None)
    BY <1>1, <1>2, ResolveTypes DEF Capable
<1>3. CASE proc[r].fallback /\ Resolve(r, proc[r].owner, proc[r].seen)
    BY <1>1, <1>3, ResolveTypes
<1>4. CASE proc[r].agent = None /\ Go(r, "LastFallback")
    BY <1>1, <1>4, GoLeads DEF ResolveLeads
<1>5. CASE proc[r].config /\ Resolve(r, proc[r].agent, None)
    BY <1>1, <1>5, ResolveTypes
<1>6. CASE proc[r].agent # None /\ ~proc[r].config /\ Go(r, "unresolved")
    BY <1>6, GoEnds
<1>. QED
    BY <1>2, <1>3, <1>4, <1>5, <1>6 DEF FallbackBindings

LEMMA LastFallbackTypes ==
    ASSUME ProcsOK, NEW r \in Requests, LastFallback(r)
    PROVE  /\ Proceeds(r)
           /\ \/ \E a \in Capable(r) : Resolves(r, a)
              \/ Capable(r) = {} /\ Goes(r, "unresolved")
<1>1. proc[r].pc \in ServedSteps
    BY DEF LastFallback, At, ServedSteps
<1>2. CASE \E a \in Capable(r) : Resolve(r, a, None)
    BY <1>1, <1>2, ResolveTypes DEF Capable
<1>3. CASE Capable(r) = {} /\ Go(r, "unresolved")
    BY <1>3, GoEnds
<1>. QED
    BY <1>2, <1>3 DEF LastFallback

LEMMA AccessRoleTypes ==
    ASSUME ProcsOK, NEW r \in Requests, AccessRole(r)
    PROVE  /\ Proceeds(r)
           /\ LET has == HasRole(proc[r].agent, proc[r].target, proc[r].use) IN
              \/ has /\ Goes(r, "done")
              \/ ~has /\ proc[r].use = "any" /\ Goes(r, "AccessDeployed")
              \/ ~has /\ Goes(r, "AccessAny")
<1>. DEFINE has == HasRole(proc[r].agent, proc[r].target, proc[r].use)
<1>0. proc[r].pc = "AccessRole"
    BY DEF AccessRole, At
<1>1. CASE has /\ Go(r, "done")
    BY <1>0, <1>1, GoLeads DEF ResolveLeads
<1>2. CASE ~has /\ proc[r].use = "any" /\ Go(r, "AccessDeployed")
    BY <1>0, <1>2, GoLeads DEF ResolveLeads
<1>3. CASE ~has /\ Go(r, "AccessAny")
    BY <1>0, <1>3, GoLeads DEF ResolveLeads
<1>. QED
    BY <1>1, <1>2, <1>3 DEF AccessRole

LEMMA AccessAnyTypes ==
    ASSUME ProcsOK, NEW r \in Requests, AccessAny(r)
    PROVE  /\ Proceeds(r)
           /\ \/ Goes(r, "denied")
              \/ ~HasBinding(proc[r].agent, proc[r].target) /\ Goes(r, "AccessDeployed")
<1>1. CASE Go(r, "denied")
    BY <1>1, GoEnds
<1>2. CASE ~HasBinding(proc[r].agent, proc[r].target) /\ Go(r, "AccessDeployed")
    BY <1>2, GoLeads DEF AccessAny, At, ResolveLeads
<1>. QED
    BY <1>1, <1>2 DEF AccessAny

LEMMA AccessDeployedTypes ==
    ASSUME ProcsOK, NEW r \in Requests, AccessDeployed(r)
    PROVE  Proceeds(r) /\ \E s \in {"done", "denied"} : Goes(r, s)
<1>1. CASE Go(r, "done")
    BY <1>1, GoLeads DEF AccessDeployed, At, ResolveLeads
<1>2. CASE Go(r, "denied")
    BY <1>2, GoEnds
<1>. QED
    BY <1>1, <1>2 DEF AccessDeployed

-----------------------------------------------------------------------------
(* The steps of agents and versions.                                       *)

LEMMA AgentStepTypes ==
    ASSUME ProcsOK, NEW r \in Requests, AgentStep(r)
    PROVE  /\ Proceeds(r)
           /\ PutAgent(r) => Goes(r, "InsertAgent")
           /\ InsertAgent(r) => Goes(r, "ReadAgent")
           /\ ReadAgent(r) => Goes(r, "done")
           /\ PutUpdate(r) => Goes(r, "UpdateAgent")
           /\ UpdateAgent(r) => Goes(r, "ReadUpdated")
           /\ DropOld(r) => Goes(r, "done")
           /\ DropAgentBlob(r) => Goes(r, "refused")
           /\ DropNew(r) => Goes(r, "refused")
           /\ PutConfig(r) => Goes(r, "PutManifest")
           /\ PutManifest(r) => Goes(r, "InsertVersion")
           /\ InsertVersion(r) => Goes(r, "InsertParts")
           /\ ReadVersion(r) => Goes(r, "done")
           /\ UndoParts(r) => Goes(r, "UndoVersion")
           /\ UndoVersion(r) => Goes(r, "UndoConfig")
           /\ UndoConfig(r) => Goes(r, "UndoManifest")
           /\ UndoManifest(r) => Goes(r, "refused")
           /\ ReadUpdated(r) => Goes(r, IF proc[r].config THEN "DropOld" ELSE "done")
           /\ InsertParts(r) =>
                Goes(r, IF parts[r] + 1 = WholeVersion THEN "ReadVersion" ELSE "InsertParts")
<1>1. ASSUME PutAgent(r) PROVE Proceeds(r) /\ Goes(r, "InsertAgent")
    BY <1>1, GoLeads DEF PutAgent, At, AgentLeads
<1>2. ASSUME InsertAgent(r) PROVE Proceeds(r) /\ Goes(r, "ReadAgent")
    BY <1>2, GoLeads DEF InsertAgent, At, AgentLeads
<1>3. ASSUME ReadAgent(r) PROVE Proceeds(r) /\ Goes(r, "done")
    BY <1>3, GoLeads DEF ReadAgent, At, AgentLeads
<1>4. ASSUME PutUpdate(r) PROVE Proceeds(r) /\ Goes(r, "UpdateAgent")
    BY <1>4, GoLeads DEF PutUpdate, At, AgentLeads
<1>5. ASSUME UpdateAgent(r) PROVE Proceeds(r) /\ Goes(r, "ReadUpdated")
    BY <1>5, GoLeads DEF UpdateAgent, At, AgentLeads
<1>6. ASSUME DropOld(r) PROVE Proceeds(r) /\ Goes(r, "done")
    BY <1>6, GoLeads DEF DropOld, At, AgentLeads
<1>7. ASSUME DropAgentBlob(r) PROVE Proceeds(r) /\ Goes(r, "refused")
    BY <1>7, GoEnds DEF DropAgentBlob, DropBlob
<1>8. ASSUME DropNew(r) PROVE Proceeds(r) /\ Goes(r, "refused")
    BY <1>8, GoEnds DEF DropNew, DropBlob
<1>9. ASSUME PutConfig(r) PROVE Proceeds(r) /\ Goes(r, "PutManifest")
    BY <1>9, GoLeads DEF PutConfig, At, AgentLeads
<1>10. ASSUME PutManifest(r) PROVE Proceeds(r) /\ Goes(r, "InsertVersion")
    BY <1>10, GoLeads DEF PutManifest, At, AgentLeads
<1>11. ASSUME InsertVersion(r) PROVE Proceeds(r) /\ Goes(r, "InsertParts")
    BY <1>11, GoLeads DEF InsertVersion, At, AgentLeads
<1>12. ASSUME ReadVersion(r) PROVE Proceeds(r) /\ Goes(r, "done")
    BY <1>12, GoLeads DEF ReadVersion, At, AgentLeads
<1>13. ASSUME UndoParts(r) PROVE Proceeds(r) /\ Goes(r, "UndoVersion")
    BY <1>13, GoLeads DEF UndoParts, At, AgentLeads
<1>14. ASSUME UndoVersion(r) PROVE Proceeds(r) /\ Goes(r, "UndoConfig")
    BY <1>14, GoLeads DEF UndoVersion, At, AgentLeads
<1>15. ASSUME UndoConfig(r) PROVE Proceeds(r) /\ Goes(r, "UndoManifest")
    BY <1>15, GoLeads DEF UndoConfig, At, AgentLeads
<1>16. ASSUME UndoManifest(r) PROVE Proceeds(r) /\ Goes(r, "refused")
    BY <1>16, GoEnds DEF UndoManifest
<1>17. ASSUME ReadUpdated(r)
      PROVE  Proceeds(r) /\ Goes(r, IF proc[r].config THEN "DropOld" ELSE "done")
    <2>1. CASE ~proc[r].config
        BY <1>17, <2>1, GoLeads DEF ReadUpdated, At, AgentLeads
    <2>2. CASE proc[r].config
        <3>1. "DropOld" \in Pcs
            BY DEF Pcs, Steps, AgentSteps
        <3>2. ASSUME NEW x, Same(proc[r], x), x.pc = "DropOld"
              PROVE  Locals(r, x)
            BY <1>17, <2>2, <3>2 DEF ReadUpdated, At, ProcsOK, Same, Locals, DeployLocals,
                    BindLocals, ResolveLocals, AgentLocals, Base, Makes,
           Creations, CreateSteps, SwitchSteps, BindingSteps, RoleSteps, ServedSteps, AccessSteps,
           NewAgentSteps, UpdateSteps, VersionSteps
        <3>. QED
            BY <1>17, <2>2, <3>1, <3>2, GoFits DEF ReadUpdated
    <2>. QED
        BY <2>1, <2>2
<1>18. ASSUME InsertParts(r)
      PROVE  /\ Proceeds(r)
             /\ Goes(r, IF parts[r] + 1 = WholeVersion THEN "ReadVersion" ELSE "InsertParts")
    BY <1>18, GoLeads DEF InsertParts, At, AgentLeads
<1>. QED
    BY <1>1, <1>2, <1>3, <1>4, <1>5, <1>6, <1>7, <1>8, <1>9,
       <1>10, <1>11, <1>12, <1>13, <1>14, <1>15, <1>16, <1>17, <1>18 DEF AgentStep

-----------------------------------------------------------------------------
(* Failures and crashes.                                                   *)

LEMMA FailWriteTypes ==
    ASSUME ProcsOK, NEW r \in Requests, FailWrite(r)
    PROVE  /\ Proceeds(r) /\ Goes(r, IF proc[r].restores THEN "Restore" ELSE "refused")
           /\ \/ Sets(Head(proc[r].todo)[1], Head(proc[r].todo)[2])
              \/ deployment' = deployment
<1>. DEFINE p == proc[r]
            w == Head(p.todo)
<1>1. p \in ProcType /\ Locals(r, p) /\ p.pc = "Write"
    BY DEF ProcsOK, FailWrite, At
<1>2. p.todo \in Writes /\ p.todo # <<>>
    BY <1>1 DEF Locals, DeployLocals, ProcType
<1>3. w[1] \in Deployments /\ w[2] \in DeploymentStatus
    BY <1>2, WriteLists
<1>4. /\ Throw(r)
      /\ \/ deployment' = deployment
         \/ CanSet(w[1], w[2]) /\ SetStatus(w[1], w[2])
    BY Zenon DEF FailWrite
<1>5. Proceeds(r) /\ Goes(r, IF p.restores THEN "Restore" ELSE "refused")
    BY <1>1, <1>4, ThrowTypes
<1>. QED
    BY <1>3, <1>4, <1>5 DEF Sets

LEMMA FailTypes ==
    ASSUME ProcsOK, NEW r \in Requests, FailRead(r) \/ FailUndo(r) \/ FailAgentRead(r)
    PROVE  Proceeds(r) /\ Goes(r, "refused")
BY GoEnds DEF FailRead, FailUndo, FailAgentRead

LEMMA CrashTypes ==
    ASSUME ProcsOK, NEW r \in Requests, Crash(r)
    PROVE  Proceeds(r) /\ Goes(r, "crashed")
BY GoEnds DEF Crash

LEMMA FailAgentWriteTypes ==
    ASSUME ProcsOK, NEW r \in Requests, FailAgentWrite(r)
    PROVE  /\ Proceeds(r)
           /\ \/ proc[r].pc = "InsertAgent" /\ Goes(r, "DropAgentBlob")
              \/ proc[r].pc \in {"InsertVersion", "InsertParts"} /\ Goes(r, "UndoParts")
              \/ proc[r].pc = "UpdateAgent" /\ proc[r].config /\ Goes(r, "DropNew")
              \/ proc[r].pc = "UpdateAgent" /\ Goes(r, "refused")
<1>1. CASE At(r, "InsertAgent") /\ Go(r, "DropAgentBlob")
    BY <1>1, GoLeads DEF At, AgentLeads
<1>2. CASE (At(r, "InsertVersion") \/ At(r, "InsertParts")) /\ Go(r, "UndoParts")
    BY <1>2, GoLeads DEF At, AgentLeads
<1>3. CASE At(r, "UpdateAgent") /\ proc[r].config /\ Go(r, "DropNew")
    <2>1. "DropNew" \in Pcs
        BY DEF Pcs, Steps, AgentSteps
    <2>2. ASSUME NEW x, Same(proc[r], x), x.pc = "DropNew"
          PROVE  Locals(r, x)
        BY <1>3, <2>2 DEF At, ProcsOK, Same, Locals, DeployLocals, BindLocals, ResolveLocals,
                AgentLocals, Base, Makes,
           Creations, CreateSteps, SwitchSteps, BindingSteps, RoleSteps, ServedSteps, AccessSteps,
           NewAgentSteps, UpdateSteps, VersionSteps
    <2>. QED
        BY <1>3, <2>1, <2>2, GoFits DEF At
<1>4. CASE At(r, "UpdateAgent") /\ Go(r, "refused")
    BY <1>4, GoEnds DEF At
<1>. QED
    BY <1>1, <1>2, <1>3, <1>4 DEF FailAgentWrite, NextAfterThrow, At

LEMMA FailAgentUndoTypes ==
    ASSUME ProcsOK, NEW r \in Requests, FailAgentUndo(r)
    PROVE  Proceeds(r) /\ Goes(r, NextAfterUndo[proc[r].pc])
<1>. DEFINE s == NextAfterUndo[proc[r].pc]
<1>1. /\ Go(r, s)
      /\ \/ proc[r].pc \in {"DropAgentBlob", "DropNew", "UndoManifest"} /\ s = "refused"
         \/ AgentLeads(proc[r].pc, s)
    BY DEF FailAgentUndo, NextAfterUndo, AgentLeads
<1>2. CASE s = "refused"
    BY <1>1, <1>2, GoEnds
<1>3. CASE AgentLeads(proc[r].pc, s)
    <2>. HIDE DEF s
    <2>1. Proceeds(r) /\ Goes(r, s)
        BY <1>1, <1>3, GoLeads
    <2>. QED
        BY <2>1 DEF s
<1>. QED
    BY <1>1, <1>2, <1>3

-----------------------------------------------------------------------------
(* Arrivals.                                                               *)

Arrives(r) ==
    /\ proc[r].pc = "idle" /\ proc'[r].pc # "idle" /\ proc'[r].alone = AtRest
    /\ \A q \in Requests \ {r} : proc'[q].alone = IF Running(q) THEN FALSE ELSE proc[q].alone

Begun(p, a, b) == [p EXCEPT !.alone = a, !.before = b]
NotAlone(p) == [p EXCEPT !.alone = FALSE]

LEMMA BegunRecord ==
    ASSUME NEW p \in ProcType, NEW a \in BOOLEAN, NEW b \in [Deployments -> DeploymentStatus]
    PROVE  LET x == Begun(p, a, b) IN
           x \in ProcType /\ Same(p, x) /\ x.pc = p.pc /\ x.alone = a /\ x.before = b
<1>. DEFINE x == Begun(p, a, b)
<1>1. x \in ProcType
    BY DEF ProcType, Begun
<1>2. Same(p, x)
    BY DEF ProcType, Begun, Same
<1>3. x.pc = p.pc /\ x.alone = a /\ x.before = b
    BY DEF ProcType, Begun
<1>. QED
    BY <1>1, <1>2, <1>3

LEMMA NotAloneRecord ==
    ASSUME NEW p \in ProcType
    PROVE  LET x == NotAlone(p) IN
           x \in ProcType /\ Same(p, x) /\ x.pc = p.pc /\ x.alone = FALSE
<1>. DEFINE x == NotAlone(p)
<1>1. x \in ProcType
    BY DEF ProcType, NotAlone
<1>2. Same(p, x)
    BY DEF ProcType, NotAlone, Same
<1>3. x.pc = p.pc /\ x.alone = FALSE
    BY DEF ProcType, NotAlone
<1>. QED
    BY <1>1, <1>2, <1>3

LEMMA SameLocals ==
    ASSUME NEW r, NEW p, NEW x, Locals(r, p), Same(p, x), x.pc = p.pc
    PROVE  Locals(r, x)
BY DEF Locals, DeployLocals, BindLocals, ResolveLocals, AgentLocals, Same, Makes

LEMMA BeginTypes ==
    ASSUME ProcsOK, DeploymentTypes, NEW r \in Requests, NEW l \in ProcType, Begin(r, l),
           Locals(r, l), At(r, "idle"), l.pc # "idle"
    PROVE  /\ Typed(r) /\ Arrives(r) /\ Same(l, proc'[r]) /\ proc'[r].pc = l.pc
           /\ proc'[r].before = Statuses
<1>. DEFINE x == Begun(l, AtRest, Statuses)
<1>1. Statuses \in [Deployments -> DeploymentStatus] /\ AtRest \in BOOLEAN
    BY DEF Statuses, DeploymentTypes, RowType, AtRest
<1>2. x \in ProcType /\ Same(l, x) /\ x.pc = l.pc /\ x.alone = AtRest /\ x.before = Statuses
    BY <1>1, BegunRecord
<1>3. proc' = [q \in Requests |->
                 IF q = r THEN x ELSE IF Running(q) THEN NotAlone(proc[q]) ELSE proc[q]]
    BY DEF Begin, Begun, NotAlone
<1>. HIDE DEF x
<1>4. ASSUME NEW q \in Requests \ {r}
      PROVE  /\ proc'[q] \in ProcType /\ Still(q)
             /\ proc'[q].alone = IF Running(q) THEN FALSE ELSE proc[q].alone
    <2>1. proc[q] \in ProcType
        BY DEF ProcsOK
    <2>2. CASE Running(q)
        BY <1>3, <2>1, <2>2, NotAloneRecord DEF Still
    <2>3. CASE ~Running(q)
        BY <1>3, <2>1, <2>3 DEF Still, Same
    <2>. QED
        BY <2>2, <2>3
<1>5. proc'[r] = x
    BY <1>3
<1>6. proc' \in [Requests -> ProcType]
    BY <1>2, <1>3, <1>4, <1>5
<1>7. Locals(r, x)
    BY <1>2, SameLocals
<1>. QED
    BY <1>2, <1>4, <1>5, <1>6, <1>7 DEF Typed, Arrives, At

LEMMA CallIs ==
    ASSUME HistoryTypes, NEW c \in workload
    PROVE  c.at \subseteq Mailboxes /\ Fitting(c)
<1>1. c \in CallType /\ Fitting(c)
    BY RegistryAssumption DEF HistoryTypes
<1>2. c.at \in SUBSET Mailboxes
    BY <1>1, Zenon DEF CallType
<1>. QED
    BY <1>1, <1>2

LEMMA NamesAre ==
    /\ None \notin AllAgents /\ None \notin AllVersions /\ None \notin Deployments
    /\ None \notin Mailboxes
    /\ Requests \subseteq AllAgents /\ Requests \subseteq AllVersions
    /\ Requests \subseteq Deployments
BY RegistryAssumption DEF AllAgents, AllVersions, Deployments

LEMMA IdleTyped ==
    /\ Kinds = {"deploy", "rollout", "rollback", "status", "bind", "drop", "resolve", "access",
                "agent", "update", "version"}
    /\ {"idle", "refused", "unresolved", "done", "Insert", "List", "Write", "Bind", "RequestedRole",
        "ListServing", "AccessRole", "PutAgent", "PutUpdate", "UpdateAgent",
                "PutConfig"} \subseteq Pcs
    /\ "none" \in DeploymentStatus /\ "receive" \in DOMAIN CapableRoles /\ <<>> \in Writes
    /\ \A d \in Deployments : \A s \in DeploymentStatus : <<<<d, s>>>> \in Writes
<1>1. {"idle", "refused", "unresolved", "done", "Insert", "List", "Write", "Bind", "RequestedRole",
       "ListServing", "AccessRole", "PutAgent", "PutUpdate", "UpdateAgent", "PutConfig"} \subseteq Pcs
    BY DEF Pcs, Steps, Answers, DeploymentSteps, BindingSteps, ResolveSteps, AgentSteps,
           VersionSteps
<1>2. \A d \in Deployments : \A s \in DeploymentStatus : <<<<d, s>>>> \in Writes
    BY WriteLists
<1>3. "none" \in DeploymentStatus /\ "receive" \in DOMAIN CapableRoles /\ <<>> \in Writes
    BY WriteLists DEF DeploymentStatus, CapableRoles
<1>. QED
    BY <1>1, <1>2, <1>3 DEF Kinds

DeployLocal(r, c, v, t, s) ==
    [IdleProc EXCEPT !.pc = s, !.kind = "deploy", !.agent = version[v], !.version = v,
            !.target = t, !.d = r,
      !.status = c.as]

LEMMA ArriveDeployTypes ==
    ASSUME ProcsOK, DeploymentTypes, HistoryTypes, AgentTypes, NEW r \in Requests, At(r, "idle"),
           NEW c \in workload, ArriveDeploy(r, c)
    PROVE  /\ Typed(r) /\ Arrives(r) /\ proc'[r].kind = "deploy"
           /\ \/ proc'[r].pc = "refused"
              \/ /\ proc'[r].pc = "Insert"
                 /\ proc'[r].version \in AllVersions /\ version[proc'[r].version] # None
<1>0. c.kind = "deploy" /\ \E v \in c.on, t \in c.at : Begin(r, DeployLocal(r, c, v, t,
        IF version[v] # None /\ t \in mailbox THEN "Insert" ELSE "refused"))
    BY Zenon DEF ArriveDeploy, DeployLocal
<1>1. c.kind = "deploy"
    BY <1>0
<1>2. c.at \subseteq Mailboxes /\ c.on \subseteq AllVersions /\ c.as \in Settable
    BY <1>1, CallIs DEF Fitting
<1>3. PICK v \in c.on, t \in c.at : Begin(r, DeployLocal(r, c, v, t,
        IF version[v] # None /\ t \in mailbox THEN "Insert" ELSE "refused"))
    BY <1>0
<1>. DEFINE s == IF version[v] # None /\ t \in mailbox THEN "Insert" ELSE "refused"
            l == DeployLocal(r, c, v, t, s)
<1>4. /\ v \in AllVersions /\ t \in Mailboxes /\ version[v] \in AllAgents \union {None}
      /\ c.as \in DeploymentStatus /\ r \in Deployments
    BY <1>2, <1>3, NamesAre DEF AgentTypes, Settable
<1>5. /\ l.pc = s
      /\ l.kind = "deploy" /\ l.agent = version[v] /\ l.version = v /\ l.target = t /\ l.d = r
      /\ l.status = c.as /\ l.fallback = FALSE
    BY DEF DeployLocal, IdleProc
<1>6. l \in ProcType
    <2>1. s \in Pcs
        BY IdleTyped
    <2>. HIDE DEF s
    <2>. DEFINE x == [IdleProc EXCEPT !.pc = s, !.kind = "deploy", !.agent = version[v],
            !.version = v]
    <2>2. x \in ProcType
        BY <1>4, <2>1, IdleTyped DEF IdleProc, ProcType
    <2>3. l = [x EXCEPT !.target = t, !.d = r, !.status = c.as]
        BY DEF DeployLocal
    <2>. HIDE DEF x, l
    <2>. QED
        BY <1>4, <2>2, <2>3, IdleTyped DEF ProcType
<1>. HIDE DEF l
<1>7. Locals(r, l)
    BY <1>4, <1>5 DEF Locals, DeployLocals, BindLocals, ResolveLocals, AgentLocals, Base, Makes,
           Creations, CreateSteps, SwitchSteps, BindingSteps, RoleSteps, ServedSteps, AccessSteps,
           NewAgentSteps, UpdateSteps, VersionSteps
<1>8. Typed(r) /\ Arrives(r) /\ Same(l, proc'[r]) /\ proc'[r].pc = l.pc
    BY <1>3, <1>5, <1>6, <1>7, BeginTypes DEF l
<1>. QED
    BY <1>3, <1>4, <1>5, <1>8 DEF Same

RolloutLocal(r, c, v, t, s) ==
    [IdleProc EXCEPT !.pc = s, !.kind = "rollout", !.agent = version[v], !.version = v,
            !.target = t, !.d = r,
      !.status = "paused", !.restores = TRUE]

LEMMA ArriveRolloutTypes ==
    ASSUME ProcsOK, DeploymentTypes, HistoryTypes, AgentTypes, NEW r \in Requests, At(r, "idle"),
           NEW c \in workload, ArriveRollout(r, c)
    PROVE  /\ Typed(r) /\ Arrives(r) /\ proc'[r].kind = "rollout"
           /\ proc'[r].d = r /\ proc'[r].status = "paused" /\ proc'[r].restores
           /\ proc'[r].before = Statuses
           /\ \/ proc'[r].pc = "refused"
              \/ /\ proc'[r].pc = "List"
                 /\ proc'[r].version \in AllVersions /\ version[proc'[r].version] # None
                 /\ version[proc'[r].version] = proc'[r].agent /\ proc'[r].target \in mailbox
<1>0. c.kind = "rollout" /\ \E v \in c.on, t \in c.at : Begin(r, RolloutLocal(r, c, v, t,
        IF version[v] # None /\ t \in mailbox THEN "List" ELSE "refused"))
    BY Zenon DEF ArriveRollout, RolloutLocal
<1>1. c.kind = "rollout"
    BY <1>0
<1>2. c.at \subseteq Mailboxes /\ c.on \subseteq AllVersions
    BY <1>1, CallIs DEF Fitting
<1>3. PICK v \in c.on, t \in c.at : Begin(r, RolloutLocal(r, c, v, t,
        IF version[v] # None /\ t \in mailbox THEN "List" ELSE "refused"))
    BY <1>0
<1>. DEFINE s == IF version[v] # None /\ t \in mailbox THEN "List" ELSE "refused"
            l == RolloutLocal(r, c, v, t, s)
<1>4. /\ v \in AllVersions /\ t \in Mailboxes /\ version[v] \in AllAgents \union {None}
      /\ "paused" \in DeploymentStatus /\ r \in Deployments
    BY <1>2, <1>3, NamesAre DEF AgentTypes, DeploymentStatus
<1>5. /\ l.pc = s
      /\ l.kind = "rollout" /\ l.agent = version[v] /\ l.version = v /\ l.target = t /\ l.d = r
      /\ l.status = "paused" /\ l.fallback = FALSE /\ l.restores = TRUE
    BY DEF RolloutLocal, IdleProc
<1>6. l \in ProcType
    <2>1. s \in Pcs
        BY IdleTyped
    <2>. HIDE DEF s
    <2>. DEFINE x == [IdleProc EXCEPT !.pc = s, !.kind = "rollout", !.agent = version[v],
            !.version = v]
    <2>2. x \in ProcType
        BY <1>4, <2>1, IdleTyped DEF IdleProc, ProcType
    <2>3. l = [x EXCEPT !.target = t, !.d = r, !.status = "paused", !.restores = TRUE]
        BY DEF RolloutLocal
    <2>. HIDE DEF x, l
    <2>. QED
        BY <1>4, <2>2, <2>3, IdleTyped DEF ProcType
<1>. HIDE DEF l
<1>7. Locals(r, l)
    BY <1>4, <1>5 DEF Locals, DeployLocals, BindLocals, ResolveLocals, AgentLocals, Base, Makes,
           Creations, CreateSteps, SwitchSteps, BindingSteps, RoleSteps, ServedSteps, AccessSteps,
           NewAgentSteps, UpdateSteps, VersionSteps
<1>8. Typed(r) /\ Arrives(r) /\ Same(l, proc'[r]) /\ proc'[r].pc = l.pc
      /\ proc'[r].before = Statuses
    BY <1>3, <1>5, <1>6, <1>7, BeginTypes DEF l
<1>. QED
    BY <1>3, <1>4, <1>5, <1>8 DEF Same

(* A request that names a deployment has found it whole.                   *)
Chosen(x) ==
    /\ x.d \in Deployments /\ Valid(x.d)
    /\ x.target = deployment[x.d].target /\ x.status = deployment[x.d].status

RollbackLocal(r, c, d, s) ==
    [IdleProc EXCEPT !.pc = s, !.kind = "rollback", !.target = deployment[d].target, !.d = d,
      !.status = deployment[d].status, !.restores = TRUE]

LEMMA ArriveRollbackTypes ==
    ASSUME ProcsOK, DeploymentTypes, HistoryTypes, AgentTypes, NEW r \in Requests, At(r, "idle"),
           NEW c \in workload, ArriveRollback(r, c)
    PROVE  /\ Typed(r) /\ Arrives(r) /\ proc'[r].kind = "rollback"
           /\ proc'[r].before = Statuses
           /\ \/ proc'[r].pc = "refused"
              \/ proc'[r].pc = "List" /\ Chosen(proc'[r]) /\ proc'[r].restores
<1>0. c.kind = "rollback" /\ \E d \in c.on : Begin(r, RollbackLocal(r, c, d,
        IF Valid(d) THEN "List" ELSE "refused"))
    BY Zenon DEF ArriveRollback, RollbackLocal
<1>1. c.kind = "rollback"
    BY <1>0
<1>2. c.on \subseteq Deployments
    BY <1>1, CallIs DEF Fitting
<1>3. PICK d \in c.on : Begin(r, RollbackLocal(r, c, d, IF Valid(d) THEN "List" ELSE "refused"))
    BY <1>0
<1>. DEFINE s == IF Valid(d) THEN "List" ELSE "refused"
            l == RollbackLocal(r, c, d, s)
<1>4. /\ d \in Deployments /\ deployment[d].target \in Mailboxes \union {None}
      /\ deployment[d].status \in DeploymentStatus
      /\ Valid(d) => deployment[d].target \in Mailboxes
    BY <1>2, <1>3, NamesAre DEF DeploymentTypes, RowType, Named, Valid
<1>5. /\ l.pc = s
      /\ l.kind = "rollback" /\ l.target = deployment[d].target /\ l.d = d
      /\ l.status = deployment[d].status /\ l.fallback = FALSE /\ l.restores = TRUE
    BY DEF RollbackLocal, IdleProc
<1>6. l \in ProcType
    <2>1. s \in Pcs
        BY IdleTyped
    <2>. HIDE DEF s
    <2>. QED
        BY <1>4, <2>1, IdleTyped DEF RollbackLocal, IdleProc, ProcType
<1>. HIDE DEF l
<1>7. Locals(r, l)
    BY <1>4, <1>5 DEF Locals, DeployLocals, BindLocals, ResolveLocals, AgentLocals, Base, Makes,
           Creations, CreateSteps, SwitchSteps, BindingSteps, RoleSteps, ServedSteps, AccessSteps,
           NewAgentSteps, UpdateSteps, VersionSteps
<1>8. Typed(r) /\ Arrives(r) /\ Same(l, proc'[r]) /\ proc'[r].pc = l.pc
      /\ proc'[r].before = Statuses
    BY <1>3, <1>5, <1>6, <1>7, BeginTypes DEF l
<1>. QED
    BY <1>3, <1>4, <1>5, <1>8 DEF Same, Chosen

Activates(c, d) == c.as = "active" /\ deployment[d].status # "active"
StatusLocal(r, c, d, s) ==
    [IdleProc EXCEPT !.pc = s, !.kind = "status", !.target = deployment[d].target, !.d = d,
      !.status = deployment[d].status, !.restores = Activates(c, d),
      !.todo = IF Activates(c, d) THEN <<>> ELSE <<<<d, c.as>>>>,
      !.undo = <<<<d, deployment[d].status>>>>]

LEMMA ArriveStatusTypes ==
    ASSUME ProcsOK, DeploymentTypes, HistoryTypes, AgentTypes, NEW r \in Requests, At(r, "idle"),
           NEW c \in workload, ArriveStatus(r, c)
    PROVE  /\ Typed(r) /\ Arrives(r) /\ proc'[r].kind = "status"
           /\ proc'[r].before = Statuses
           /\ \/ proc'[r].pc = "refused"
              \/ proc'[r].pc = "List" /\ Chosen(proc'[r]) /\ proc'[r].restores
              \/ /\ proc'[r].pc = "Write" /\ Chosen(proc'[r]) /\ ~proc'[r].restores
                 /\ \E s \in Settable : proc'[r].todo = <<<<proc'[r].d, s>>>>
<1>0. c.kind = "status" /\ \E d \in c.on : Begin(r, StatusLocal(r, c, d,
        IF ~Valid(d) THEN "refused" ELSE IF Activates(c, d) THEN "List" ELSE "Write"))
    BY Zenon DEF ArriveStatus, StatusLocal, Activates
<1>1. c.kind = "status"
    BY <1>0
<1>2. c.on \subseteq Deployments /\ c.as \in Settable
    BY <1>1, CallIs DEF Fitting
<1>3. PICK d \in c.on : Begin(r, StatusLocal(r, c, d,
        IF ~Valid(d) THEN "refused" ELSE IF Activates(c, d) THEN "List" ELSE "Write"))
    BY <1>0
<1>. DEFINE s == IF ~Valid(d) THEN "refused" ELSE IF Activates(c, d) THEN "List" ELSE "Write"
            l == StatusLocal(r, c, d, s)
<1>4. /\ d \in Deployments /\ deployment[d].target \in Mailboxes \union {None}
      /\ deployment[d].status \in DeploymentStatus /\ c.as \in DeploymentStatus
      /\ Valid(d) => deployment[d].target \in Mailboxes
      /\ Activates(c, d) \in BOOLEAN
    BY <1>2, <1>3, NamesAre DEF DeploymentTypes, RowType, Named, Valid, Settable, Activates
<1>5. /\ l.pc = s
      /\ l.kind = "status" /\ l.target = deployment[d].target /\ l.d = d
      /\ l.status = deployment[d].status /\ l.fallback = FALSE /\ l.restores = Activates(c, d)
      /\ l.todo = IF Activates(c, d) THEN <<>> ELSE <<<<d, c.as>>>>
    BY DEF StatusLocal, IdleProc
<1>6. l \in ProcType
    <2>1. s \in Pcs
        BY IdleTyped
    <2>. HIDE DEF s
    <2>. DEFINE x == [IdleProc EXCEPT !.pc = s, !.kind = "status",
            !.target = deployment[d].target, !.d = d]
    <2>2. x \in ProcType
        BY <1>4, <2>1, IdleTyped DEF IdleProc, ProcType
    <2>3. l = [x EXCEPT !.status = deployment[d].status, !.restores = Activates(c, d),
            !.todo = IF Activates(c, d) THEN <<>> ELSE <<<<d, c.as>>>>,
            !.undo = <<<<d, deployment[d].status>>>>]
        BY DEF StatusLocal
    <2>4. /\ (IF Activates(c, d) THEN <<>> ELSE <<<<d, c.as>>>>) \in Writes
          /\ <<<<d, deployment[d].status>>>> \in Writes
        BY <1>4, IdleTyped
    <2>. DEFINE td == IF Activates(c, d) THEN <<>> ELSE <<<<d, c.as>>>>
                ud == <<<<d, deployment[d].status>>>>
                st == deployment[d].status
                y == [x EXCEPT !.status = st, !.restores = Activates(c, d)]
    <2>. HIDE DEF x, l
    <2>5. y \in ProcType
        BY <1>4, <2>2 DEF ProcType
    <2>6. l = [y EXCEPT !.todo = td, !.undo = ud]
        BY <2>3
    <2>7. td \in Writes /\ ud \in Writes
        BY <2>4
    <2>. HIDE DEF td, ud, st, y
    <2>8. [y EXCEPT !.todo = td, !.undo = ud] \in ProcType
        BY <2>5, <2>7 DEF ProcType
    <2>. QED
        BY <2>6, <2>8
<1>. HIDE DEF l
<1>7. Locals(r, l)
    BY <1>4, <1>5 DEF Locals, DeployLocals, BindLocals, ResolveLocals, AgentLocals, Base, Makes,
           Creations, CreateSteps, SwitchSteps, BindingSteps, RoleSteps, ServedSteps, AccessSteps,
           NewAgentSteps, UpdateSteps, VersionSteps
<1>8. Typed(r) /\ Arrives(r) /\ Same(l, proc'[r]) /\ proc'[r].pc = l.pc
      /\ proc'[r].before = Statuses
    BY <1>3, <1>5, <1>6, <1>7, BeginTypes DEF l
<1>. QED
    BY <1>2, <1>3, <1>4, <1>5, <1>8 DEF Same, Chosen

BindLocal(r, c, a, m, s) ==
    [IdleProc EXCEPT !.pc = s, !.kind = "bind", !.agent = a, !.target = m, !.status = c.as]

LEMMA ArriveBindTypes ==
    ASSUME ProcsOK, DeploymentTypes, HistoryTypes, AgentTypes, NEW r \in Requests, At(r, "idle"),
           NEW c \in workload, ArriveBind(r, c)
    PROVE  /\ Typed(r) /\ Arrives(r) /\ proc'[r].kind = "bind"
           /\ proc'[r].pc \in {"refused", "Bind"}
<1>0. c.kind = "bind" /\ \E a \in c.on, m \in c.at : Begin(r, BindLocal(r, c, a, m,
        IF agent[a].status = "active" /\ m \in mailbox THEN "Bind" ELSE "refused"))
    BY Zenon DEF ArriveBind, BindLocal
<1>1. c.kind = "bind"
    BY <1>0
<1>2. c.on \subseteq AllAgents /\ c.at \subseteq Mailboxes /\ c.as \in Roles
    BY <1>1, CallIs DEF Fitting
<1>3. PICK a \in c.on, m \in c.at : Begin(r, BindLocal(r, c, a, m,
        IF agent[a].status = "active" /\ m \in mailbox THEN "Bind" ELSE "refused"))
    BY <1>0
<1>. DEFINE s == IF agent[a].status = "active" /\ m \in mailbox THEN "Bind" ELSE "refused"
            l == BindLocal(r, c, a, m, s)
<1>4. a \in AllAgents /\ m \in Mailboxes /\ c.as \in Roles
    BY <1>2, <1>3, NamesAre DEF AgentTypes
<1>5. /\ l.pc = s
      /\ l.kind = "bind" /\ l.agent = a /\ l.target = m /\ l.status = c.as
      /\ l.fallback = FALSE
    BY DEF BindLocal, IdleProc
<1>6. l \in ProcType
    <2>1. s \in Pcs
        BY IdleTyped
    <2>. HIDE DEF s
    <2>. QED
        BY <1>4, <2>1, IdleTyped DEF BindLocal, IdleProc, ProcType
<1>. HIDE DEF l
<1>7. Locals(r, l)
    BY <1>4, <1>5 DEF Locals, DeployLocals, BindLocals, ResolveLocals, AgentLocals, Base, Makes,
           Creations, CreateSteps, SwitchSteps, BindingSteps, RoleSteps, ServedSteps, AccessSteps,
           NewAgentSteps, UpdateSteps, VersionSteps
<1>8. Typed(r) /\ Arrives(r) /\ Same(l, proc'[r]) /\ proc'[r].pc = l.pc
    BY <1>3, <1>5, <1>6, <1>7, BeginTypes DEF l
<1>. QED
    BY <1>3, <1>4, <1>5, <1>8 DEF Same

BoundTo(m, use) == {b \in AllAgents : HasRole(b, m, use)}
BarredFrom(m, use) == {b \in AllAgents : HasBinding(b, m) /\ ~HasRole(b, m, use)}
ResolveLocal(r, c, a, m, s) ==
    [IdleProc EXCEPT !.pc = s, !.kind = "resolve", !.agent = a, !.target = m, !.use = c.as,
      !.bound = BoundTo(m, c.as), !.barred = BarredFrom(m, c.as)]

LEMMA ArriveResolveTypes ==
    ASSUME ProcsOK, DeploymentTypes, HistoryTypes, AgentTypes, NEW r \in Requests, At(r, "idle"),
           NEW c \in workload, ArriveResolve(r, c)
    PROVE  /\ Typed(r) /\ Arrives(r) /\ proc'[r].kind = "resolve"
           /\ \/ proc'[r].pc = "unresolved" /\ proc'[r].target \notin mailbox
              \/ proc'[r].pc = "RequestedRole"
              \/ proc'[r].pc = "ListServing" /\ proc'[r].agent = None
           /\ proc'[r].bound = BoundTo(proc'[r].target, proc'[r].use)
           /\ proc'[r].barred = BarredFrom(proc'[r].target, proc'[r].use)
           /\ ~proc'[r].config /\ ~proc'[r].fallback
<1>0. c.kind = "resolve" /\ \E a \in c.on, m \in c.at : Begin(r, ResolveLocal(r, c, a, m,
        IF m \notin mailbox THEN "unresolved"
             ELSE IF a = None THEN "ListServing" ELSE "RequestedRole"))
    BY Zenon DEF ArriveResolve, ResolveLocal, BoundTo, BarredFrom
<1>1. c.kind = "resolve"
    BY <1>0
<1>2. c.on \subseteq AllAgents \union {None} /\ c.at \subseteq Mailboxes
        /\ c.as \in DOMAIN CapableRoles
    BY <1>1, CallIs DEF Fitting
<1>3. PICK a \in c.on, m \in c.at : Begin(r, ResolveLocal(r, c, a, m,
        IF m \notin mailbox THEN "unresolved"
             ELSE IF a = None THEN "ListServing" ELSE "RequestedRole"))
    BY <1>0
<1>. DEFINE s == IF m \notin mailbox THEN "unresolved"
             ELSE IF a = None THEN "ListServing" ELSE "RequestedRole"
            l == ResolveLocal(r, c, a, m, s)
<1>4. /\ a \in AllAgents \union {None} /\ m \in Mailboxes
      /\ c.as \in DOMAIN CapableRoles
      /\ BoundTo(m, c.as) \subseteq AllAgents /\ BarredFrom(m, c.as) \subseteq AllAgents
    BY <1>2, <1>3, NamesAre DEF BoundTo, BarredFrom
<1>5. /\ l.pc = s
      /\ l.kind = "resolve" /\ l.agent = a /\ l.target = m /\ l.use = c.as
      /\ l.bound = BoundTo(m, c.as) /\ l.barred = BarredFrom(m, c.as)
      /\ l.fallback = FALSE /\ l.config = FALSE
    BY DEF ResolveLocal, IdleProc
<1>6. l \in ProcType
    <2>1. s \in Pcs
        BY IdleTyped
    <2>. HIDE DEF s
    <2>. DEFINE x == [IdleProc EXCEPT !.pc = s, !.kind = "resolve", !.agent = a, !.target = m]
    <2>2. x \in ProcType
        BY <1>4, <2>1, IdleTyped DEF IdleProc, ProcType
    <2>3. l = [x EXCEPT !.use = c.as, !.bound = BoundTo(m, c.as), !.barred = BarredFrom(m, c.as)]
        BY DEF ResolveLocal
    <2>. HIDE DEF x, l
    <2>. QED
        BY <1>4, <2>2, <2>3, IdleTyped DEF ProcType
<1>. HIDE DEF l
<1>7. Locals(r, l)
    BY <1>4, <1>5 DEF Locals, DeployLocals, BindLocals, ResolveLocals, AgentLocals, Base, Makes,
           Creations, CreateSteps, SwitchSteps, BindingSteps, RoleSteps, ServedSteps, AccessSteps,
           NewAgentSteps, UpdateSteps, VersionSteps
<1>8. Typed(r) /\ Arrives(r) /\ Same(l, proc'[r]) /\ proc'[r].pc = l.pc
    BY <1>3, <1>5, <1>6, <1>7, BeginTypes DEF l
<1>. QED
    BY <1>3, <1>4, <1>5, <1>8 DEF Same

AccessLocal(r, c, a, m, s) ==
    [IdleProc EXCEPT !.pc = s, !.kind = "access", !.agent = a, !.target = m, !.use = c.as,
      !.bound = BoundTo(m, c.as), !.barred = BarredFrom(m, c.as)]

LEMMA ArriveAccessTypes ==
    ASSUME ProcsOK, DeploymentTypes, HistoryTypes, AgentTypes, NEW r \in Requests, At(r, "idle"),
           NEW c \in workload, ArriveAccess(r, c)
    PROVE  /\ Typed(r) /\ Arrives(r) /\ proc'[r].kind = "access"
           /\ proc'[r].pc \in {"refused", "AccessRole"}
           /\ proc'[r].bound = BoundTo(proc'[r].target, proc'[r].use)
           /\ proc'[r].barred = BarredFrom(proc'[r].target, proc'[r].use)
           /\ ~proc'[r].config /\ ~proc'[r].fallback
<1>0. c.kind = "access" /\ \E a \in c.on, m \in c.at : Begin(r, AccessLocal(r, c, a, m,
        IF agent[a].status = "active" /\ m \in mailbox THEN "AccessRole" ELSE "refused"))
    BY Zenon DEF ArriveAccess, AccessLocal, BoundTo, BarredFrom
<1>1. c.kind = "access"
    BY <1>0
<1>2. c.on \subseteq AllAgents /\ c.at \subseteq Mailboxes /\ c.as \in DOMAIN CapableRoles
    BY <1>1, CallIs DEF Fitting
<1>3. PICK a \in c.on, m \in c.at : Begin(r, AccessLocal(r, c, a, m,
        IF agent[a].status = "active" /\ m \in mailbox THEN "AccessRole" ELSE "refused"))
    BY <1>0
<1>. DEFINE s == IF agent[a].status = "active" /\ m \in mailbox THEN "AccessRole" ELSE "refused"
            l == AccessLocal(r, c, a, m, s)
<1>4. /\ a \in AllAgents /\ m \in Mailboxes
      /\ c.as \in DOMAIN CapableRoles
      /\ BoundTo(m, c.as) \subseteq AllAgents /\ BarredFrom(m, c.as) \subseteq AllAgents
    BY <1>2, <1>3, NamesAre DEF BoundTo, BarredFrom
<1>5. /\ l.pc = s
      /\ l.kind = "access" /\ l.agent = a /\ l.target = m /\ l.use = c.as
      /\ l.bound = BoundTo(m, c.as) /\ l.barred = BarredFrom(m, c.as)
      /\ l.fallback = FALSE /\ l.config = FALSE
    BY DEF AccessLocal, IdleProc
<1>6. l \in ProcType
    <2>1. s \in Pcs
        BY IdleTyped
    <2>. HIDE DEF s
    <2>. DEFINE x == [IdleProc EXCEPT !.pc = s, !.kind = "access", !.agent = a, !.target = m]
    <2>2. x \in ProcType
        BY <1>4, <2>1, IdleTyped DEF IdleProc, ProcType
    <2>3. l = [x EXCEPT !.use = c.as, !.bound = BoundTo(m, c.as), !.barred = BarredFrom(m, c.as)]
        BY DEF AccessLocal
    <2>. HIDE DEF x, l
    <2>. QED
        BY <1>4, <2>2, <2>3, IdleTyped DEF ProcType
<1>. HIDE DEF l
<1>7. Locals(r, l)
    BY <1>4, <1>5 DEF Locals, DeployLocals, BindLocals, ResolveLocals, AgentLocals, Base, Makes,
           Creations, CreateSteps, SwitchSteps, BindingSteps, RoleSteps, ServedSteps, AccessSteps,
           NewAgentSteps, UpdateSteps, VersionSteps
<1>8. Typed(r) /\ Arrives(r) /\ Same(l, proc'[r]) /\ proc'[r].pc = l.pc
    BY <1>3, <1>5, <1>6, <1>7, BeginTypes DEF l
<1>. QED
    BY <1>3, <1>4, <1>5, <1>8 DEF Same

UpdateLocal(r, c, a, v, s) ==
    [IdleProc EXCEPT !.pc = s, !.kind = "update", !.agent = a, !.version = v,
            !.config = c.as = "config",
      !.seen = agent[a].config]

LEMMA ArriveUpdateTypes ==
    ASSUME ProcsOK, DeploymentTypes, HistoryTypes, AgentTypes, NEW r \in Requests, At(r, "idle"),
           NEW c \in workload, ArriveUpdate(r, c)
    PROVE  /\ Typed(r) /\ Arrives(r) /\ proc'[r].kind = "update"
           /\ proc'[r].pc = IF proc'[r].config THEN "PutUpdate" ELSE "UpdateAgent"
           /\ proc'[r].agent \in AllAgents /\ agent[proc'[r].agent].status # "none"
           /\ proc'[r].seen = agent[proc'[r].agent].config
<1>0. c.kind = "update" /\ \E a \in c.on, v \in AllVersions \union {None} :
        agent[a].status # "none"
        /\ Begin(r, UpdateLocal(r, c, a, v,
              IF c.as = "config" THEN "PutUpdate" ELSE "UpdateAgent"))
    BY Zenon DEF ArriveUpdate, UpdateLocal
<1>1. c.kind = "update"
    BY <1>0
<1>2. c.on \subseteq AllAgents
    BY <1>1, CallIs DEF Fitting
<1>3. PICK a \in c.on, v \in AllVersions \union {None} : agent[a].status # "none"
        /\ Begin(r, UpdateLocal(r, c, a, v,
              IF c.as = "config" THEN "PutUpdate" ELSE "UpdateAgent"))
    BY <1>0
<1>. DEFINE s == IF c.as = "config" THEN "PutUpdate" ELSE "UpdateAgent"
            l == UpdateLocal(r, c, a, v, s)
<1>4. /\ a \in AllAgents /\ v \in AllVersions \union {None}
      /\ agent[a].status # "none" /\ agent[a].config \in Blobs
    BY <1>2, <1>3, NamesAre DEF AgentTypes
<1>5. /\ l.pc = s
      /\ l.kind = "update" /\ l.agent = a /\ l.version = v /\ l.config = (c.as = "config")
      /\ l.seen = agent[a].config /\ l.fallback = FALSE
    BY DEF UpdateLocal, IdleProc
<1>6. l \in ProcType
    <2>1. s \in Pcs
        BY IdleTyped
    <2>. HIDE DEF s
    <2>. QED
        BY <1>4, <2>1, IdleTyped DEF UpdateLocal, IdleProc, ProcType
<1>. HIDE DEF l
<1>7. Locals(r, l)
    BY <1>4, <1>5 DEF Locals, DeployLocals, BindLocals, ResolveLocals, AgentLocals, Base, Makes,
           Creations, CreateSteps, SwitchSteps, BindingSteps, RoleSteps, ServedSteps, AccessSteps,
           NewAgentSteps, UpdateSteps, VersionSteps
<1>8. Typed(r) /\ Arrives(r) /\ Same(l, proc'[r]) /\ proc'[r].pc = l.pc
    BY <1>3, <1>5, <1>6, <1>7, BeginTypes DEF l
<1>. QED
    BY <1>3, <1>4, <1>5, <1>8 DEF Same

VersionLocal(r, c, a, s) ==
    [IdleProc EXCEPT !.pc = s, !.kind = "version", !.agent = a]

LEMMA ArriveVersionTypes ==
    ASSUME ProcsOK, DeploymentTypes, HistoryTypes, AgentTypes, NEW r \in Requests, At(r, "idle"),
           NEW c \in workload, ArriveVersion(r, c)
    PROVE  /\ Typed(r) /\ Arrives(r) /\ proc'[r].kind = "version"
           /\ proc'[r].pc = "PutConfig"
<1>0. c.kind = "version" /\ \E a \in c.on : Begin(r, VersionLocal(r, c, a, "PutConfig"))
    BY Zenon DEF ArriveVersion, VersionLocal
<1>1. c.kind = "version"
    BY <1>0
<1>2. c.on \subseteq AllAgents
    BY <1>1, CallIs DEF Fitting
<1>3. PICK a \in c.on : Begin(r, VersionLocal(r, c, a, "PutConfig"))
    BY <1>0
<1>. DEFINE s == "PutConfig"
            l == VersionLocal(r, c, a, s)
<1>4. a \in AllAgents
    BY <1>2, <1>3, NamesAre DEF AgentTypes
<1>5. /\ l.pc = s /\ l.kind = "version" /\ l.agent = a /\ l.fallback = FALSE
    BY DEF VersionLocal, IdleProc
<1>6. l \in ProcType
    <2>1. s \in Pcs
        BY IdleTyped
    <2>. HIDE DEF s
    <2>. QED
        BY <1>4, <2>1, IdleTyped DEF VersionLocal, IdleProc, ProcType
<1>. HIDE DEF l
<1>7. Locals(r, l)
    BY <1>4, <1>5 DEF Locals, DeployLocals, BindLocals, ResolveLocals, AgentLocals, Base, Makes,
           Creations, CreateSteps, SwitchSteps, BindingSteps, RoleSteps, ServedSteps, AccessSteps,
           NewAgentSteps, UpdateSteps, VersionSteps
<1>8. Typed(r) /\ Arrives(r) /\ Same(l, proc'[r]) /\ proc'[r].pc = l.pc
    BY <1>3, <1>5, <1>6, <1>7, BeginTypes DEF l
<1>. QED
    BY <1>3, <1>4, <1>5, <1>8 DEF Same

AgentLocal == [IdleProc EXCEPT !.pc = "PutAgent", !.kind = "agent"]
DropLocal == [IdleProc EXCEPT !.pc = "done"]

LEMMA ArriveAgentTypes ==
    ASSUME ProcsOK, DeploymentTypes, NEW r \in Requests, At(r, "idle"), NEW c, ArriveAgent(r, c)
    PROVE  Typed(r) /\ Arrives(r) /\ proc'[r].kind = "agent" /\ proc'[r].pc = "PutAgent"
<1>. DEFINE l == AgentLocal
<1>1. Begin(r, l)
    BY Zenon DEF ArriveAgent, AgentLocal
<1>2. l.pc = "PutAgent" /\ l.kind = "agent" /\ l.fallback = FALSE
    BY DEF AgentLocal, IdleProc
<1>3. l \in ProcType
    BY IdleTyped DEF AgentLocal, IdleProc, ProcType
<1>. HIDE DEF l
<1>4. Locals(r, l)
    BY <1>2 DEF Locals, DeployLocals, BindLocals, ResolveLocals, AgentLocals, Base, Makes,
           Creations, CreateSteps, SwitchSteps, BindingSteps, RoleSteps, ServedSteps, AccessSteps,
           NewAgentSteps, UpdateSteps, VersionSteps
<1>. QED
    BY <1>1, <1>2, <1>3, <1>4, BeginTypes DEF Same

LEMMA DropTypes ==
    ASSUME ProcsOK, DeploymentTypes, NEW r \in Requests, At(r, "idle"), NEW c, Drop(r, c)
    PROVE  /\ Typed(r) /\ Arrives(r) /\ proc'[r].kind = "drop" /\ proc'[r].pc = "done"
           /\ \/ mailbox' = mailbox
              \/ \E m : Unreferenced(m) /\ mailbox' = mailbox \ {m}
<1>. DEFINE l == DropLocal
<1>1. /\ Begin(r, l)
      /\ \E m : mailbox' = IF Unreferenced(m) THEN mailbox \ {m} ELSE mailbox
    BY Zenon DEF Drop, DropLocal
<1>2. l.pc = "done" /\ l.kind = "drop" /\ l.fallback = FALSE
    BY DEF DropLocal, IdleProc
<1>3. l \in ProcType
    BY IdleTyped DEF DropLocal, IdleProc, ProcType
<1>. HIDE DEF l
<1>4. Locals(r, l)
    BY <1>2 DEF Locals, DeployLocals, BindLocals, ResolveLocals, AgentLocals, Base, Makes,
           Creations, CreateSteps, SwitchSteps, BindingSteps, RoleSteps, ServedSteps, AccessSteps,
           NewAgentSteps, UpdateSteps, VersionSteps
<1>. QED
    BY <1>1, <1>2, <1>3, <1>4, BeginTypes DEF Same

-----------------------------------------------------------------------------
(* Every step, by its kind.                                                *)

TargetMove(r) == TargetStep(r) \/ TargetFailure(r)
AgentMove(r) == AgentStep(r) \/ AgentFailure(r)
Move(r) == TargetMove(r) \/ AgentMove(r) \/ Crash(r)

LEMMA NextIs ==
    ASSUME Next
    PROVE  \E r \in Requests : Arrive(r) \/ Move(r)
BY DEF Next, Step, Move, TargetMove, AgentMove

LEMMA GoesBase ==
    ASSUME NEW r \in Requests, Proceeds(r), NEW s, Goes(r, s)
    PROVE  Base(proc[r], proc'[r])
BY DEF Proceeds, Goes, Same, Base, Alike

LEMMA TargetStepTypes ==
    ASSUME ProcsOK, DeploymentTypes, NEW r \in Requests, TargetStep(r)
    PROVE  Proceeds(r) /\ Base(proc[r], proc'[r])
<1>1. CASE List(r) \/ Insert(r) \/ ListTaken(r) \/ Sweep(r) \/ SweepRow(r) \/ Reinsert(r)
    BY <1>1, ListTypes, InsertTypes, ListTakenTypes, SweepTypes, SweepRowTypes, ReinsertTypes,
       GoesBase
<1>2. CASE Check(r) \/ Discard(r) \/ Withdraw(r) \/ Write(r) \/ Restore(r) \/ ReadBack(r)
    BY <1>2, CheckTypes, DeleteTypes, WriteTypes, RestoreTypes, ReadBackTypes, GoesBase
<1>3. CASE Bind(r) \/ BindTaken(r) \/ BindCheck(r) \/ Unbind(r)
    BY <1>3, BindTypes, BindTakenTypes, BindCheckTypes, UnbindTypes, GoesBase
<1>4. CASE RequestedRole(r) \/ RequestedAny(r) \/ ListServing(r) \/ MatchRole(r) \/ MatchAny(r)
             \/ FallbackBindings(r) \/ LastFallback(r)
    BY <1>4, RequestedRoleTypes, RequestedAnyTypes, ListServingTypes, MatchRoleTypes, MatchAnyTypes,
       FallbackBindingsTypes, LastFallbackTypes, GoesBase DEF Resolves
<1>5. CASE AccessRole(r) \/ AccessAny(r) \/ AccessDeployed(r)
    BY <1>5, AccessRoleTypes, AccessAnyTypes, AccessDeployedTypes, GoesBase
<1>. QED
    BY <1>1, <1>2, <1>3, <1>4, <1>5 DEF TargetStep

LEMMA AgentMoveTypes ==
    ASSUME ProcsOK, NEW r \in Requests, AgentMove(r)
    PROVE  Proceeds(r) /\ Base(proc[r], proc'[r])
<1>1. CASE AgentStep(r)
    BY <1>1, AgentStepTypes, GoesBase DEF AgentStep
<1>2. CASE FailAgentWrite(r) \/ FailAgentRead(r) \/ FailAgentUndo(r)
    BY <1>2, FailAgentWriteTypes, FailTypes, FailAgentUndoTypes, GoesBase
<1>. QED
    BY <1>1, <1>2 DEF AgentMove, AgentFailure

LEMMA MoveTypes ==
    ASSUME ProcsOK, DeploymentTypes, NEW r \in Requests, Move(r)
    PROVE  Proceeds(r) /\ Base(proc[r], proc'[r])
<1>1. CASE TargetStep(r) \/ AgentMove(r)
    BY <1>1, TargetStepTypes, AgentMoveTypes
<1>2. CASE FailWrite(r) \/ FailRead(r) \/ FailUndo(r) \/ Crash(r)
    BY <1>2, FailWriteTypes, FailTypes, CrashTypes, GoesBase
<1>. QED
    BY <1>1, <1>2 DEF Move, TargetMove, TargetFailure

LEMMA ArriveTypes ==
    ASSUME TypeInv, NEW r \in Requests, Arrive(r)
    PROVE  Typed(r) /\ Arrives(r)
<1>1. ProcsOK /\ DeploymentTypes /\ HistoryTypes /\ AgentTypes /\ At(r, "idle")
    BY DEF TypeInv, ProcsOK, Arrive
<1>2. PICK c \in workload : ArriveOnTarget(r, c) \/ Drop(r, c) \/ ArriveForAgent(r, c)
    BY DEF Arrive
<1>3. CASE ArriveOnTarget(r, c)
    BY <1>1, <1>3, ArriveDeployTypes, ArriveRolloutTypes, ArriveRollbackTypes, ArriveStatusTypes,
       ArriveBindTypes, ArriveResolveTypes, ArriveAccessTypes DEF ArriveOnTarget
<1>4. CASE ArriveForAgent(r, c)
    BY <1>1, <1>4, ArriveAgentTypes, ArriveUpdateTypes, ArriveVersionTypes DEF ArriveForAgent
<1>5. CASE Drop(r, c)
    BY <1>1, <1>5, DropTypes
<1>. QED
    BY <1>2, <1>3, <1>4, <1>5

(* What a request of a kind may do.                                        *)
AgentKinds == {"agent", "update", "version"}

LEMMA TargetAt ==
    ASSUME NEW r, TargetMove(r)
    PROVE  proc[r].pc \in CreateSteps \union SwitchSteps \union BindingSteps \union RoleSteps
                            \union ServedSteps \union AccessSteps
<1>1. CASE TargetFailure(r)
    BY <1>1 DEF TargetFailure, FailWrite, FailRead, FailUndo, At, CreateSteps, SwitchSteps,
                BindingSteps, RoleSteps, ServedSteps, AccessSteps, ResolveSteps
<1>2. CASE TargetStep(r)
    <2>1. CASE ListServing(r)
        BY <2>1, Zenon DEF ListServing, At, ServedSteps
    <2>2. CASE ~ListServing(r)
        BY <1>2, <2>2
           DEF TargetStep, List, Insert, ListTaken, Sweep, SweepRow, Reinsert, Check, Discard,
               Withdraw, Delete, Write, Restore, ReadBack, Bind, BindTaken, BindCheck, Unbind,
               RequestedRole, RequestedAny, MatchRole, MatchAny, FallbackBindings, LastFallback,
               AccessRole, AccessAny, AccessDeployed, At, CreateSteps, SwitchSteps, BindingSteps,
               RoleSteps, ServedSteps, AccessSteps
    <2>. QED
        BY <2>1, <2>2
<1>. QED
    BY <1>1, <1>2 DEF TargetMove

LEMMA AgentAt ==
    ASSUME NEW r, AgentMove(r)
    PROVE  proc[r].pc \in NewAgentSteps \union UpdateSteps \union VersionSteps
BY DEF AgentMove, AgentStep, AgentFailure, FailAgentWrite, FailAgentRead, FailAgentUndo,
       NextAfterThrow, NextAfterUndo, PutAgent, InsertAgent, ReadAgent, PutUpdate, UpdateAgent,
       ReadUpdated, DropOld, DropAgentBlob, DropNew, DropBlob, PutConfig, PutManifest,
       InsertVersion, InsertParts, ReadVersion, UndoParts, UndoVersion, UndoConfig, UndoManifest,
       At, NewAgentSteps, UpdateSteps, VersionSteps

LEMMA TargetKinds ==
    ASSUME ProcsOK, NEW r \in Requests, TargetMove(r)
    PROVE  proc[r].kind \notin AgentKinds
BY TargetAt DEF ProcsOK, Locals, DeployLocals, BindLocals, ResolveLocals, AgentKinds, Creations

LEMMA MoveKinds ==
    ASSUME ProcsOK, NEW r \in Requests, AgentMove(r)
    PROVE  /\ proc[r].kind \in AgentKinds
           /\ proc[r].pc \in NewAgentSteps => proc[r].kind = "agent"
           /\ proc[r].pc \in UpdateSteps => proc[r].kind = "update"
           /\ proc[r].pc \in VersionSteps => proc[r].kind = "version"
BY AgentAt DEF ProcsOK, Locals, AgentLocals, AgentKinds

(* What it leaves alone.                                                   *)
LEMMA TargetFrame ==
    ASSUME NEW r, TargetMove(r)
    PROVE  UNCHANGED agentVars /\ mailbox' = mailbox /\ workload' = workload
<1>1. CASE ListServing(r)
    BY <1>1, Zenon DEF ListServing, targetVars, historyVars
<1>2. CASE TargetStep(r) /\ ~ListServing(r)
    BY <1>2
       DEF TargetStep, List, Insert, ListTaken, Sweep, SweepRow, Reinsert, Check, Discard,
           Withdraw, Delete, Write, Restore, ReadBack, Bind, BindTaken, BindCheck, Unbind,
           RequestedRole, RequestedAny, MatchRole, MatchAny, FallbackBindings, LastFallback,
           AccessRole, AccessAny, AccessDeployed, targetVars, historyVars
<1>3. CASE TargetFailure(r)
    BY <1>3 DEF TargetFailure, FailWrite, FailRead, FailUndo, Record, targetVars
<1>. QED
    BY <1>1, <1>2, <1>3 DEF TargetMove

LEMMA AgentFrame ==
    ASSUME NEW r, AgentMove(r) \/ Crash(r)
    PROVE  UNCHANGED targetVars /\ workload' = workload
BY DEF AgentMove, AgentStep, AgentFailure, FailAgentWrite, FailAgentRead, FailAgentUndo, Record,
       PutAgent, InsertAgent, ReadAgent, PutUpdate, UpdateAgent, Crash,
       ReadUpdated, DropOld, DropAgentBlob, DropNew, DropBlob, PutConfig, PutManifest,
       InsertVersion, InsertParts, ReadVersion, UndoParts, UndoVersion, UndoConfig, UndoManifest,
       historyVars

LEMMA ArriveFrame ==
    ASSUME NEW r, Arrive(r)
    PROVE  /\ UNCHANGED <<agentVars, binding, deployment, historyVars>>
           /\ (mailbox' = mailbox) \/ (\E m : Unreferenced(m) /\ mailbox' = mailbox \ {m})
<1>1. UNCHANGED historyVars
    BY DEF Arrive
<1>2. PICK c : ArriveOnTarget(r, c) \/ Drop(r, c) \/ ArriveForAgent(r, c)
    BY DEF Arrive
<1>3. CASE ArriveOnTarget(r, c) \/ ArriveForAgent(r, c)
    BY <1>1, <1>3 DEF ArriveOnTarget, ArriveForAgent, targetVars
<1>4. CASE Drop(r, c)
    <2>1. /\ UNCHANGED <<agentVars, binding, deployment>>
          /\ \E m : mailbox' = IF Unreferenced(m) THEN mailbox \ {m} ELSE mailbox
        BY <1>4, Zenon DEF Drop
    <2>. QED
        BY <1>1, <2>1
<1>. QED
    BY <1>2, <1>3, <1>4

-----------------------------------------------------------------------------
(* What a step does to each kind of row.                                   *)

LEMMA DeploymentsMove ==
    ASSUME ProcsOK, NEW r \in Requests, TargetMove(r)
    PROVE  \/ deployment' = deployment
           \/ /\ proc[r].pc \in {"Insert", "Reinsert"} /\ Goes(r, "Check") /\ CanInsert(r)
              /\ deployment' = [deployment EXCEPT ![r] = Row(r)]
           \/ \E d \in Deployments : deployment' = [deployment EXCEPT ![d] = NoDeployment]
           \/ \E d, s : Sets(d, s)
<1>1. CASE Insert(r) \/ SweepRow(r) \/ Reinsert(r)
    BY <1>1, InsertTypes, SweepRowTypes, ReinsertTypes DEF Insert, Reinsert, At
<1>2. CASE Discard(r) \/ Withdraw(r)
    BY <1>2, DeleteTypes, NamesAre
<1>3. CASE Write(r) \/ Restore(r) \/ FailWrite(r)
    BY <1>3, WriteTypes, RestoreTypes, FailWriteTypes
<1>4. CASE List(r) \/ ListTaken(r) \/ Sweep(r) \/ Check(r) \/ ReadBack(r)
    BY <1>4 DEF List, ListTaken, Sweep, Check, ReadBack, targetVars
<1>5. CASE Bind(r) \/ BindTaken(r) \/ BindCheck(r) \/ Unbind(r)
    BY <1>5 DEF Bind, BindTaken, BindCheck, Unbind, targetVars
<1>6. CASE ListServing(r)
    BY <1>6, Zenon DEF ListServing, targetVars
<1>7. CASE RequestedRole(r) \/ RequestedAny(r) \/ MatchRole(r) \/ MatchAny(r)
             \/ FallbackBindings(r) \/ LastFallback(r)
    BY <1>7 DEF RequestedRole, RequestedAny, MatchRole, MatchAny, FallbackBindings, LastFallback,
                targetVars
<1>8. CASE AccessRole(r) \/ AccessAny(r) \/ AccessDeployed(r) \/ FailRead(r) \/ FailUndo(r)
    BY <1>8 DEF AccessRole, AccessAny, AccessDeployed, FailRead, FailUndo, targetVars
<1>. QED
    BY <1>1, <1>2, <1>3, <1>4, <1>5, <1>6, <1>7, <1>8 DEF TargetMove, TargetStep, TargetFailure

LEMMA BindingsMove ==
    ASSUME NEW r \in Requests, TargetMove(r)
    PROVE  \/ binding' = binding
           \/ /\ proc[r].pc = "Bind" /\ binding[Slot(r)] = "none"
              /\ binding' = [binding EXCEPT ![Slot(r)] = proc[r].status]
           \/ /\ proc[r].pc = "Unbind"
              /\ binding' = [binding EXCEPT ![Slot(r)] = "none"]
<1>1. CASE Bind(r) \/ Unbind(r)
    BY <1>1 DEF Bind, Unbind, At
<1>2. CASE ListServing(r)
    BY <1>2, Zenon DEF ListServing, targetVars
<1>3. CASE FailWrite(r) \/ FailRead(r) \/ FailUndo(r)
    BY <1>3 DEF FailWrite, FailRead, FailUndo, targetVars
<1>4. CASE TargetStep(r) /\ ~Bind(r) /\ ~Unbind(r) /\ ~ListServing(r)
    BY <1>4
       DEF TargetStep, List, Insert, ListTaken, Sweep, SweepRow, Reinsert, Check, Discard,
           Withdraw, Delete, Write, Restore, ReadBack, BindTaken, BindCheck,
           RequestedRole, RequestedAny, MatchRole, MatchAny, FallbackBindings, LastFallback,
           AccessRole, AccessAny, AccessDeployed, targetVars
<1>. QED
    BY <1>1, <1>2, <1>3, <1>4 DEF TargetMove, TargetFailure

LEMMA AgentsMove ==
    ASSUME ProcsOK, NEW r \in Requests, AgentMove(r)
    PROVE  \/ agent' = agent
           \/ /\ InsertAgent(r) /\ Goes(r, "ReadAgent")
              /\ agent' = [agent EXCEPT ![r] = [status |-> "active", config |-> <<"config", r>>,
                                                default |-> None]]
           \/ /\ proc[r].pc = "UpdateAgent" /\ agent' = Updated(r)
              /\ UpdateAgent(r) \/ (FailAgentWrite(r) /\ "unclear" \in failed')
<1>1. CASE InsertAgent(r)
    BY <1>1, AgentStepTypes DEF InsertAgent, AgentStep
<1>2. CASE UpdateAgent(r)
    BY <1>2 DEF UpdateAgent, At
<1>3. CASE FailAgentWrite(r)
    BY <1>3 DEF FailAgentWrite, At, Record
<1>4. CASE FailAgentRead(r) \/ FailAgentUndo(r)
    BY <1>4 DEF FailAgentRead, FailAgentUndo, agentVars
<1>5. CASE AgentStep(r) /\ ~InsertAgent(r) /\ ~UpdateAgent(r)
    BY <1>5
       DEF AgentStep, PutAgent, ReadAgent, PutUpdate, ReadUpdated, DropOld, DropAgentBlob, DropNew,
           DropBlob, PutConfig, PutManifest, InsertVersion, InsertParts, ReadVersion, UndoParts,
           UndoVersion, UndoConfig, UndoManifest, agentVars
<1>. QED
    BY <1>1, <1>2, <1>3, <1>4, <1>5 DEF AgentMove, AgentFailure

LEMMA VersionsMove ==
    ASSUME ProcsOK, NEW r \in Requests, AgentMove(r)
    PROVE  \/ UNCHANGED <<version, parts>>
           \/ /\ InsertVersion(r) /\ Goes(r, "InsertParts")
              /\ version' = [version EXCEPT ![r] = proc[r].agent] /\ parts' = parts
           \/ /\ InsertParts(r)
              /\ version' = version /\ parts' = [parts EXCEPT ![r] = @ + 1]
           \/ /\ UndoParts(r) /\ Goes(r, "UndoVersion")
              /\ version' = version /\ parts' = [parts EXCEPT ![r] = 0]
           \/ /\ UndoVersion(r) /\ Goes(r, "UndoConfig")
              /\ version' = [version EXCEPT ![r] = None] /\ parts' = parts
<1>1. CASE InsertVersion(r) \/ InsertParts(r)
    BY <1>1, AgentStepTypes DEF InsertVersion, InsertParts, AgentStep
<1>2. CASE UndoParts(r) \/ UndoVersion(r)
    BY <1>2, AgentStepTypes DEF UndoParts, UndoVersion, AgentStep
<1>3. CASE FailAgentWrite(r) \/ FailAgentRead(r) \/ FailAgentUndo(r)
    BY <1>3 DEF FailAgentWrite, FailAgentRead, FailAgentUndo, agentVars
<1>4. CASE /\ AgentStep(r) /\ ~InsertVersion(r) /\ ~InsertParts(r)
           /\ ~UndoParts(r) /\ ~UndoVersion(r)
    BY <1>4
       DEF AgentStep, PutAgent, InsertAgent, ReadAgent, PutUpdate, UpdateAgent, ReadUpdated, DropOld,
           DropAgentBlob, DropNew, DropBlob, PutConfig, PutManifest, ReadVersion,
           UndoConfig, UndoManifest, agentVars
<1>. QED
    BY <1>1, <1>2, <1>3, <1>4 DEF AgentMove, AgentFailure

LEMMA BlobsMove ==
    ASSUME NEW r \in Requests, AgentMove(r)
    PROVE  \/ blobs' = blobs
           \/ /\ PutAgent(r) \/ PutUpdate(r) \/ PutConfig(r)
              /\ blobs' = blobs \union {<<"config", r>>}
           \/ PutManifest(r) /\ blobs' = blobs \union {<<"manifest", r>>}
           \/ DropOld(r) /\ blobs' = blobs \ {proc[r].seen}
           \/ /\ DropAgentBlob(r) \/ DropNew(r) \/ UndoConfig(r)
              /\ blobs' = blobs \ {<<"config", r>>}
           \/ UndoManifest(r) /\ blobs' = blobs \ {<<"manifest", r>>}
<1>1. CASE FailAgentWrite(r) \/ FailAgentRead(r) \/ FailAgentUndo(r)
    BY <1>1 DEF FailAgentWrite, FailAgentRead, FailAgentUndo, agentVars
<1>2. CASE AgentStep(r)
    BY <1>2
       DEF AgentStep, PutAgent, InsertAgent, ReadAgent, PutUpdate, UpdateAgent, ReadUpdated, DropOld,
           DropAgentBlob, DropNew, DropBlob, PutConfig, PutManifest, InsertVersion, InsertParts,
           ReadVersion, UndoParts, UndoVersion, UndoConfig, UndoManifest, agentVars
<1>. QED
    BY <1>1, <1>2 DEF AgentMove, AgentFailure

-----------------------------------------------------------------------------
(* Types are kept.                                                         *)

LEMMA StepTyped ==
    ASSUME TypeInv, NEW r \in Requests, Arrive(r) \/ Move(r)
    PROVE  /\ Typed(r) /\ ProcsOK'
           /\ Arrive(r) => Arrives(r)
           /\ Move(r) => Proceeds(r) /\ Base(proc[r], proc'[r])
<1>1. /\ Typed(r)
      /\ Arrive(r) => Arrives(r)
      /\ Move(r) => Proceeds(r) /\ Base(proc[r], proc'[r])
    BY ArriveTypes, MoveTypes DEF TypeInv, ProcsOK, Proceeds
<1>2. ASSUME NEW q \in Requests PROVE Locals(q, proc'[q])
    <2>1. CASE q = r
        BY <1>1, <2>1 DEF Typed
    <2>2. CASE q # r
        BY <1>1, <2>2, SameLocals DEF Typed, Still, TypeInv
    <2>. QED
        BY <2>1, <2>2
<1>. QED
    BY <1>1, <1>2 DEF ProcsOK, Typed

LEMMA BlobsAre ==
    \A x \in AllAgents \union AllVersions : <<"config", x>> \in Blobs /\ <<"manifest", x>> \in Blobs
BY DEF Blobs

LEMMA AgentTypesKept ==
    ASSUME TypeInv, NEW r \in Requests, AgentMove(r)
    PROVE  AgentTypes'
<1>. USE DEF TypeInv, AgentTypes
<1>1. ProcsOK /\ r \in AllAgents /\ r \in AllVersions
    BY NamesAre DEF ProcsOK
<1>2. /\ agent' \in [AllAgents -> AgentType]
      /\ \A a \in AllAgents : agent'[a].status # "none" => agent'[a].config \in Blobs
    <2>1. CASE agent' = [agent EXCEPT ![r] = [status |-> "active", config |-> <<"config", r>>,
                                              default |-> None]]
        <3>. DEFINE x == [status |-> "active", config |-> <<"config", r>>, default |-> None]
        <3>1. x \in AgentType /\ x.config \in Blobs
            BY <1>1, BlobsAre DEF AgentType
        <3>. HIDE DEF x
        <3>. QED
            BY <1>1, <2>1, <3>1 DEF x
    <2>2. CASE proc[r].pc = "UpdateAgent" /\ agent' = Updated(r)
        <3>. DEFINE a == proc[r].agent
                    b == IF proc[r].config THEN <<"config", r>> ELSE proc[r].seen
                    x == [agent[a] EXCEPT !.default = proc[r].version, !.config = b]
        <3>1. /\ a \in AllAgents /\ proc[r].seen \in Blobs
              /\ proc[r].version \in AllVersions \union {None}
            BY <1>1, <2>2 DEF ProcsOK, Locals, AgentLocals, UpdateSteps, ProcType
        <3>2. b \in Blobs
            BY <1>1, <3>1, BlobsAre
        <3>3. agent' = [agent EXCEPT ![a] = x]
            BY <2>2 DEF Updated
        <3>. HIDE DEF b
        <3>4. x \in AgentType /\ x.config = b
            <4>1. agent[a] \in AgentType
                BY <3>1
            <4>. QED
                BY <3>1, <3>2, <4>1 DEF AgentType
        <3>. HIDE DEF x
        <3>. QED
            BY <3>1, <3>2, <3>3, <3>4
    <2>. QED
        BY <1>1, <2>1, <2>2, AgentsMove
<1>3. version' \in [AllVersions -> AllAgents \union {None}]
    <2>1. InsertVersion(r) => proc[r].agent \in AllAgents
        BY <1>1 DEF InsertVersion, At, ProcsOK, Locals, AgentLocals, VersionSteps
    <2>. QED
        BY <1>1, <2>1, VersionsMove
<1>4. parts' \in [AllVersions -> 0..WholeVersion]
    <2>1. InsertParts(r) => parts[r] + 1 \in 0..WholeVersion
        BY <1>1 DEF InsertParts, At, VersionRows, WholeVersion
    <2>2. 0 \in 0..WholeVersion
        BY DEF WholeVersion
    <2>. QED
        BY <1>1, <2>1, <2>2, VersionsMove
<1>5. blobs' \subseteq Blobs
    <2>1. <<"config", r>> \in Blobs /\ <<"manifest", r>> \in Blobs /\ blobs \subseteq Blobs
        BY <1>1, BlobsAre
    <2>2. blobs' \subseteq blobs \union {<<"config", r>>, <<"manifest", r>>}
        BY BlobsMove
    <2>. QED
        BY <2>1, <2>2
<1>. QED
    BY <1>2, <1>3, <1>4, <1>5

LEMMA BindingTypesKept ==
    ASSUME TypeInv, NEW r \in Requests, Arrive(r) \/ Move(r)
    PROVE  BindingTypes'
<1>1. mailbox' \subseteq Mailboxes
    <2>1. mailbox' \subseteq mailbox
        BY ArriveFrame, TargetFrame, AgentFrame DEF Move, targetVars
    <2>. QED
        BY <2>1 DEF TypeInv, BindingTypes
<1>2. binding' \in [AllAgents \X Mailboxes -> Roles \union {"none"}]
    <2>1. CASE TargetMove(r)
        <3>1. proc[r].pc \in {"Bind", "Unbind"} =>
                Slot(r) \in AllAgents \X Mailboxes /\ proc[r].status \in Roles
            BY DEF Slot, TypeInv, Locals, BindLocals, BindingSteps
        <3>. QED
            BY <2>1, <3>1, BindingsMove DEF TypeInv, BindingTypes
    <2>2. CASE Arrive(r) \/ AgentMove(r) \/ Crash(r)
        BY <2>2, ArriveFrame, AgentFrame DEF TypeInv, BindingTypes, targetVars
    <2>. QED
        BY <2>1, <2>2 DEF Move
<1>. QED
    BY <1>1, <1>2 DEF BindingTypes

LEMMA RowIs ==
    ASSUME ProcsOK, NEW r \in Requests, proc[r].pc \in {"Insert", "Reinsert"}
    PROVE  Makes(r, proc[r]) /\ Row(r) \in RowType /\ Named(Row(r))
<1>1. Makes(r, proc[r])
    BY DEF ProcsOK, Locals, DeployLocals, CreateSteps
<1>. QED
    BY <1>1 DEF Makes, Row, RowType, Named

LEMMA DeploymentTypesKept ==
    ASSUME TypeInv, NEW r \in Requests, Arrive(r) \/ Move(r)
    PROVE  DeploymentTypes'
<1>. USE DEF DeploymentTypes
<1>1. DeploymentTypes /\ ProcsOK /\ r \in Deployments
    BY NamesAre DEF TypeInv, ProcsOK
<1>2. CASE TargetMove(r)
    <2>1. CASE proc[r].pc \in {"Insert", "Reinsert"}
                 /\ deployment' = [deployment EXCEPT ![r] = Row(r)]
        BY <1>1, <2>1, RowIs
    <2>2. ASSUME NEW d \in Deployments, deployment' = [deployment EXCEPT ![d] = NoDeployment]
          PROVE  DeploymentTypes'
        <3>1. NoDeployment \in RowType /\ NoDeployment.status = "none"
            BY DEF NoDeployment, RowType, DeploymentStatus
        <3>. QED
            BY <1>1, <2>2, <3>1
    <2>3. ASSUME NEW d, NEW s, Sets(d, s)
          PROVE  DeploymentTypes'
        <3>. DEFINE x == [deployment[d] EXCEPT !.status = s]
        <3>1. /\ d \in Deployments /\ s \in DeploymentStatus /\ deployment[d].status # "none"
              /\ deployment' = [deployment EXCEPT ![d] = x]
            BY <2>3 DEF Sets, CanSet, Valid, SetStatus
        <3>2. x \in RowType /\ Named(x)
            BY <1>1, <3>1 DEF RowType, Named
        <3>. HIDE DEF x
        <3>. QED
            BY <1>1, <3>1, <3>2
    <2>. QED
        BY <1>1, <1>2, <2>1, <2>2, <2>3, DeploymentsMove
<1>3. CASE Arrive(r) \/ AgentMove(r) \/ Crash(r)
    BY <1>1, <1>3, ArriveFrame, AgentFrame DEF targetVars
<1>. QED
    BY <1>2, <1>3 DEF Move

LEMMA FailureRecorded ==
    ASSUME NEW r \in Requests, Arrive(r) \/ Move(r)
    PROVE  \/ UNCHANGED <<failed, faults>>
           \/ \E k : MayFail(k) /\ failed' = failed \union {k} /\ faults' = faults + 1
<1>1. CASE FailWrite(r) \/ FailRead(r) \/ FailUndo(r)
    BY <1>1 DEF FailWrite, FailRead, FailUndo, Record
<1>2. CASE FailAgentWrite(r) \/ FailAgentRead(r) \/ FailAgentUndo(r) \/ Crash(r)
    BY <1>2 DEF FailAgentWrite, FailAgentRead, FailAgentUndo, Crash, Record
<1>3. CASE Arrive(r)
    BY <1>3, ArriveFrame DEF historyVars
<1>4. CASE AgentStep(r)
    BY <1>4
       DEF AgentStep, PutAgent, InsertAgent, ReadAgent, PutUpdate, UpdateAgent, ReadUpdated, DropOld,
           DropAgentBlob, DropNew, DropBlob, PutConfig, PutManifest, InsertVersion, InsertParts,
           ReadVersion, UndoParts, UndoVersion, UndoConfig, UndoManifest, historyVars
<1>5. CASE ListServing(r)
    BY <1>5, Zenon DEF ListServing, historyVars
<1>6. CASE TargetStep(r) /\ ~ListServing(r)
    BY <1>6
       DEF TargetStep, List, Insert, ListTaken, Sweep, SweepRow, Reinsert, Check, Discard,
           Withdraw, Delete, Write, Restore, ReadBack, Bind, BindTaken, BindCheck, Unbind,
           RequestedRole, RequestedAny, MatchRole, MatchAny, FallbackBindings, LastFallback,
           AccessRole, AccessAny, AccessDeployed, historyVars
<1>. QED
    BY <1>1, <1>2, <1>3, <1>4, <1>5, <1>6
       DEF Move, TargetMove, AgentMove, TargetFailure, AgentFailure

LEMMA HistoryTypesKept ==
    ASSUME TypeInv, NEW r \in Requests, Arrive(r) \/ Move(r)
    PROVE  HistoryTypes'
<1>1. workload' = workload
    BY ArriveFrame, TargetFrame, AgentFrame DEF Move, historyVars
<1>2. failed' \subseteq FaultKinds /\ faults' \in 0..MaxFaults
    BY FailureRecorded, RegistryAssumption DEF TypeInv, HistoryTypes, MayFail
<1>. QED
    BY <1>1, <1>2 DEF TypeInv, HistoryTypes

(* Where a request starts.                                                 *)
Starts(x) ==
    /\ x.kind \in Creations =>
         \/ x.pc = "refused"
         \/ /\ x.pc \in {"Insert", "List"}
            /\ x.version \in AllVersions /\ version[x.version] # None
    /\ x.kind = "bind" => x.pc \in {"refused", "Bind"}
    /\ x.kind = "resolve" =>
         \/ x.pc = "unresolved" /\ x.target \notin mailbox
         \/ x.pc = "RequestedRole"
         \/ x.pc = "ListServing" /\ x.agent = None
    /\ x.kind = "access" => x.pc \in {"refused", "AccessRole"}
    /\ x.kind \in {"resolve", "access"} =>
         /\ x.bound = BoundTo(x.target, x.use) /\ x.barred = BarredFrom(x.target, x.use)
         /\ ~x.config /\ ~x.fallback
    /\ x.kind = "agent" => x.pc = "PutAgent"
    /\ x.kind = "update" =>
         /\ x.pc = IF x.config THEN "PutUpdate" ELSE "UpdateAgent"
         /\ x.agent \in AllAgents /\ agent[x.agent].status # "none"
         /\ x.seen = agent[x.agent].config
    /\ x.kind = "version" => x.pc = "PutConfig"

LEMMA ArriveStarts ==
    ASSUME TypeInv, NEW r \in Requests, Arrive(r)
    PROVE  Starts(proc'[r]) /\ (mailbox' # mailbox => proc'[r].kind = "drop")
<1>1. ProcsOK /\ DeploymentTypes /\ HistoryTypes /\ AgentTypes /\ At(r, "idle")
    BY DEF TypeInv, ProcsOK, Arrive
<1>2. PICK c \in workload : ArriveOnTarget(r, c) \/ Drop(r, c) \/ ArriveForAgent(r, c)
    BY DEF Arrive
<1>3. ASSUME ArriveDeploy(r, c) \/ ArriveRollout(r, c) PROVE Starts(proc'[r])
    BY <1>1, <1>3, ArriveDeployTypes, ArriveRolloutTypes DEF Starts, Creations
<1>4. ASSUME ArriveRollback(r, c) \/ ArriveStatus(r, c) PROVE Starts(proc'[r])
    BY <1>1, <1>4, ArriveRollbackTypes, ArriveStatusTypes DEF Starts, Creations
<1>5. ASSUME ArriveBind(r, c) PROVE Starts(proc'[r])
    BY <1>1, <1>5, ArriveBindTypes DEF Starts, Creations
<1>6. ASSUME ArriveResolve(r, c) PROVE Starts(proc'[r])
    BY <1>1, <1>6, ArriveResolveTypes DEF Starts, Creations
<1>7. ASSUME ArriveAccess(r, c) PROVE Starts(proc'[r])
    BY <1>1, <1>7, ArriveAccessTypes DEF Starts, Creations
<1>8. ASSUME ArriveAgent(r, c) \/ ArriveVersion(r, c) PROVE Starts(proc'[r])
    BY <1>1, <1>8, ArriveAgentTypes, ArriveVersionTypes DEF Starts, Creations
<1>9. ASSUME ArriveUpdate(r, c) PROVE Starts(proc'[r])
    BY <1>1, <1>9, ArriveUpdateTypes DEF Starts, Creations
<1>10. ASSUME Drop(r, c) PROVE Starts(proc'[r]) /\ proc'[r].kind = "drop"
    BY <1>1, <1>10, DropTypes DEF Starts, Creations
<1>11. (ArriveOnTarget(r, c) \/ ArriveForAgent(r, c)) => mailbox' = mailbox
    BY DEF ArriveOnTarget, ArriveForAgent, targetVars
<1>. QED
    BY <1>2, <1>3, <1>4, <1>5, <1>6, <1>7, <1>8, <1>9, <1>10, <1>11
       DEF ArriveOnTarget, ArriveForAgent

(* A version that has its row does not become fresh again.                 *)
LEMMA FreshBefore ==
    ASSUME TypeInv, NEW r \in Requests, Arrive(r) \/ Move(r), NEW q \in Requests, Fresh(proc'[q])
    PROVE  Fresh(proc[q])
<1>1. ProcsOK /\ DeploymentTypes
    BY DEF TypeInv, ProcsOK
<1>2. CASE q # r
    BY <1>2, StepTyped DEF Typed, Still, Same, Fresh
<1>3. CASE q = r /\ Arrive(r)
    BY <1>1, <1>3, StepTyped DEF Arrives, ProcsOK, Locals, Fresh
<1>4. CASE q = r /\ Move(r) /\ ~Fresh(proc[r])
    <2>1. /\ proc[r].kind = "version" /\ proc'[r].kind = "version" /\ (AgentMove(r) \/ Crash(r))
          /\ proc[r].pc \notin {"PutConfig", "PutManifest", "InsertVersion"}
        BY <1>1, <1>4, StepTyped, TargetKinds DEF Fresh, Base, Move, AgentKinds
    <2>2. CASE Crash(r)
        BY <1>1, <1>4, <2>1, <2>2, CrashTypes DEF Fresh, Goes
    <2>3. CASE AgentStep(r)
        <3>1. \/ InsertParts(r) \/ ReadVersion(r) \/ UndoParts(r) \/ UndoVersion(r) \/ UndoConfig(r)
              \/ UndoManifest(r)
            BY <1>1, <2>1, <2>3, MoveKinds
               DEF AgentMove, AgentStep, PutAgent, InsertAgent, ReadAgent, PutUpdate, UpdateAgent,
                   ReadUpdated, DropOld, DropAgentBlob, DropNew, DropBlob, PutConfig, PutManifest,
                   InsertVersion, At, NewAgentSteps, UpdateSteps
        <3>. QED
            BY <1>1, <1>4, <2>1, <2>3, <3>1, AgentStepTypes DEF Fresh, Goes
    <2>4. CASE FailAgentWrite(r)
        BY <1>1, <1>4, <2>1, <2>4, FailAgentWriteTypes DEF Fresh, Goes
    <2>5. CASE FailAgentRead(r)
        BY <1>1, <1>4, <2>1, <2>5, FailTypes DEF Fresh, Goes
    <2>6. CASE FailAgentUndo(r)
        BY <1>1, <1>4, <2>1, <2>6, FailAgentUndoTypes DEF Fresh, Goes, FailAgentUndo, NextAfterUndo
    <2>. QED
        BY <2>1, <2>2, <2>3, <2>4, <2>5, <2>6 DEF AgentMove, AgentFailure
<1>. QED
    BY <1>2, <1>3, <1>4

(* Only its own request changes a version.                                 *)
LEMMA OthersVersions ==
    ASSUME TypeInv, NEW r \in Requests, Arrive(r) \/ Move(r), NEW v \in AllVersions, v # r
    PROVE  version'[v] = version[v] /\ parts'[v] = parts[v]
<1>1. ProcsOK
    BY DEF TypeInv, ProcsOK
<1>2. /\ version \in [AllVersions -> AllAgents \union {None}]
      /\ parts \in [AllVersions -> 0..WholeVersion]
    BY DEF TypeInv, AgentTypes
<1>3. CASE AgentMove(r)
    BY <1>1, <1>2, <1>3, VersionsMove
<1>4. CASE Arrive(r) \/ TargetMove(r) \/ Crash(r)
    BY <1>4, ArriveFrame, TargetFrame DEF Crash, agentVars
<1>. QED
    BY <1>3, <1>4 DEF Move

LEMMA VersionRowsKept ==
    ASSUME TypeInv, NEW r \in Requests, Arrive(r) \/ Move(r)
    PROVE  VersionRows'
<1>1. ProcsOK /\ r \in AllVersions
    BY NamesAre DEF TypeInv, ProcsOK
<1>2. /\ version \in [AllVersions -> AllAgents \union {None}]
      /\ parts \in [AllVersions -> 0..WholeVersion]
    BY DEF TypeInv, AgentTypes
<1>3. ASSUME NEW q \in Requests, q # r
      PROVE  /\ Fresh(proc'[q]) => version'[q] = None /\ parts'[q] = 0
             /\ proc'[q].pc = "InsertParts" => parts'[q] < WholeVersion
    <2>1. version'[q] = version[q] /\ parts'[q] = parts[q]
        BY <1>3, OthersVersions, NamesAre
    <2>2. proc'[q].pc = proc[q].pc /\ (Fresh(proc'[q]) => Fresh(proc[q]))
        BY <1>3, StepTyped, FreshBefore DEF Typed, Still
    <2>. QED
        BY <2>1, <2>2 DEF TypeInv, VersionRows
<1>4. Fresh(proc'[r]) => version'[r] = None /\ parts'[r] = 0
    <2>. SUFFICES ASSUME Fresh(proc'[r]) PROVE version'[r] = None /\ parts'[r] = 0
        OBVIOUS
    <2>1. Fresh(proc[r]) /\ version[r] = None /\ parts[r] = 0
        BY FreshBefore DEF TypeInv, VersionRows
    <2>2. CASE UNCHANGED <<version, parts>>
        BY <2>1, <2>2
    <2>3. CASE AgentMove(r) /\ ~UNCHANGED <<version, parts>>
        <3>1. InsertVersion(r) \/ InsertParts(r) \/ UndoParts(r) \/ UndoVersion(r)
            BY <1>1, <2>3, VersionsMove
        <3>2. InsertVersion(r) /\ Goes(r, "InsertParts")
            BY <1>1, <2>1, <2>3, <3>1, VersionsMove, MoveKinds
               DEF Fresh, InsertVersion, InsertParts, UndoParts, UndoVersion, At, VersionSteps
        <3>3. proc[r].kind = "version"
            BY <1>1, <2>3, <3>2, MoveKinds DEF InsertVersion, At, VersionSteps
        <3>. QED
            BY <3>2, <3>3 DEF Fresh, Goes, Same
    <2>. QED
        BY <2>2, <2>3, ArriveFrame, TargetFrame DEF Move, Crash, agentVars
<1>5. proc'[r].pc = "InsertParts" => parts'[r] < WholeVersion
    <2>. SUFFICES ASSUME proc'[r].pc = "InsertParts" PROVE parts'[r] < WholeVersion
        OBVIOUS
    <2>1. ProcsOK' /\ proc'[r].kind = "version"
        BY StepTyped, NamesAre DEF ProcsOK, Locals, AgentLocals, VersionSteps
    <2>2. AgentMove(r)
        BY <1>1, <2>1, StepTyped, ArriveStarts, TargetKinds, CrashTypes
           DEF Starts, Move, Base, AgentKinds, Goes, TypeInv
    <2>3. InsertVersion(r) \/ InsertParts(r)
        <3>1. CASE AgentStep(r)
            BY <1>1, <3>1, AgentStepTypes DEF AgentStep, Goes
        <3>2. CASE FailAgentWrite(r) \/ FailAgentRead(r)
            BY <1>1, <3>2, FailAgentWriteTypes, FailTypes DEF Goes
        <3>3. CASE FailAgentUndo(r)
            BY <1>1, <3>3, FailAgentUndoTypes DEF Goes, FailAgentUndo, NextAfterUndo
        <3>. QED
            BY <2>2, <3>1, <3>2, <3>3 DEF AgentMove, AgentFailure
    <2>4. CASE InsertVersion(r)
        <3>1. Fresh(proc[r])
            BY <2>4 DEF InsertVersion, At, Fresh
        <3>. QED
            BY <2>4, <3>1 DEF InsertVersion, TypeInv, VersionRows, WholeVersion
    <2>5. CASE InsertParts(r)
        <3>1. parts[r] < WholeVersion /\ parts[r] \in 0..WholeVersion /\ parts'[r] = parts[r] + 1
            BY <1>1, <1>2, <2>5 DEF InsertParts, At, TypeInv, VersionRows
        <3>2. parts[r] + 1 # WholeVersion
            BY <1>1, <2>5, AgentStepTypes DEF AgentStep, Goes
        <3>. QED
            BY <3>1, <3>2 DEF WholeVersion
    <2>. QED
        BY <2>3, <2>4, <2>5
<1>. QED
    BY <1>1, <1>3, <1>4, <1>5 DEF VersionRows

LEMMA TypeInvKept ==
    ASSUME TypeInv, Next
    PROVE  TypeInv'
<1>1. PICK r \in Requests : Arrive(r) \/ Move(r)
    BY NextIs
<1>2. AgentTypes'
    <2>1. CASE AgentMove(r)
        BY <2>1, AgentTypesKept
    <2>2. CASE Arrive(r) \/ TargetMove(r) \/ Crash(r)
        BY <2>2, ArriveFrame, TargetFrame DEF Crash, agentVars, TypeInv, AgentTypes
    <2>. QED
        BY <1>1, <2>1, <2>2 DEF Move
<1>3. BindingTypes' /\ DeploymentTypes' /\ HistoryTypes'
    BY <1>1, BindingTypesKept, DeploymentTypesKept, HistoryTypesKept
<1>4. proc' \in [Requests -> ProcType] /\ \A q \in Requests : Locals(q, proc'[q])
    BY <1>1, StepTyped DEF ProcsOK
<1>5. VersionRows'
    BY <1>1, VersionRowsKept
<1>. QED
    BY <1>2, <1>3, <1>4, <1>5 DEF TypeInv

LEMMA InitTypes ==
    ASSUME Init
    PROVE  TypeInv
<1>. USE RegistryAssumption
<1>1. IdleProc \in ProcType /\ IdleProc.pc = "idle" /\ IdleProc.kind = "drop" /\ ~IdleProc.fallback
    BY IdleTyped DEF IdleProc, ProcType
<1>2. proc \in [Requests -> ProcType] /\ \A r \in Requests : proc[r] = IdleProc
    BY <1>1 DEF Init
<1>3. \A r \in Requests : Locals(r, proc[r])
    BY <1>1, <1>2 DEF Locals, DeployLocals, BindLocals, ResolveLocals, AgentLocals, Creations,
       CreateSteps, SwitchSteps, BindingSteps, RoleSteps, ServedSteps, AccessSteps, NewAgentSteps,
       UpdateSteps, VersionSteps
<1>4. AgentTypes
    <2>1. agent \in [AllAgents -> AgentType]
          /\ \A a \in AllAgents : agent[a].status # "none" => agent[a].config \in Blobs
        <3>1. NoAgent \in AgentType /\ NoAgent.status = "none"
            BY DEF NoAgent, AgentType
        <3>0. Agents \subseteq AllAgents
            BY DEF AllAgents
        <3>2. ASSUME NEW a \in Agents
              PROVE  [status |-> "active", config |-> <<"config", a>>, default |-> None] \in AgentType
            BY <3>0, BlobsAre DEF AgentType
        <3>3. ASSUME NEW a \in Agents PROVE <<"config", a>> \in Blobs
            BY <3>0, BlobsAre
        <3>. QED
            BY <3>1, <3>2, <3>3 DEF Init
    <2>2. version \in [AllVersions -> AllAgents \union {None}]
        BY DEF Init, AllAgents, AllVersions
    <2>3. parts \in [AllVersions -> 0..WholeVersion]
        BY DEF Init, WholeVersion
    <2>4. blobs \subseteq Blobs
        BY DEF Init, Blobs, AllAgents, AllVersions
    <2>. QED
        BY <2>1, <2>2, <2>3, <2>4 DEF AgentTypes
<1>5. BindingTypes
    <2>1. \A b \in AllAgents \X Mailboxes :
            (IF b[1] \in Agents THEN Bound[b] ELSE "none") \in Roles \union {"none"}
        OBVIOUS
    <2>. QED
        BY <2>1 DEF Init, BindingTypes
<1>6. DeploymentTypes
    <2>1. NoDeployment \in RowType /\ NoDeployment.status = "none"
        BY DEF NoDeployment, RowType, DeploymentStatus
    <2>2. \A d \in Deployed : Serves[d] \in RowType /\ Named(Serves[d])
        BY DEF RowType, Named, AllAgents, AllVersions, Settable
    <2>. QED
        BY <2>1, <2>2 DEF Init, DeploymentTypes
<1>7. HistoryTypes
    BY DEF Init, HistoryTypes
<1>8. VersionRows
    <2>1. ASSUME NEW r \in Requests PROVE version[r] = None /\ parts[r] = 0
        BY NamesAre DEF Init
    <2>. QED
        BY <1>1, <1>2, <2>1 DEF VersionRows
<1>. QED
    BY <1>2, <1>3, <1>4, <1>5, <1>6, <1>7, <1>8 DEF TypeInv

LEMMA TypesHold == Spec => []TypeInv
<1>1. Init => TypeInv
    BY InitTypes
<1>2. TypeInv /\ [Next]_vars => TypeInv'
    <2>. SUFFICES ASSUME TypeInv, [Next]_vars PROVE TypeInv'
        OBVIOUS
    <2>1. CASE Next
        BY <2>1, TypeInvKept
    <2>2. CASE UNCHANGED vars
        BY <2>2 DEF TypeInv, AgentTypes, BindingTypes, DeploymentTypes, HistoryTypes, VersionRows,
                    vars, agentVars, targetVars, historyVars
    <2>. QED
        BY <2>1, <2>2
<1>. QED
    BY <1>1, <1>2, PTL DEF Spec

(* Every row, every local variable of a request and the histories have     *)
(* their types, whatever requests interleave, fail or crash.               *)
THEOREM RegistryTypes == Spec => []TypeOK
<1>1. TypeInv => TypeOK
    BY DEF TypeInv, TypeOK, AgentTypes, AgentType, BindingTypes, DeploymentTypes, RowType,
           HistoryTypes, ProcType, Pcs
<1>. QED
    BY <1>1, TypesHold, PTL

-----------------------------------------------------------------------------
(* Bindings stand.                                                         *)

(* The steps a request of a kind may take.                                 *)
LEMMA BindMoves ==
    ASSUME ProcsOK, NEW r \in Requests, TargetMove(r), proc[r].kind = "bind"
    PROVE  Bind(r) \/ BindTaken(r) \/ BindCheck(r) \/ Unbind(r) \/ FailRead(r) \/ FailUndo(r)
<1>1. /\ proc[r].pc \notin CreateSteps /\ proc[r].pc \notin SwitchSteps
      /\ proc[r].pc \notin RoleSteps /\ proc[r].pc \notin ServedSteps /\ proc[r].pc \notin AccessSteps
    BY DEF ProcsOK, Locals, DeployLocals, ResolveLocals, Creations
<1>2. ~ListServing(r)
    BY <1>1, Zenon DEF ListServing, At, ServedSteps
<1>. QED
    BY <1>1, <1>2
       DEF TargetMove, TargetStep, TargetFailure, FailWrite, List, Insert, ListTaken, Sweep, SweepRow,
           Reinsert, Check, Discard, Withdraw, Delete, Write, Restore, ReadBack,
           RequestedRole, RequestedAny, MatchRole, MatchAny, FallbackBindings, LastFallback,
           AccessRole, AccessAny, AccessDeployed, At, CreateSteps, SwitchSteps, RoleSteps,
           ServedSteps, AccessSteps

LEMMA ResolveMoves ==
    ASSUME ProcsOK, NEW r \in Requests, TargetMove(r), proc[r].kind \in {"resolve", "access"}
    PROVE  \/ RequestedRole(r) \/ RequestedAny(r) \/ ListServing(r) \/ MatchRole(r) \/ MatchAny(r)
           \/ FallbackBindings(r) \/ LastFallback(r)
           \/ AccessRole(r) \/ AccessAny(r) \/ AccessDeployed(r) \/ FailRead(r)
<1>1. /\ proc[r].pc \notin CreateSteps /\ proc[r].pc \notin SwitchSteps
      /\ proc[r].pc \notin BindingSteps
    BY DEF ProcsOK, Locals, DeployLocals, BindLocals, Creations
<1>. QED
    BY <1>1
       DEF TargetMove, TargetStep, TargetFailure, FailWrite, FailUndo, List, Insert, ListTaken, Sweep,
           SweepRow, Reinsert, Check, Discard, Withdraw, Delete, Write, Restore, ReadBack,
           Bind, BindTaken, BindCheck, Unbind, At, CreateSteps, SwitchSteps, BindingSteps

(* A mailbox that is gone does not come back, and one that is in use stays.*)
LEMMA MailboxesMove ==
    ASSUME NEW r \in Requests, Arrive(r) \/ Move(r)
    PROVE  \/ mailbox' = mailbox
           \/ /\ Arrive(r) /\ binding' = binding /\ deployment' = deployment /\ version' = version
              /\ \E m : Unreferenced(m) /\ mailbox' = mailbox \ {m}
BY ArriveFrame, TargetFrame, AgentFrame DEF Move, targetVars, agentVars

LEMMA BindingStays ==
    ASSUME TypeInv, BindInv, NEW r \in Requests, Arrive(r) \/ Move(r),
           NEW a \in AllAgents, NEW m \in Mailboxes, HasBinding(a, m)
    PROVE  HasBinding(a, m)' /\ \A use : HasRole(a, m, use)' <=> HasRole(a, m, use)
<1>1. m \in mailbox /\ binding[<<a, m>>] # "none"
    BY DEF HasBinding, RoleOf
<1>2. m \in mailbox'
    BY <1>1, MailboxesMove DEF Unreferenced
<1>3. binding'[<<a, m>>] = binding[<<a, m>>]
    <2>1. CASE TargetMove(r)
        <3>1. /\ binding \in [AllAgents \X Mailboxes -> Roles \union {"none"}]
              /\ <<a, m>> \in AllAgents \X Mailboxes
            BY DEF TypeInv, BindingTypes
        <3>2. proc[r].pc = "Unbind" => Slot(r) # <<a, m>>
            BY <1>1 DEF BindInv, BindOK, Slot
        <3>. QED
            BY <1>1, <2>1, <3>1, <3>2, BindingsMove
    <2>2. CASE Arrive(r) \/ AgentMove(r) \/ Crash(r)
        BY <2>2, ArriveFrame, AgentFrame DEF targetVars
    <2>. QED
        BY <2>1, <2>2 DEF Move
<1>4. RoleOf(a, m)' = RoleOf(a, m)
    BY <1>1, <1>2, <1>3 DEF RoleOf
<1>. QED
    BY <1>4 DEF HasBinding, HasRole

LEMMA BindInvKept ==
    ASSUME TypeInv, BindInv, Next
    PROVE  BindInv'
<1>1. PICK r \in Requests : Arrive(r) \/ Move(r)
    BY NextIs
<1>2. ProcsOK /\ ProcsOK' /\ TypeInv'
    BY <1>1, StepTyped, TypeInvKept DEF TypeInv, ProcsOK
<1>3. mailbox' \subseteq mailbox
    BY <1>1, MailboxesMove
<1>4. ASSUME NEW q \in Requests, q # r
      PROVE  BindOK(q)'
    <2>1. Same(proc[q], proc'[q]) /\ proc'[q].pc = proc[q].pc
        BY <1>1, <1>4, StepTyped DEF Typed, Still
    <2>2. BindOK(q)
        BY DEF BindInv
    <2>3. proc[q].pc \in {"BindTaken", "BindCheck"} \/ (proc[q].pc = "done" /\ proc[q].kind = "bind")
            => proc[q].agent \in AllAgents /\ proc[q].target \in Mailboxes
        BY <1>2 DEF ProcsOK, Locals, BindLocals, BindingSteps
    <2>. QED
        BY <1>1, <1>3, <2>1, <2>2, <2>3, BindingStays DEF BindOK, Same
<1>5. BindOK(r)'
    <2>1. CASE proc'[r].kind # "bind"
        BY <1>2, <2>1 DEF BindOK, ProcsOK, Locals, BindLocals, BindingSteps
    <2>2. CASE proc'[r].kind = "bind" /\ Arrive(r)
        BY <2>2, ArriveStarts DEF BindOK, Starts
    <2>3. CASE proc'[r].kind = "bind" /\ Crash(r)
        BY <1>2, <2>3, CrashTypes DEF BindOK, Goes
    <2>4. CASE proc'[r].kind = "bind" /\ TargetMove(r)
        <3>0. mailbox' = mailbox /\ proc[r].kind = "bind" /\ Base(proc[r], proc'[r])
            BY <1>1, <2>4, StepTyped, TargetFrame DEF Move, Base
        <3>1. CASE Bind(r)
            <4>1. CASE Goes(r, "BindCheck") /\ binding' = [binding EXCEPT ![Slot(r)] = proc[r].status]
                <5>1. /\ proc[r].status \in Roles /\ proc[r].status # "none"
                      /\ proc[r].agent \in AllAgents /\ proc[r].target \in Mailboxes
                    BY <1>2, <3>1 DEF Bind, At, ProcsOK, Locals, BindLocals, BindingSteps, Roles
                <5>2. binding'[Slot(r)] = proc[r].status
                    BY <4>1, <5>1 DEF Slot, TypeInv, BindingTypes
                <5>3. /\ proc'[r].pc = "BindCheck" /\ proc'[r].agent = proc[r].agent
                      /\ proc'[r].target = proc[r].target
                    BY <4>1 DEF Goes, Same
                <5>. QED
                    BY <3>0, <5>1, <5>2, <5>3 DEF BindOK, HasBinding, RoleOf, Slot
            <4>2. CASE Goes(r, "BindTaken") /\ binding[Slot(r)] # "none" /\ binding' = binding
                BY <3>0, <4>2 DEF BindOK, HasBinding, RoleOf, Slot, Goes, Same
            <4>. QED
                BY <1>2, <3>1, <4>1, <4>2, BindTypes
        <3>2. CASE BindTaken(r) \/ BindCheck(r)
            <4>1. binding' = binding /\ BindOK(r) /\ proc[r].pc \in {"BindTaken", "BindCheck"}
                BY <3>2 DEF BindTaken, BindCheck, At, targetVars, BindInv
            <4>2. proc[r].status # "none"
                BY <1>2, <4>1 DEF ProcsOK, Locals, BindLocals, BindingSteps, Roles
            <4>3. /\ proc'[r].agent = proc[r].agent /\ proc'[r].target = proc[r].target
                  /\ \/ proc'[r].pc = "refused"
                     \/ proc'[r].pc = "done" /\ HasBinding(proc[r].agent, proc[r].target)
                     \/ proc'[r].pc = "Unbind" /\ proc[r].target \notin mailbox
                BY <1>2, <3>2, <4>1, <4>2, BindTakenTypes, BindCheckTypes
                   DEF Goes, Same, BindOK, HasBinding
            <4>. QED
                BY <3>0, <4>1, <4>3 DEF BindOK, HasBinding, RoleOf
        <3>3. CASE Unbind(r) \/ FailRead(r) \/ FailUndo(r)
            BY <1>2, <3>3, UnbindTypes, FailTypes DEF Goes, BindOK
        <3>. QED
            BY <1>2, <2>4, <3>0, <3>1, <3>2, <3>3, BindMoves
    <2>5. ~(proc'[r].kind = "bind" /\ AgentMove(r))
        BY <1>1, <1>2, StepTyped, MoveKinds DEF Move, Base, AgentKinds
    <2>. QED
        BY <1>1, <2>1, <2>2, <2>3, <2>4, <2>5 DEF Move
<1>. QED
    BY <1>4, <1>5 DEF BindInv

-----------------------------------------------------------------------------
(* What a resolution or a check has found out stands.                      *)

LEMMA RoleIs ==
    ASSUME TypeInv, NEW a \in AllAgents, NEW m
    PROVE  /\ RoleOf(a, m) \in Roles \union {"none"}
           /\ HasBinding(a, m) <=> RoleOf(a, m) \in Roles
           /\ HasBinding(a, m) => m \in Mailboxes
           /\ \A use \in DOMAIN CapableRoles : HasRole(a, m, use) => HasBinding(a, m)
           /\ HasRole(a, m, "any") <=> HasBinding(a, m)
<1>1. RoleOf(a, m) \in Roles \union {"none"} /\ (HasBinding(a, m) => m \in Mailboxes)
    BY DEF RoleOf, HasBinding, TypeInv, BindingTypes
<1>2. HasBinding(a, m) <=> RoleOf(a, m) \in Roles
    BY <1>1 DEF HasBinding, Roles
<1>3. \A use \in DOMAIN CapableRoles : CapableRoles[use] \subseteq Roles
    BY DEF CapableRoles, Roles
<1>4. CapableRoles["any"] = Roles
    BY DEF CapableRoles
<1>. QED
    BY <1>1, <1>2, <1>3, <1>4 DEF HasRole

LEMMA FitsKept ==
    ASSUME TypeInv, BindInv, NEW r \in Requests, Arrive(r) \/ Move(r), NEW q \in Requests,
           Fits(proc[q])
    PROVE  Fits(proc[q])'
<1>. SUFFICES ASSUME proc'[q].kind \in {"resolve", "access"}
     PROVE  Fits(proc[q])'
    BY DEF Fits
<1>1. PICK m, u : m = proc'[q].target /\ u = proc'[q].use
    OBVIOUS
<1>2. /\ u \in DOMAIN CapableRoles
      /\ proc'[q].bound \subseteq AllAgents /\ proc'[q].barred \subseteq AllAgents
    <2>1. proc'[q] \in ProcType
        BY StepTyped DEF ProcsOK
    <2>. QED
        BY <1>1, <2>1 DEF ProcType
<1>3. /\ \A a \in proc'[q].bound : HasRole(a, m, u)
      /\ \A a \in proc'[q].barred : HasBinding(a, m) /\ ~HasRole(a, m, u)
    <2>1. CASE q = r /\ Arrive(r)
        BY <1>1, <2>1, ArriveStarts DEF Starts, BoundTo, BarredFrom
    <2>2. CASE q # r \/ Move(r)
        BY <1>1, <2>2, StepTyped DEF Typed, Still, Same, Base, Fits
    <2>. QED
        BY <2>1, <2>2
<1>4. ASSUME NEW a \in AllAgents
      PROVE  /\ HasRole(a, m, u) => HasRole(a, m, u)'
             /\ HasBinding(a, m) /\ ~HasRole(a, m, u) => HasBinding(a, m)' /\ ~HasRole(a, m, u)'
    <2>1. CASE HasBinding(a, m)
        <3>1. m \in Mailboxes
            BY <2>1, RoleIs
        <3>. QED
            BY <2>1, <3>1, BindingStays
    <2>2. CASE ~HasBinding(a, m)
        BY <1>2, <2>2, RoleIs
    <2>. QED
        BY <2>1, <2>2
<1>. QED
    BY <1>1, <1>2, <1>3, <1>4 DEF Fits, HasRole, HasBinding, RoleOf

(* What a step of the resolution finds out.                                *)
LEMMA FoundOutKept ==
    ASSUME TypeInv, NEW r \in Requests, Fits(proc[r]), FoundOut(proc[r]), TargetMove(r),
           proc[r].kind \in {"resolve", "access"}
    PROVE  FoundOut(proc'[r])
<1>. DEFINE p == proc[r]
            x == proc'[r]
<1>1. /\ ProcsOK /\ DeploymentTypes /\ Base(p, x) /\ Fits(p) /\ FoundOut(p)
      /\ p.use \in DOMAIN CapableRoles /\ p.bound \subseteq AllAgents /\ p.barred \subseteq AllAgents
      /\ Locals(r, p)
    BY StepTyped DEF TypeInv, ProcsOK, Move, ProcType
<1>2. /\ \A a : HasRole(a, p.target, p.use) => a \notin p.barred
      /\ \A a : ~HasRole(a, p.target, p.use) => a \notin p.bound
      /\ \A a : ~HasBinding(a, p.target) => a \notin p.barred
    BY <1>1 DEF Fits
<1>3. x.bound = p.bound /\ x.barred = p.barred /\ x.target = p.target /\ x.kind = p.kind
    BY <1>1 DEF Base
<1>. USE DEF FoundOut
<1>4. CASE RequestedRole(r)
    <2>1. ~p.fallback
        BY <1>1, <1>4 DEF RequestedRole, At, Locals, ResolveLocals, RoleSteps
    <2>2. /\ x.agent = p.agent /\ x.fallback = p.fallback
          /\ x.config = HasRole(p.agent, p.target, p.use)
          /\ x.pc = IF x.config THEN "ListServing" ELSE "RequestedAny"
        BY <1>1, <1>4, RequestedRoleTypes
    <2>. QED
        BY <1>2, <1>3, <2>1, <2>2
<1>5. CASE RequestedAny(r)
    <2>1. p.pc = "RequestedAny" /\ p.agent \in AllAgents
        BY <1>1, <1>5 DEF RequestedAny, At, Locals, ResolveLocals, RoleSteps
    <2>2. p.agent # None
        BY <2>1, NamesAre
    <2>3. Same(p, x) /\ x.pc \in {"unresolved", "ListServing"}
        BY <1>1, <1>5, RequestedAnyTypes DEF Goes
    <2>. QED
        BY <1>1, <2>1, <2>2, <2>3 DEF Same
<1>6. CASE ListServing(r)
    <2>1. p.pc = "ListServing"
        BY <1>6, Zenon DEF ListServing, At
    <2>2. /\ x.agent = p.agent /\ x.fallback = p.fallback /\ x.config = p.config
          /\ x.pc \in {"FallbackBindings", "MatchRole"}
        BY <1>1, <1>6, ListServingTypes DEF Goes, Same
    <2>3. ~p.fallback
        BY <1>1, <2>1 DEF Locals, ResolveLocals
    <2>. QED
        BY <1>1, <1>3, <2>1, <2>2, <2>3 DEF ServedSteps
<1>7. CASE MatchRole(r)
    <2>1. p.pc = "MatchRole"
        BY <1>7 DEF MatchRole, At
    <2>2. \/ x.pc = "done" /\ x.agent = p.owner /\ HasRole(p.owner, p.target, p.use)
          \/ Same(p, x) /\ x.pc = "MatchAny"
        BY <1>1, <1>7, MatchRoleTypes DEF Goes, Resolves
    <2>. QED
        BY <1>1, <1>2, <1>3, <2>1, <2>2 DEF Same, ServedSteps
<1>8. CASE MatchAny(r)
    <2>1. p.pc = "MatchAny"
        BY <1>8 DEF MatchAny, At
    <2>2. /\ x.agent = p.agent /\ x.owner = p.owner /\ x.config = p.config
          /\ x.pc = "FallbackBindings" /\ x.fallback = ~HasBinding(p.owner, p.target)
        BY <1>1, <1>8, MatchAnyTypes
    <2>. QED
        BY <1>1, <1>2, <1>3, <2>1, <2>2 DEF ServedSteps
<1>9. CASE FallbackBindings(r)
    <2>1. p.pc = "FallbackBindings"
        BY <1>9 DEF FallbackBindings, At
    <2>2. \/ x.pc = "done" /\ HasRole(x.agent, p.target, p.use)
          \/ x.pc = "done" /\ p.fallback /\ x.agent = p.owner
          \/ x.pc = "LastFallback" /\ Same(p, x) /\ p.agent = None
          \/ x.pc = "done" /\ p.config /\ x.agent = p.agent
          \/ x.pc = "unresolved" /\ Same(p, x) /\ p.agent # None /\ ~p.config
        BY <1>1, <1>9, FallbackBindingsTypes DEF Goes, Resolves, Capable
    <2>. QED
        BY <1>1, <1>2, <1>3, <2>1, <2>2 DEF Same, ServedSteps
<1>10. CASE LastFallback(r)
    <2>1. p.pc = "LastFallback" /\ p.agent = None
        BY <1>1, <1>10 DEF LastFallback, At
    <2>2. \/ x.pc = "done" /\ HasRole(x.agent, p.target, p.use)
          \/ /\ x.pc = "unresolved" /\ Same(p, x)
             /\ \A a \in AllAgents : ~HasRole(a, p.target, p.use)
        BY <1>1, <1>10, LastFallbackTypes DEF Goes, Resolves, Capable
    <2>3. CASE x.pc = "done" /\ HasRole(x.agent, p.target, p.use)
        BY <1>2, <1>3, <2>3 DEF ServedSteps
    <2>4. CASE /\ x.pc = "unresolved" /\ Same(p, x)
               /\ \A a \in AllAgents : ~HasRole(a, p.target, p.use)
        <3>1. p.bound = {} /\ x.bound = {}
            BY <1>1, <1>3, <2>4 DEF Fits
        <3>. QED
            BY <2>4, <3>1 DEF ServedSteps
    <2>. QED
        BY <2>2, <2>3, <2>4
<1>11. CASE AccessRole(r)
    <2>1. p.agent \in AllAgents
        BY <1>1, <1>11 DEF AccessRole, At, Locals, ResolveLocals, AccessSteps
    <2>2. LET has == HasRole(p.agent, p.target, p.use) IN
          /\ x.agent = p.agent
          /\ \/ x.pc = "done" /\ has
             \/ x.pc = "AccessDeployed" /\ ~has /\ p.use = "any"
             \/ x.pc = "AccessAny" /\ ~has
        BY <1>1, <1>11, AccessRoleTypes DEF Goes, Same
    <2>3. p.use = "any" /\ ~HasRole(p.agent, p.target, p.use) => ~HasBinding(p.agent, p.target)
        BY <2>1, RoleIs
    <2>. QED
        BY <1>1, <1>2, <1>3, <2>2, <2>3 DEF ServedSteps
<1>12. CASE AccessAny(r)
    <2>1. p.pc = "AccessAny"
        BY <1>12 DEF AccessAny, At
    <2>2. /\ x.agent = p.agent
          /\ \/ x.pc = "denied"
             \/ x.pc = "AccessDeployed" /\ ~HasBinding(p.agent, p.target)
        BY <1>1, <1>12, AccessAnyTypes DEF Goes, Same
    <2>. QED
        BY <1>1, <1>2, <1>3, <2>1, <2>2 DEF ServedSteps
<1>13. CASE AccessDeployed(r)
    <2>1. p.pc = "AccessDeployed"
        BY <1>13 DEF AccessDeployed, At
    <2>2. x.agent = p.agent /\ x.pc \in {"done", "denied"}
        BY <1>1, <1>13, AccessDeployedTypes DEF Goes, Same
    <2>. QED
        BY <1>1, <1>3, <2>1, <2>2 DEF ServedSteps
<1>14. CASE FailRead(r)
    <2>1. x.pc = "refused"
        BY <1>1, <1>14, FailTypes DEF Goes
    <2>. QED
        BY <2>1 DEF ServedSteps
<1>. QED
    BY <1>1, <1>4, <1>5, <1>6, <1>7, <1>8, <1>9, <1>10, <1>11, <1>12, <1>13, <1>14, ResolveMoves

LEMMA FitInvKept ==
    ASSUME TypeInv, BindInv, FitInv, Next
    PROVE  FitInv'
<1>1. PICK r \in Requests : Arrive(r) \/ Move(r)
    BY NextIs
<1>2. ProcsOK /\ ProcsOK' /\ mailbox' \subseteq mailbox
    BY <1>1, StepTyped, MailboxesMove DEF TypeInv, ProcsOK
<1>3. ASSUME NEW q \in Requests, q # r
      PROVE  FoundOut(proc[q])'
    <2>1. Same(proc[q], proc'[q]) /\ proc'[q].pc = proc[q].pc /\ FoundOut(proc[q])
        BY <1>1, <1>3, StepTyped DEF Typed, Still, FitInv, FitOK
    <2>. QED
        BY <1>2, <2>1 DEF FoundOut, Same
<1>4. FoundOut(proc[r])'
    <2>1. CASE proc'[r].kind \notin {"resolve", "access"}
        BY <1>2, <2>1 DEF FoundOut, ProcsOK, Locals, ResolveLocals, RoleSteps, ServedSteps,
                AccessSteps
    <2>2. CASE proc'[r].kind \in {"resolve", "access"} /\ Arrive(r)
        <3>1. proc'[r].bound \subseteq AllAgents /\ None \notin AllAgents
            BY <1>2, NamesAre DEF ProcsOK, ProcType
        <3>. QED
            BY <1>2, <2>2, <3>1, ArriveStarts DEF FoundOut, Starts, ServedSteps
    <2>3. CASE proc'[r].kind \in {"resolve", "access"} /\ Crash(r)
        <3>1. proc'[r].pc = "crashed"
            BY <1>2, <2>3, CrashTypes DEF Goes
        <3>. QED
            BY <3>1 DEF FoundOut, ServedSteps
    <2>4. CASE proc'[r].kind \in {"resolve", "access"} /\ TargetMove(r)
        <3>1. proc[r].kind \in {"resolve", "access"}
            BY <1>1, <2>4, StepTyped DEF Move, Base
        <3>2. FoundOut(proc'[r])
            BY <2>4, <3>1, FoundOutKept DEF FitInv, FitOK
        <3>. QED
            BY <2>4, <3>2, TargetFrame DEF FoundOut
    <2>5. ~(proc'[r].kind \in {"resolve", "access"} /\ AgentMove(r))
        BY <1>1, <1>2, StepTyped, MoveKinds DEF Move, Base, AgentKinds
    <2>. QED
        BY <1>1, <2>1, <2>2, <2>3, <2>4, <2>5 DEF Move
<1>5. \A q \in Requests : Fits(proc[q])'
    BY <1>1, FitsKept DEF FitInv, FitOK
<1>. QED
    BY <1>3, <1>4, <1>5 DEF FitInv, FitOK

-----------------------------------------------------------------------------
(* Answered deployments stand.                                             *)

LEMMA RowsMove ==
    ASSUME TypeInv, NEW r \in Requests, Arrive(r) \/ Move(r), NEW q \in Deployments
    PROVE  \/ deployment'[q].status = "none"
           \/ /\ deployment[q].status # "none"
              /\ deployment'[q].version = deployment[q].version
              /\ deployment'[q].agent = deployment[q].agent
              /\ deployment'[q].target = deployment[q].target
           \/ /\ q = r /\ proc[r].pc \in {"Insert", "Reinsert"} /\ Goes(r, "Check")
              /\ deployment'[r] = Row(r)
<1>1. ProcsOK /\ deployment \in [Deployments -> RowType] /\ r \in Deployments
    BY NamesAre DEF TypeInv, ProcsOK, DeploymentTypes
<1>2. CASE deployment' = deployment
    BY <1>2
<1>3. CASE \E d \in Deployments : deployment' = [deployment EXCEPT ![d] = NoDeployment]
    BY <1>1, <1>3 DEF NoDeployment
<1>4. CASE /\ proc[r].pc \in {"Insert", "Reinsert"} /\ Goes(r, "Check")
           /\ deployment' = [deployment EXCEPT ![r] = Row(r)]
    BY <1>1, <1>4
<1>5. ASSUME NEW d, NEW s, Sets(d, s)
      PROVE  /\ deployment[q].status = "none" => deployment'[q].status = "none"
             /\ deployment'[q].version = deployment[q].version
             /\ deployment'[q].agent = deployment[q].agent
             /\ deployment'[q].target = deployment[q].target
    BY <1>1, <1>5 DEF Sets, CanSet, Valid, SetStatus, RowType
<1>6. CASE TargetMove(r)
    BY <1>1, <1>2, <1>3, <1>4, <1>5, <1>6, DeploymentsMove
<1>7. CASE Arrive(r) \/ AgentMove(r) \/ Crash(r)
    BY <1>2, <1>7, ArriveFrame, AgentFrame DEF targetVars
<1>. QED
    BY <1>6, <1>7 DEF Move

(* A creation keeps what it was asked for.                                 *)
LEMMA CreationMoves ==
    ASSUME ProcsOK, NEW r \in Requests, TargetMove(r), proc[r].kind \in Creations
    PROVE  /\ proc[r].pc \in CreateSteps \union SwitchSteps
           /\ proc'[r].agent = proc[r].agent
           /\ proc'[r].pc = "done" => Valid(r) /\ deployment' = deployment
<1>1. /\ proc[r].pc \notin BindingSteps
      /\ proc[r].pc \notin RoleSteps /\ proc[r].pc \notin ServedSteps /\ proc[r].pc \notin AccessSteps
    BY DEF ProcsOK, Locals, BindLocals, ResolveLocals, Creations
<1>2. ~ListServing(r)
    BY <1>1, Zenon DEF ListServing, At, ServedSteps
<1>3. \/ List(r) \/ Insert(r) \/ ListTaken(r) \/ Sweep(r) \/ SweepRow(r) \/ Reinsert(r)
      \/ Check(r) \/ Discard(r) \/ Withdraw(r) \/ Write(r) \/ Restore(r) \/ ReadBack(r)
      \/ FailWrite(r) \/ FailRead(r) \/ FailUndo(r)
    BY <1>1, <1>2
       DEF TargetMove, TargetStep, TargetFailure, Bind, BindTaken, BindCheck, Unbind,
           RequestedRole, RequestedAny, MatchRole, MatchAny, FallbackBindings, LastFallback,
           AccessRole, AccessAny, AccessDeployed, At, BindingSteps, RoleSteps,
           ServedSteps, AccessSteps
<1>4. proc[r].pc \in CreateSteps \union SwitchSteps
    BY <1>1, <1>3
       DEF List, Insert, ListTaken, Sweep, SweepRow, Reinsert, Check, Discard, Withdraw, Delete,
           Write, Restore, ReadBack, FailWrite, FailRead, FailUndo, At, CreateSteps, SwitchSteps,
           BindingSteps, RoleSteps, ServedSteps, AccessSteps, ResolveSteps
<1>5. CASE List(r) \/ Insert(r) \/ ListTaken(r) \/ Sweep(r) \/ SweepRow(r) \/ Reinsert(r)
    BY <1>4, <1>5, ListTypes, InsertTypes, ListTakenTypes, SweepTypes, SweepRowTypes, ReinsertTypes
       DEF Goes, Same
<1>6. CASE Discard(r) \/ Withdraw(r) \/ Write(r) \/ Restore(r)
    BY <1>4, <1>6, DeleteTypes, WriteTypes, RestoreTypes DEF Goes, Same
<1>7. CASE FailWrite(r) \/ FailRead(r) \/ FailUndo(r)
    BY <1>4, <1>7, FailWriteTypes, FailTypes DEF Goes, Same
<1>8. CASE Check(r)
    BY <1>4, <1>8, CheckTypes DEF Goes, Same, Check, targetVars
<1>9. CASE ReadBack(r)
    <2>1. proc[r].pc = "ReadBack"
        BY <1>9 DEF ReadBack, At
    <2>2. proc[r].d = r
        BY <2>1 DEF ProcsOK, Locals, DeployLocals, SwitchSteps, Creations, Makes
    <2>. QED
        BY <1>4, <1>9, <2>2, ReadBackTypes DEF Goes, Same, ReadBack, targetVars
<1>. QED
    BY <1>3, <1>5, <1>6, <1>7, <1>8, <1>9

LEMMA DeployInvKept ==
    ASSUME TypeInv, DeployInv, Next
    PROVE  DeployInv'
<1>1. PICK r \in Requests : Arrive(r) \/ Move(r)
    BY NextIs
<1>2. ProcsOK /\ ProcsOK' /\ TypeInv' /\ r \in Deployments
    BY <1>1, StepTyped, TypeInvKept, NamesAre DEF TypeInv, ProcsOK
<1>4. ASSUME NEW v \in AllVersions, NEW a \in AllAgents, Known(v), version[v] # a
      PROVE  version'[v] # a
    <2>1. CASE v # r
        BY <1>1, <1>4, <2>1, OthersVersions
    <2>2. CASE v = r /\ AgentMove(r)
        <3>1. ~InsertVersion(r)
            BY <1>4, <2>2 DEF Known, Fresh, InsertVersion, At
        <3>2. version \in [AllVersions -> AllAgents \union {None}] /\ a # None
            BY NamesAre DEF TypeInv, AgentTypes
        <3>. QED
            BY <1>2, <1>4, <2>2, <3>1, <3>2, VersionsMove
    <2>3. CASE Arrive(r) \/ TargetMove(r) \/ Crash(r)
        BY <1>4, <2>3, ArriveFrame, TargetFrame DEF Crash, agentVars
    <2>. QED
        BY <1>1, <2>1, <2>2, <2>3 DEF Move
<1>5. ASSUME NEW q \in Requests, q # r
      PROVE  DeployOK(q)'
    <2>1. Same(proc[q], proc'[q]) /\ proc'[q].pc = proc[q].pc
        BY <1>1, <1>5, StepTyped DEF Typed, Still
    <2>2. DeployOK(q) /\ q \in Deployments
        BY NamesAre DEF DeployInv
    <2>3. \/ deployment'[q].status = "none"
          \/ /\ deployment[q].status # "none"
             /\ deployment'[q].version = deployment[q].version
             /\ deployment'[q].agent = deployment[q].agent
             /\ deployment'[q].target = deployment[q].target
        BY <1>1, <1>5, <2>2, RowsMove
    <2>4. proc[q].kind \notin Creations => deployment'[q].status = "none"
        BY <2>2, <2>3 DEF DeployOK
    <2>5. ASSUME proc[q].kind \in Creations, proc[q].pc \in CreateSteps \union SwitchSteps
            \union {"done"}
          PROVE  /\ Known(proc[q].version)'
                 /\ deployment'[q].status # "none" =>
                      /\ deployment'[q].version = proc[q].version
                      /\ deployment'[q].agent = proc[q].agent
                      /\ deployment'[q].target = proc[q].target
        <3>1. Known(proc[q].version)
            BY <2>2, <2>5 DEF DeployOK
        <3>. QED
            BY <1>1, <2>1, <2>2, <2>3, <2>5, <3>1, FreshBefore DEF DeployOK, Known, Same
    <2>6. ASSUME proc[q].kind \in Creations, proc[q].pc = "done", deployment'[q].status # "none",
                 version'[proc[q].version] = proc[q].agent
          PROVE  proc[q].target \in mailbox'
        <3>1. /\ Makes(q, proc[q]) /\ Known(proc[q].version)
              /\ deployment[q].status # "none" /\ deployment[q].version = proc[q].version
              /\ deployment[q].agent = proc[q].agent /\ deployment[q].target = proc[q].target
            BY <1>2, <2>2, <2>3, <2>6 DEF ProcsOK, Locals, DeployLocals, DeployOK
        <3>2. version[proc[q].version] = proc[q].agent
            BY <1>4, <2>6, <3>1 DEF Makes
        <3>3. proc[q].target \in mailbox
            BY <2>2, <2>6, <3>1, <3>2 DEF DeployOK
        <3>4. Valid(q)
            BY <3>1, <3>2, <3>3 DEF Valid
        <3>. QED
            BY <1>1, <2>2, <3>1, <3>3, <3>4, MailboxesMove DEF Unreferenced
    <2>. QED
        BY <2>1, <2>4, <2>5, <2>6 DEF DeployOK, Same
<1>6. DeployOK(r)'
    <2>1. DeployOK(r)
        BY DEF DeployInv
    <2>2. CASE Arrive(r)
        <3>1. proc[r].kind \notin Creations /\ deployment[r].status = "none"
            BY <1>2, <2>1, <2>2, StepTyped DEF Arrives, ProcsOK, Locals, DeployOK, Creations
        <3>2. deployment'[r].status = "none"
            BY <2>2, <3>1, ArriveFrame
        <3>3. Starts(proc'[r]) /\ VersionRows
            BY <2>2, ArriveStarts DEF TypeInv
        <3>4. proc'[r].kind \in Creations /\ proc'[r].pc # "refused" =>
                proc'[r].pc \in {"Insert", "List"} /\ Known(proc[r].version)'
            <4>. SUFFICES ASSUME proc'[r].kind \in Creations, proc'[r].pc # "refused"
                 PROVE  proc'[r].pc \in {"Insert", "List"} /\ Known(proc[r].version)'
                OBVIOUS
            <4>1. proc'[r].pc \in {"Insert", "List"} /\ version[proc'[r].version] # None
                BY <3>3 DEF Starts
            <4>2. proc'[r].version \in Requests => ~Fresh(proc[proc'[r].version])
                BY <3>3, <4>1 DEF VersionRows
            <4>. QED
                BY <1>1, <4>1, <4>2, FreshBefore DEF Known
        <3>. QED
            BY <3>2, <3>4 DEF DeployOK, CreateSteps, SwitchSteps
    <2>3. CASE Crash(r)
        BY <1>2, <2>1, <2>3, CrashTypes DEF DeployOK, Crash, Goes, Same, targetVars, CreateSteps,
                SwitchSteps
    <2>4. CASE AgentMove(r)
        BY <1>1, <1>2, <2>1, <2>4, StepTyped, MoveKinds, AgentFrame
           DEF DeployOK, Move, Base, AgentKinds, Creations, targetVars
    <2>5. CASE TargetMove(r) /\ proc[r].kind \notin Creations
        <3>1. proc[r].pc \notin {"Insert", "Reinsert"} /\ proc'[r].kind = proc[r].kind
            BY <1>1, <1>2, <2>5, StepTyped DEF Move, Base, ProcsOK, Locals, DeployLocals, CreateSteps
        <3>2. deployment'[r].status = "none"
            BY <1>1, <1>2, <2>1, <2>5, <3>1, RowsMove DEF DeployOK
        <3>. QED
            BY <2>5, <3>1, <3>2 DEF DeployOK
    <2>6. CASE TargetMove(r) /\ proc[r].kind \in Creations
        <3>1. /\ proc[r].pc \in CreateSteps \union SwitchSteps
              /\ proc'[r].agent = proc[r].agent
              /\ proc'[r].pc = "done" => Valid(r) /\ deployment' = deployment
              /\ Base(proc[r], proc'[r]) /\ mailbox' = mailbox
            BY <1>1, <1>2, <2>6, CreationMoves, StepTyped, TargetFrame DEF Move
        <3>2. /\ Known(proc[r].version)
              /\ deployment[r].status # "none" =>
                   /\ deployment[r].version = proc[r].version
                   /\ deployment[r].agent = proc[r].agent
                   /\ deployment[r].target = proc[r].target
            BY <2>1, <2>6, <3>1 DEF DeployOK
        <3>3. Known(proc[r].version)'
            BY <1>1, <3>1, <3>2, FreshBefore DEF Known, Base
        <3>4. deployment'[r].status # "none" =>
                /\ deployment'[r].version = proc[r].version
                /\ deployment'[r].agent = proc[r].agent
                /\ deployment'[r].target = proc[r].target
            <4>1. \/ deployment'[r].status = "none"
                  \/ /\ deployment[r].status # "none"
                     /\ deployment'[r].version = deployment[r].version
                     /\ deployment'[r].agent = deployment[r].agent
                     /\ deployment'[r].target = deployment[r].target
                  \/ deployment'[r] = Row(r)
                BY <1>1, <1>2, RowsMove
            <4>. QED
                BY <3>2, <4>1 DEF Row
        <3>5. proc'[r].pc = "done" => proc[r].target \in mailbox'
            BY <3>1, <3>2 DEF Valid
        <3>. QED
            BY <2>6, <3>1, <3>3, <3>4, <3>5 DEF DeployOK, Base
    <2>. QED
        BY <1>1, <2>2, <2>3, <2>4, <2>5, <2>6 DEF Move
<1>. QED
    BY <1>5, <1>6 DEF DeployInv

-----------------------------------------------------------------------------
(* Whose an object is.                                                     *)

LEMMA AgentGoes ==
    ASSUME ProcsOK, NEW r \in Requests, AgentMove(r) \/ Crash(r)
    PROVE  Same(proc[r], proc'[r])
<1>1. CASE Crash(r)
    BY <1>1, CrashTypes DEF Goes
<1>2. CASE FailAgentWrite(r) \/ FailAgentRead(r) \/ FailAgentUndo(r)
    BY <1>2, FailAgentWriteTypes, FailTypes, FailAgentUndoTypes DEF Goes
<1>3. CASE AgentStep(r)
    BY <1>3, AgentStepTypes DEF AgentStep, Goes
<1>. QED
    BY <1>1, <1>2, <1>3 DEF AgentMove, AgentFailure

(* A request for an agent or a version keeps what it is for.               *)
LEMMA AgentKeeps ==
    ASSUME TypeInv, NEW r \in Requests, Arrive(r) \/ Move(r), NEW q \in Requests,
           proc[q].kind \in AgentKinds
    PROVE  Same(proc[q], proc'[q])
<1>1. ProcsOK
    BY DEF TypeInv, ProcsOK
<1>2. CASE q # r
    BY <1>2, StepTyped DEF Typed, Still
<1>3. CASE q = r
    <2>1. ~Arrive(r)
        BY <1>1, <1>3, StepTyped DEF Arrives, ProcsOK, Locals, AgentKinds
    <2>. QED
        BY <1>1, <1>3, <2>1, TargetKinds, AgentGoes DEF Move
<1>. QED
    BY <1>2, <1>3

LEMMA OfAgentKept ==
    ASSUME TypeInv, NEW r \in Requests, Arrive(r) \/ Move(r), NEW a \in AllAgents, NEW b,
            OfAgent(b, a)
    PROVE  OfAgent(b, a)'
<1>1. CASE b = <<"config", a>>
    BY <1>1 DEF OfAgent
<1>2. ASSUME NEW q \in Requests, b = <<"config", q>>, proc[q].kind = "update", proc[q].agent = a
      PROVE  OfAgent(b, a)'
    <2>1. proc'[q].kind = "update" /\ proc'[q].agent = a
        BY <1>2, AgentKeeps DEF AgentKinds, Same
    <2>. QED
        BY <1>2, <2>1 DEF OfAgent
<1>. QED
    BY <1>1, <1>2 DEF OfAgent

(* A request of kind update arrived as one, or is one already.             *)
LEMMA UpdatesMove ==
    ASSUME TypeInv, NEW r \in Requests, Arrive(r) \/ Move(r), NEW q \in Requests,
           proc'[q].kind = "update"
    PROVE  \/ q = r /\ Arrive(r)
           \/ proc[q].kind = "update" /\ Same(proc[q], proc'[q])
<1>1. proc[q].kind = "update" \/ (q = r /\ Arrive(r))
    BY StepTyped DEF Typed, Still, Same, Base
<1>. QED
    BY <1>1, AgentKeeps DEF AgentKinds

(* The rows of agents after a step.                                        *)
LEMMA AgentRows ==
    ASSUME TypeInv, Origins, NEW r \in Requests, Arrive(r) \/ Move(r), NEW a \in AllAgents
    PROVE  \/ agent'[a] = agent[a]
           \/ /\ a = r /\ InsertAgent(r) /\ Goes(r, "ReadAgent")
              /\ agent'[a].status # "none" /\ agent'[a].config = <<"config", r>>
           \/ /\ proc[r].pc = "UpdateAgent" /\ proc[r].kind = "update" /\ a = proc[r].agent
              /\ UpdateAgent(r) \/ "unclear" \in failed'
              /\ agent[a].status # "none" /\ agent'[a].status # "none"
              /\ agent'[a].config = IF proc[r].config THEN <<"config", r>> ELSE proc[r].seen
<1>1. ProcsOK /\ agent \in [AllAgents -> AgentType] /\ r \in AllAgents
    BY NamesAre DEF TypeInv, ProcsOK, AgentTypes
<1>2. CASE agent' = agent
    BY <1>2
<1>3. CASE /\ InsertAgent(r) /\ Goes(r, "ReadAgent")
           /\ agent' = [agent EXCEPT ![r] = [status |-> "active", config |-> <<"config", r>>,
                                             default |-> None]]
    BY <1>1, <1>3
<1>4. CASE proc[r].pc = "UpdateAgent" /\ agent' = Updated(r)
        /\ (UpdateAgent(r) \/ "unclear" \in failed')
    <2>1. proc[r].kind = "update"
        BY <1>1, <1>4 DEF ProcsOK, Locals, AgentLocals, UpdateSteps
    <2>2. agent[proc[r].agent].status # "none" /\ proc[r].agent \in AllAgents
        BY <1>1, <2>1 DEF Origins, ProcsOK, Locals, AgentLocals
    <2>. DEFINE c == proc[r].agent
                b == IF proc[r].config THEN <<"config", r>> ELSE proc[r].seen
                x == [agent[c] EXCEPT !.default = proc[r].version, !.config = b]
    <2>3. agent' = [agent EXCEPT ![c] = x]
        BY <1>4 DEF Updated
    <2>4. x.status = agent[c].status /\ x.config = b
        <3>1. agent[c] \in AgentType
            BY <1>1, <2>2
        <3>. HIDE DEF b
        <3>. QED
            BY <3>1 DEF AgentType
    <2>. HIDE DEF x, b
    <2>5. a # c => agent'[a] = agent[a]
        BY <1>1, <2>3
    <2>6. a = c => agent'[a] = x
        BY <1>1, <2>2, <2>3
    <2>. QED
        BY <1>4, <2>1, <2>2, <2>4, <2>5, <2>6 DEF b
<1>5. CASE AgentMove(r)
    BY <1>1, <1>2, <1>3, <1>4, <1>5, AgentsMove
<1>6. CASE Arrive(r) \/ TargetMove(r) \/ Crash(r)
    BY <1>2, <1>6, ArriveFrame, TargetFrame DEF Crash, agentVars
<1>. QED
    BY <1>5, <1>6 DEF Move

LEMMA OriginsKept ==
    ASSUME TypeInv, Origins, Next
    PROVE  Origins'
<1>1. PICK r \in Requests : Arrive(r) \/ Move(r)
    BY NextIs
<1>2. ProcsOK /\ ProcsOK' /\ r \in AllAgents
    BY <1>1, StepTyped, NamesAre DEF TypeInv, ProcsOK
<1>3. ASSUME NEW a \in AllAgents, agent[a].status # "none" PROVE agent'[a].status # "none"
    BY <1>1, <1>3, AgentRows
<1>4. ASSUME NEW a \in AllAgents, agent'[a].status # "none", a \in Requests
      PROVE  proc'[a].kind = "agent"
    <2>1. CASE agent[a].status # "none"
        BY <1>1, <1>4, <2>1, AgentKeeps DEF Origins, AgentKinds, Same
    <2>2. CASE agent[a].status = "none"
        <3>1. a = r /\ InsertAgent(r) /\ Goes(r, "ReadAgent")
            BY <1>1, <1>4, <2>2, AgentRows
        <3>. QED
            BY <1>2, <3>1 DEF InsertAgent, At, ProcsOK, Locals, AgentLocals, NewAgentSteps, Goes, Same
    <2>. QED
        BY <2>1, <2>2
<1>5. ASSUME NEW a \in AllAgents, agent'[a].status # "none"
      PROVE  OfAgent(agent[a].config, a)'
    <2>1. CASE agent'[a] = agent[a]
        <3>1. PICK b : b = agent[a].config
            OBVIOUS
        <3>2. OfAgent(b, a)
            BY <1>5, <2>1, <3>1 DEF Origins
        <3>3. OfAgent(b, a)'
            BY <1>1, <3>2, OfAgentKept
        <3>. QED
            BY <2>1, <3>1, <3>3 DEF OfAgent
    <2>2. CASE agent'[a].config = <<"config", a>>
        BY <2>2 DEF OfAgent
    <2>3. CASE /\ proc[r].kind = "update" /\ a = proc[r].agent
               /\ agent'[a].config = IF proc[r].config THEN <<"config", r>> ELSE proc[r].seen
        <3>1. proc'[r].kind = "update" /\ proc'[r].agent = a
            BY <1>1, <2>3, AgentKeeps DEF AgentKinds, Same
        <3>2. CASE proc[r].config
            BY <2>3, <3>1, <3>2 DEF OfAgent
        <3>3. CASE ~proc[r].config
            <4>1. PICK b : b = proc[r].seen
                OBVIOUS
            <4>2. OfAgent(b, a)
                BY <2>3, <4>1 DEF Origins
            <4>3. OfAgent(b, a)'
                BY <1>1, <4>2, OfAgentKept
            <4>. QED
                BY <2>3, <3>3, <4>1, <4>3 DEF OfAgent
        <3>. QED
            BY <3>2, <3>3
    <2>. QED
        BY <1>1, <2>1, <2>2, <2>3, AgentRows
<1>6. ASSUME NEW q \in Requests, proc'[q].kind = "update"
      PROVE  /\ agent'[proc'[q].agent].status # "none"
             /\ OfAgent(proc[q].seen, proc[q].agent)' /\ proc'[q].seen # <<"config", q>>
    <2>0. PICK a, b : a = proc'[q].agent /\ b = proc'[q].seen
        OBVIOUS
    <2>1. a \in AllAgents
        BY <1>2, <1>6, <2>0 DEF ProcsOK, Locals, AgentLocals
    <2>2. agent[a].status # "none" /\ OfAgent(b, a) /\ b # <<"config", q>>
        <3>1. CASE proc[q].kind = "update" /\ Same(proc[q], proc'[q])
            BY <2>0, <3>1 DEF Origins, Same
        <3>2. CASE q = r /\ Arrive(r)
            <4>1. proc[r].kind = "drop"
                BY <1>1, <1>2, <3>2, StepTyped DEF Arrives, ProcsOK, Locals
            <4>2. agent[a].status # "none" /\ b = agent[a].config
                BY <1>6, <2>0, <3>2, ArriveStarts DEF Starts
            <4>3. OfAgent(b, a) /\ a # r
                BY <2>1, <4>1, <4>2 DEF Origins
            <4>. QED
                BY <3>2, <4>1, <4>2, <4>3 DEF OfAgent
        <3>. QED
            BY <1>1, <1>6, <3>1, <3>2, UpdatesMove
    <2>3. agent'[a].status # "none"
        BY <1>3, <2>1, <2>2
    <2>4. OfAgent(b, a)'
        BY <1>1, <2>1, <2>2, OfAgentKept
    <2>. QED
        BY <2>0, <2>2, <2>3, <2>4 DEF OfAgent
<1>. QED
    BY <1>4, <1>5, <1>6 DEF Origins

-----------------------------------------------------------------------------
(* Who runs alone.                                                         *)

LEMMA MoveRuns ==
    ASSUME NEW r, Move(r)
    PROVE  Running(r)
BY TargetAt, AgentAt, PcNames DEF Move, Crash, Running

LEMMA RunsBefore ==
    ASSUME TypeInv, NEW r \in Requests, Arrive(r) \/ Move(r), NEW q \in Requests, Running(q)'
    PROVE  Running(q) \/ (q = r /\ Arrive(r))
<1>1. CASE q # r
    BY <1>1, StepTyped DEF Typed, Still, Running
<1>2. CASE q = r
    BY <1>2, MoveRuns
<1>. QED
    BY <1>1, <1>2

LEMMA AloneKept ==
    ASSUME TypeInv, Alone, Next
    PROVE  Alone'
<1>1. PICK r \in Requests : Arrive(r) \/ Move(r)
    BY NextIs
<1>2. SUFFICES ASSUME NEW p \in Requests, Running(p)', proc'[p].alone,
                      NEW q \in Requests \ {p}, Running(q)'
               PROVE  FALSE
    BY DEF Alone
<1>3. CASE Move(r)
    <2>1. Running(p) /\ Running(q)
        BY <1>1, <1>2, <1>3, RunsBefore, MoveRuns
    <2>2. proc[p].alone
        BY <1>1, <1>2, <1>3, StepTyped DEF Proceeds, Alike
    <2>. QED
        BY <2>1, <2>2 DEF Alone
<1>4. CASE Arrive(r)
    <2>1. CASE p = r
        <3>1. AtRest
            BY <1>2, <1>4, <2>1, StepTyped DEF Arrives
        <3>. QED
            BY <1>1, <1>2, <2>1, <3>1, RunsBefore DEF AtRest
    <2>2. CASE p # r
        <3>1. Running(p)
            BY <1>1, <1>2, <2>2, RunsBefore
        <3>. QED
            BY <1>2, <1>4, <2>2, <3>1, StepTyped DEF Arrives
    <2>. QED
        BY <2>1, <2>2
<1>. QED
    BY <1>1, <1>3, <1>4

(* The histories only grow.                                                *)
LEMMA FailedGrows ==
    ASSUME NEW r \in Requests, Arrive(r) \/ Move(r)
    PROVE  failed \subseteq failed'
BY FailureRecorded

LEMMA OverlapStays ==
    ASSUME TypeInv, NEW r \in Requests, Arrive(r) \/ Move(r), UpdatesOverlap
    PROVE  UpdatesOverlap'
<1>1. PICK q \in Requests : proc[q].kind = "update" /\ ~proc[q].alone
    BY DEF UpdatesOverlap
<1>2. proc'[q].kind = "update"
    BY <1>1, AgentKeeps DEF AgentKinds, Same
<1>3. ~proc'[q].alone
    <2>1. CASE Move(r)
        BY <1>1, <2>1, StepTyped DEF Proceeds, Alike
    <2>2. CASE Arrive(r)
        <3>1. q # r
            BY <1>1, <2>2, StepTyped DEF Arrives, TypeInv, Locals
        <3>. QED
            BY <1>1, <2>2, <3>1, StepTyped DEF Arrives
    <2>. QED
        BY <2>1, <2>2
<1>. QED
    BY <1>2, <1>3 DEF UpdatesOverlap

-----------------------------------------------------------------------------
(* The configurations of agents are stored.                                *)

(* An object a request takes away is not the one an agent names.           *)
LEMMA DroppedIs ==
    ASSUME TypeInv, Origins, AllStored, NEW r \in Requests, AgentMove(r),
           NEW a \in AllAgents, agent[a].status # "none"
    PROVE  agent[a].config \in blobs'
<1>1. ProcsOK /\ agent[a].config \in blobs /\ OfAgent(agent[a].config, a)
    BY DEF TypeInv, ProcsOK, AllStored, Origins
<1>2. a \in Requests => proc[a].kind = "agent"
    BY DEF Origins
<1>3. CASE DropOld(r) /\ blobs' = blobs \ {proc[r].seen}
    <2>1. /\ proc[r].pc = "DropOld" /\ proc[r].kind = "update" /\ proc[r].config
          /\ proc[r].agent \in AllAgents
        BY <1>1, <1>3 DEF DropOld, At, ProcsOK, Locals, AgentLocals, UpdateSteps
    <2>2. /\ agent[proc[r].agent].config = <<"config", r>>
          /\ agent[proc[r].agent].status # "none"
          /\ OfAgent(proc[r].seen, proc[r].agent) /\ proc[r].seen # <<"config", r>>
        BY <2>1 DEF AllStored, StoredFor, Origins
    <2>3. CASE a = proc[r].agent
        BY <1>1, <1>3, <2>2, <2>3
    <2>4. CASE a # proc[r].agent
        <3>1. proc[r].agent \in Requests => proc[proc[r].agent].kind = "agent"
            BY <2>1, <2>2 DEF Origins
        <3>2. agent[a].config # proc[r].seen
            BY <1>1, <1>2, <2>1, <2>2, <2>4, <3>1 DEF OfAgent
        <3>. QED
            BY <1>1, <1>3, <3>2
    <2>. QED
        BY <2>3, <2>4
<1>4. CASE (DropAgentBlob(r) \/ UndoConfig(r)) /\ blobs' = blobs \ {<<"config", r>>}
    <2>1. proc[r].kind # "update" /\ (proc[r].kind = "agent" => proc[r].pc = "DropAgentBlob")
        BY <1>1, <1>4 DEF DropAgentBlob, DropBlob, UndoConfig, At, ProcsOK, Locals, AgentLocals,
                          NewAgentSteps, VersionSteps
    <2>2. a # r
        BY <1>2, <2>1 DEF AllStored, StoredFor
    <2>3. agent[a].config # <<"config", r>>
        BY <1>1, <2>1, <2>2 DEF OfAgent
    <2>. QED
        BY <1>1, <1>4, <2>3
<1>5. CASE DropNew(r) /\ blobs' = blobs \ {<<"config", r>>}
    <2>1. proc[r].pc = "DropNew" /\ proc[r].kind = "update"
        BY <1>1, <1>5 DEF DropNew, DropBlob, At, ProcsOK, Locals, AgentLocals, UpdateSteps
    <2>2. agent[proc[r].agent].config = proc[r].seen /\ proc[r].seen # <<"config", r>>
        BY <2>1 DEF AllStored, StoredFor, Origins
    <2>3. agent[a].config # <<"config", r>>
        BY <1>1, <1>2, <2>1, <2>2 DEF OfAgent
    <2>. QED
        BY <1>1, <1>5, <2>3
<1>6. CASE UndoManifest(r) /\ blobs' = blobs \ {<<"manifest", r>>}
    <2>1. agent[a].config # <<"manifest", r>>
        BY <1>1 DEF OfAgent
    <2>. QED
        BY <1>1, <1>6, <2>1
<1>7. CASE blobs \subseteq blobs'
    BY <1>1, <1>7
<1>. QED
    BY <1>3, <1>4, <1>5, <1>6, <1>7, BlobsMove

LEMMA StoredKept ==
    ASSUME TypeInv, Origins, Alone, Stored, Next
    PROVE  Stored'
<1>1. PICK r \in Requests : Arrive(r) \/ Move(r)
    BY NextIs
<1>2. SUFFICES ASSUME ~UpdatesOverlap', "unclear" \notin failed'
               PROVE  AllStored'
    BY DEF Stored
<1>3. AllStored /\ ~UpdatesOverlap
    BY <1>1, <1>2, OverlapStays, FailedGrows DEF Stored
<1>4. ProcsOK /\ ProcsOK' /\ r \in AllAgents
    BY <1>1, StepTyped, NamesAre DEF TypeInv, ProcsOK
<1>5. ASSUME Arrive(r) \/ TargetMove(r) \/ Crash(r) PROVE agent' = agent /\ blobs' = blobs
    BY <1>5, ArriveFrame, TargetFrame DEF Crash, agentVars
<1>6. proc[r].kind = "update" => \A q \in Requests \ {r} : ~Running(q)
    <2>1. proc[r].kind = "update" => Move(r)
        BY <1>1, <1>4, StepTyped DEF Arrives, ProcsOK, Locals
    <2>. QED
        BY <1>3, <2>1, MoveRuns DEF UpdatesOverlap, Alone
<1>7. ASSUME NEW a \in AllAgents, agent'[a].status # "none"
      PROVE  agent'[a].config \in blobs'
    <2>1. CASE agent'[a] = agent[a]
        <3>1. CASE AgentMove(r)
            BY <1>3, <1>7, <2>1, <3>1, DroppedIs
        <3>2. CASE ~AgentMove(r)
            BY <1>1, <1>3, <1>5, <1>7, <2>1, <3>2 DEF AllStored, Move
        <3>. QED
            BY <3>1, <3>2
    <2>2. CASE InsertAgent(r) /\ agent'[a].config = <<"config", r>>
        BY <1>3, <2>2 DEF InsertAgent, At, AllStored, StoredFor
    <2>3. CASE /\ proc[r].pc = "UpdateAgent" /\ a = proc[r].agent /\ agent[a].status # "none"
               /\ UpdateAgent(r) \/ "unclear" \in failed'
               /\ agent'[a].config = IF proc[r].config THEN <<"config", r>> ELSE proc[r].seen
        <3>1. blobs' = blobs /\ StoredFor(r, proc[r]) /\ agent[a].config \in blobs
            BY <1>2, <1>3, <2>3 DEF UpdateAgent, AllStored
        <3>. QED
            BY <2>3, <3>1 DEF StoredFor
    <2>. QED
        BY <1>1, <2>1, <2>2, <2>3, AgentRows
<1>8. ASSUME NEW q \in Requests, q # r
      PROVE  StoredFor(q, proc[q])'
    <2>1. Same(proc[q], proc'[q]) /\ proc'[q].pc = proc[q].pc /\ StoredFor(q, proc[q])
        BY <1>1, <1>3, <1>8, StepTyped DEF Typed, Still, AllStored
    <2>2. CASE ~Running(q)
        BY <2>1, <2>2 DEF StoredFor, Running, Steps, AgentSteps
    <2>3. CASE Running(q)
        <3>1. proc[r].kind # "update" \/ ~AgentMove(r)
            BY <1>6, <1>8, <2>3
        <3>2. ~DropOld(r) /\ proc[r].pc # "UpdateAgent"
            BY <1>1, <1>4, <1>6, <1>8, <2>3
               DEF DropOld, At, ProcsOK, Locals, AgentLocals, UpdateSteps
        <3>3. <<"config", q>> \in blobs => <<"config", q>> \in blobs'
            <4>1. CASE AgentMove(r)
                BY <1>8, <3>2, <4>1, BlobsMove
            <4>2. CASE ~AgentMove(r)
                BY <1>1, <1>5, <4>2 DEF Move
            <4>. QED
                BY <4>1, <4>2
        <3>4. agent'[q] = agent[q]
            BY <1>1, <1>8, <3>2, AgentRows, NamesAre
        <3>5. proc[q].kind = "update" => agent'[proc[q].agent] = agent[proc[q].agent]
            <4>. SUFFICES ASSUME proc[q].kind = "update"
                 PROVE  agent'[proc[q].agent] = agent[proc[q].agent]
                OBVIOUS
            <4>1. proc[q].agent \in AllAgents /\ agent[proc[q].agent].status # "none"
                BY <1>4 DEF ProcsOK, Locals, AgentLocals, Origins
            <4>2. InsertAgent(r) => agent[r].status = "none"
                BY <1>3 DEF InsertAgent, At, AllStored, StoredFor
            <4>. QED
                BY <1>1, <3>2, <4>1, <4>2, AgentRows
        <3>6. proc[q].pc \in {"PutUpdate", "UpdateAgent", "DropNew", "ReadUpdated", "DropOld"} =>
                proc[q].kind = "update"
            BY <1>4 DEF ProcsOK, Locals, AgentLocals, UpdateSteps
        <3>. QED
            BY <2>1, <3>3, <3>4, <3>5, <3>6 DEF StoredFor, Same
    <2>. QED
        BY <2>2, <2>3
<1>9. StoredFor(r, proc[r])'
    <2>. DEFINE s == proc'[r].pc
                Stages == {"PutAgent", "InsertAgent", "DropAgentBlob", "PutUpdate", "UpdateAgent",
                           "DropNew", "ReadUpdated", "DropOld"}
    <2>1. CASE s \notin Stages
        BY <2>1 DEF StoredFor
    <2>2. CASE s \in Stages /\ Arrive(r)
        <3>1. proc'[r].kind = IF s \in NewAgentSteps THEN "agent" ELSE "update"
            BY <1>4, <2>2 DEF ProcsOK, Locals, AgentLocals, NewAgentSteps, UpdateSteps
        <3>2. agent[r].status = "none"
            BY <1>4, <2>2, StepTyped DEF Arrives, ProcsOK, Locals, Origins
        <3>3. Starts(proc'[r]) /\ agent' = agent
            BY <1>5, <2>2, ArriveStarts
        <3>. QED
            BY <2>2, <3>1, <3>2, <3>3 DEF StoredFor, Starts, NewAgentSteps
    <2>3. ~(s \in Stages /\ (TargetMove(r) \/ Crash(r)))
        <3>1. ASSUME Crash(r) PROVE s = "crashed"
            BY <1>4, <3>1, CrashTypes DEF Goes
        <3>2. s \in Stages => proc'[r].kind \in AgentKinds
            BY <1>4 DEF ProcsOK, Locals, AgentLocals, NewAgentSteps, UpdateSteps, AgentKinds
        <3>3. TargetMove(r) => proc'[r].kind \notin AgentKinds
            BY <1>1, <1>4, StepTyped, TargetKinds DEF Move, Base
        <3>. QED
            BY <3>1, <3>2, <3>3
    <2>4. CASE s \in Stages /\ AgentMove(r)
        <3>0. Same(proc[r], proc'[r]) /\ StoredFor(r, proc[r])
            BY <1>3, <1>4, <2>4, AgentGoes DEF AllStored
        <3>1. CASE PutAgent(r)
            <4>1. s = "InsertAgent" /\ agent' = agent /\ <<"config", r>> \in blobs'
                BY <1>4, <3>1, AgentStepTypes DEF AgentStep, PutAgent, Goes
            <4>. QED
                BY <3>0, <3>1, <4>1 DEF StoredFor, PutAgent, At
        <3>2. CASE PutUpdate(r)
            <4>1. s = "UpdateAgent" /\ agent' = agent /\ <<"config", r>> \in blobs'
                BY <1>4, <3>2, AgentStepTypes DEF AgentStep, PutUpdate, Goes
            <4>. QED
                BY <3>0, <3>2, <4>1 DEF StoredFor, PutUpdate, At, Same
        <3>3. CASE UpdateAgent(r)
            <4>1. s = "ReadUpdated" /\ proc[r].pc = "UpdateAgent"
                BY <1>4, <3>3, AgentStepTypes DEF AgentStep, UpdateAgent, At, Goes
            <4>2. proc[r].agent \in AllAgents /\ agent[proc[r].agent].status # "none"
                BY <1>4, <4>1 DEF ProcsOK, Locals, AgentLocals, UpdateSteps, Origins
            <4>3. agent'[proc[r].agent].config = IF proc[r].config THEN <<"config", r>>
                    ELSE proc[r].seen
                <5>. DEFINE a == proc[r].agent
                            b == IF proc[r].config THEN <<"config", r>> ELSE proc[r].seen
                            x == [agent[a] EXCEPT !.default = proc[r].version, !.config = b]
                <5>1. agent[a] \in AgentType /\ agent' = [agent EXCEPT ![a] = x]
                    BY <3>3, <4>2 DEF UpdateAgent, Updated, TypeInv, AgentTypes
                <5>. HIDE DEF b
                <5>2. x.config = b
                    BY <5>1 DEF AgentType
                <5>3. agent'[a] = x
                    BY <4>2, <5>1 DEF TypeInv, AgentTypes
                <5>. QED
                    BY <5>2, <5>3 DEF b
            <4>. QED
                BY <3>0, <4>1, <4>3 DEF StoredFor, Same
        <3>4. CASE ReadUpdated(r)
            <4>1. s \in {"DropOld", "done"} /\ agent' = agent /\ proc[r].pc = "ReadUpdated"
                BY <1>4, <3>4, AgentStepTypes DEF AgentStep, ReadUpdated, Goes, At, agentVars
            <4>. QED
                BY <3>0, <4>1 DEF StoredFor, Same
        <3>5. CASE FailAgentWrite(r)
            <4>1. agent' = agent
                BY <1>2, <3>5 DEF FailAgentWrite, Record
            <4>2. \/ proc[r].pc = "InsertAgent" /\ s = "DropAgentBlob"
                  \/ proc[r].pc = "UpdateAgent" /\ s = "DropNew"
                BY <1>4, <2>4, <3>5, FailAgentWriteTypes DEF Goes
            <4>. QED
                BY <3>0, <4>1, <4>2 DEF StoredFor, Same
        <3>6. \/ PutAgent(r) \/ PutUpdate(r) \/ UpdateAgent(r) \/ ReadUpdated(r) \/ FailAgentWrite(r)
            <4>1. ASSUME FailAgentRead(r) PROVE s \notin Stages
                BY <1>4, <4>1, FailTypes DEF Goes
            <4>2. ASSUME FailAgentUndo(r) PROVE s \notin Stages
                BY <1>4, <4>2, FailAgentUndoTypes DEF Goes, FailAgentUndo, NextAfterUndo
            <4>3. ASSUME AgentStep(r), ~PutAgent(r), ~PutUpdate(r), ~UpdateAgent(r), ~ReadUpdated(r)
                  PROVE  s \notin Stages
                BY <1>4, <4>3, AgentStepTypes DEF AgentStep, Goes
            <4>. QED
                BY <2>4, <4>1, <4>2, <4>3 DEF AgentMove, AgentFailure
        <3>. QED
            BY <3>1, <3>2, <3>3, <3>4, <3>5, <3>6
    <2>. QED
        BY <1>1, <2>1, <2>2, <2>3, <2>4 DEF Move
<1>. QED
    BY <1>7, <1>8, <1>9 DEF AllStored

-----------------------------------------------------------------------------
(* The objects and parts of versions are whole.                            *)

(* The request of another does not take away the objects of a version.     *)
LEMMA ObjectsStay ==
    ASSUME TypeInv, Origins, NEW r \in Requests, Arrive(r) \/ Move(r),
           NEW v \in AllVersions, v # r, v \in Requests => proc[v].kind = "version"
    PROVE  /\ <<"config", v>> \in blobs => <<"config", v>> \in blobs'
           /\ <<"manifest", v>> \in blobs => <<"manifest", v>> \in blobs'
<1>1. ProcsOK
    BY DEF TypeInv, ProcsOK
<1>2. CASE DropOld(r) /\ blobs' = blobs \ {proc[r].seen}
    <2>1. proc[r].kind = "update" /\ proc[r].agent \in AllAgents
        BY <1>1, <1>2 DEF DropOld, At, ProcsOK, Locals, AgentLocals, UpdateSteps
    <2>2. /\ agent[proc[r].agent].status # "none"
          /\ OfAgent(proc[r].seen, proc[r].agent)
        BY <2>1 DEF Origins
    <2>3. proc[r].agent # v
        <3>1. proc[r].agent \in Requests => proc[proc[r].agent].kind = "agent"
            BY <2>1, <2>2 DEF Origins
        <3>. QED
            BY <2>1, <3>1, RegistryAssumption DEF AllAgents, AllVersions
    <2>4. \A q \in Requests : proc[q].kind = "update" => q # v
        BY DEF AllVersions
    <2>5. proc[r].seen # <<"config", v>> /\ proc[r].seen # <<"manifest", v>>
        BY <2>2, <2>3, <2>4 DEF OfAgent
    <2>. QED
        BY <1>2, <2>5
<1>3. CASE blobs \subseteq blobs'
    BY <1>3
<1>4. CASE blobs' = blobs \ {<<"config", r>>} \/ blobs' = blobs \ {<<"manifest", r>>}
    BY <1>4
<1>5. CASE AgentMove(r)
    BY <1>2, <1>3, <1>4, <1>5, BlobsMove
<1>6. CASE Arrive(r) \/ TargetMove(r) \/ Crash(r)
    BY <1>3, <1>6, ArriveFrame, TargetFrame DEF Crash, agentVars
<1>. QED
    BY <1>5, <1>6 DEF Move

(* A creation of a version that goes on.                                   *)
LEMMA VersionMoves ==
    ASSUME TypeInv, NEW r \in Requests, AgentMove(r), proc[r].kind = "version",
           VersionFor(r, proc[r]), "undo" \notin failed'
    PROVE  VersionFor(r, proc[r])'
<1>1. ProcsOK /\ r \in AllVersions /\ proc[r].pc \in VersionSteps
    <2>1. ProcsOK /\ r \in AllVersions
        BY DEF TypeInv, ProcsOK, AllVersions
    <2>2. proc[r].pc \in NewAgentSteps \union UpdateSteps \union VersionSteps
        BY AgentAt
    <2>. QED
        BY <2>1, <2>2, MoveKinds
<1>2. /\ version \in [AllVersions -> AllAgents \union {None}]
      /\ parts \in [AllVersions -> 0..WholeVersion]
    BY DEF TypeInv, AgentTypes
<1>3. CASE PutConfig(r)
    <2>1. proc'[r].pc = "PutManifest" /\ <<"config", r>> \in blobs'
        BY <1>1, <1>3, AgentStepTypes DEF AgentStep, PutConfig, Goes
    <2>. QED
        BY <2>1 DEF VersionFor, Steps, VersionSteps
<1>4. CASE PutManifest(r)
    <2>1. proc'[r].pc = "InsertVersion" /\ <<"manifest", r>> \in blobs'
        BY <1>1, <1>4, AgentStepTypes DEF AgentStep, PutManifest, Goes
    <2>2. <<"config", r>> \in blobs'
        BY <1>4 DEF PutManifest, At, VersionFor
    <2>. QED
        BY <2>1, <2>2 DEF VersionFor, Steps, VersionSteps
<1>5. CASE InsertVersion(r)
    <2>1. proc'[r].pc = "InsertParts" /\ blobs' = blobs /\ proc[r].pc = "InsertVersion"
        BY <1>1, <1>5, AgentStepTypes DEF AgentStep, InsertVersion, Goes, At
    <2>. QED
        BY <2>1 DEF VersionFor, Steps, VersionSteps
<1>6. CASE InsertParts(r)
    <2>1. /\ blobs' = blobs /\ proc[r].pc = "InsertParts" /\ parts'[r] = parts[r] + 1
          /\ Go(r, IF parts[r] + 1 = WholeVersion THEN "ReadVersion" ELSE "InsertParts")
        BY <1>1, <1>2, <1>6 DEF InsertParts, At
    <2>2. proc'[r].pc = IF parts'[r] = WholeVersion THEN "ReadVersion" ELSE "InsertParts"
        <3>. DEFINE s == IF parts[r] + 1 = WholeVersion THEN "ReadVersion" ELSE "InsertParts"
        <3>1. s \in Pcs
            BY DEF Pcs, Steps, VersionSteps
        <3>2. Go(r, s)
            BY <2>1
        <3>. HIDE DEF s
        <3>3. proc'[r].pc = s
            BY <1>1, <3>1, <3>2, GoIs DEF ProcsOK, Goes
        <3>. QED
            BY <2>1, <3>3 DEF s
    <2>3. <<"config", r>> \in blobs' /\ <<"manifest", r>> \in blobs'
        BY <2>1 DEF VersionFor
    <2>4. parts'[r] = WholeVersion => Whole(r)'
        BY <2>3 DEF Whole
    <2>. QED
        BY <2>2, <2>3, <2>4 DEF VersionFor, Steps, VersionSteps
<1>7. CASE ReadVersion(r)
    <2>1. proc'[r].pc = "done" /\ blobs' = blobs /\ parts' = parts /\ proc[r].pc = "ReadVersion"
        BY <1>1, <1>7, AgentStepTypes DEF AgentStep, ReadVersion, Goes, At, agentVars
    <2>2. Whole(r)'
        BY <2>1 DEF VersionFor, Whole
    <2>. QED
        BY <2>1, <2>2 DEF VersionFor
<1>8. CASE UndoParts(r)
    <2>1. proc'[r].pc = "UndoVersion"
        BY <1>1, <1>8, AgentStepTypes DEF AgentStep, Goes
    <2>. QED
        BY <2>1 DEF VersionFor, Steps, VersionSteps
<1>9. CASE UndoVersion(r)
    <2>1. proc'[r].pc = "UndoConfig" /\ version'[r] = None
        BY <1>1, <1>2, <1>9, AgentStepTypes DEF AgentStep, UndoVersion, Goes
    <2>. QED
        BY <2>1 DEF VersionFor, Steps, VersionSteps
<1>10. CASE UndoConfig(r)
    <2>1. proc'[r].pc = "UndoManifest" /\ version' = version /\ proc[r].pc = "UndoConfig"
        BY <1>1, <1>10, AgentStepTypes DEF AgentStep, UndoConfig, Goes, At
    <2>. QED
        BY <2>1 DEF VersionFor, Steps, VersionSteps
<1>11. CASE UndoManifest(r)
    <2>1. proc'[r].pc = "refused" /\ version' = version /\ proc[r].pc = "UndoManifest"
        BY <1>1, <1>11, AgentStepTypes DEF AgentStep, UndoManifest, Goes, At
    <2>. QED
        BY <2>1 DEF VersionFor
<1>12. CASE FailAgentWrite(r)
    <2>1. proc'[r].pc = "UndoParts"
        BY <1>1, <1>12, FailAgentWriteTypes DEF Goes, VersionSteps
    <2>. QED
        BY <2>1 DEF VersionFor, Steps, VersionSteps
<1>13. CASE FailAgentRead(r)
    <2>1. /\ proc'[r].pc = "refused" /\ UNCHANGED agentVars
          /\ proc[r].pc \in {"PutConfig", "PutManifest", "ReadVersion"}
        BY <1>1, <1>13, FailTypes DEF Goes, FailAgentRead, VersionSteps
    <2>2. proc[r].pc # "ReadVersion" => version[r] = None
        BY <2>1 DEF TypeInv, VersionRows, Fresh
    <2>3. proc[r].pc = "ReadVersion" => Whole(r)
        BY DEF VersionFor
    <2>4. version'[r] = None \/ Whole(r)'
        BY <2>1, <2>2, <2>3 DEF Whole, agentVars
    <2>. QED
        BY <2>1, <2>4 DEF VersionFor
<1>14. ~FailAgentUndo(r)
    BY DEF FailAgentUndo, Record
<1>15. AgentStep(r) =>
         \/ PutConfig(r) \/ PutManifest(r) \/ InsertVersion(r) \/ InsertParts(r) \/ ReadVersion(r)
         \/ UndoParts(r) \/ UndoVersion(r) \/ UndoConfig(r) \/ UndoManifest(r)
    BY <1>1 DEF AgentStep, PutAgent, InsertAgent, ReadAgent, PutUpdate, UpdateAgent, ReadUpdated,
                DropOld, DropAgentBlob, DropNew, DropBlob, At, VersionSteps
<1>. QED
    BY <1>3, <1>4, <1>5, <1>6, <1>7, <1>8, <1>9, <1>10, <1>11, <1>12, <1>13, <1>14, <1>15
       DEF AgentMove, AgentFailure

LEMMA VersionsWholeKept ==
    ASSUME TypeInv, Origins, VersionsWhole, Next
    PROVE  VersionsWhole'
<1>1. PICK r \in Requests : Arrive(r) \/ Move(r)
    BY NextIs
<1>2. SUFFICES ASSUME Unfailing' PROVE AllWhole'
    BY DEF VersionsWhole
<1>3. AllWhole /\ "undo" \notin failed' /\ "crash" \notin failed'
    BY <1>1, <1>2, FailedGrows DEF VersionsWhole, Unfailing
<1>4. ProcsOK
    BY DEF TypeInv, ProcsOK
<1>5. ASSUME NEW v \in Versions PROVE Whole(v)'
    <2>1. v \in AllVersions /\ v # r /\ v \notin Requests /\ Whole(v)
        BY <1>3, RegistryAssumption DEF AllVersions, AllWhole
    <2>. QED
        BY <1>1, <2>1, ObjectsStay, OthersVersions DEF Whole
<1>6. ASSUME NEW q \in Requests, proc'[q].kind = "version"
      PROVE  VersionFor(q, proc[q])'
    <2>1. CASE q # r
        <3>1. proc[q].kind = "version" /\ proc'[q].pc = proc[q].pc /\ q \in AllVersions
            BY <1>1, <1>6, <2>1, StepTyped DEF Typed, Still, Same, AllVersions
        <3>2. VersionFor(q, proc[q])
            BY <1>3, <3>1 DEF AllWhole
        <3>3. /\ <<"config", q>> \in blobs => <<"config", q>> \in blobs'
              /\ <<"manifest", q>> \in blobs => <<"manifest", q>> \in blobs'
              /\ version'[q] = version[q] /\ parts'[q] = parts[q]
            BY <1>1, <2>1, <3>1, ObjectsStay, OthersVersions
        <3>. QED
            BY <3>1, <3>2, <3>3 DEF VersionFor, Whole
    <2>2. CASE q = r /\ Arrive(r)
        <3>1. proc'[r].pc = "PutConfig"
            BY <1>6, <2>2, ArriveStarts DEF Starts
        <3>. QED
            BY <2>2, <3>1 DEF VersionFor, Steps, VersionSteps
    <2>3. CASE q = r /\ Move(r)
        <3>1. proc[r].kind = "version"
            BY <1>1, <1>6, <2>3, StepTyped DEF Base
        <3>2. AgentMove(r)
            <4>1. ~Crash(r)
                BY <1>3 DEF Crash, Record
            <4>. QED
                BY <1>4, <2>3, <3>1, <4>1, TargetKinds DEF Move, AgentKinds
        <3>3. VersionFor(r, proc[r])
            BY <1>3, <3>1 DEF AllWhole
        <3>. QED
            BY <1>3, <2>3, <3>1, <3>2, <3>3, VersionMoves
    <2>. QED
        BY <1>1, <2>1, <2>2, <2>3
<1>. QED
    BY <1>5, <1>6 DEF AllWhole

-----------------------------------------------------------------------------
(* The invariant.                                                          *)

LEMMA InitIdle ==
    ASSUME Init, NEW r \in Requests
    PROVE  /\ proc[r].pc = "idle" /\ proc[r].kind = "drop" /\ ~proc[r].config /\ ~proc[r].fallback
           /\ ~Running(r)
<1>1. proc[r] = IdleProc
    BY DEF Init
<1>2. /\ IdleProc.pc = "idle" /\ IdleProc.kind = "drop"
      /\ ~IdleProc.config /\ ~IdleProc.fallback
    BY DEF IdleProc
<1>. QED
    BY <1>1, <1>2 DEF Running, Steps, DeploymentSteps, BindingSteps, ResolveSteps, AgentSteps,
                      VersionSteps

LEMMA InitHolds ==
    ASSUME Init
    PROVE  RegistryInv
<1>1. TypeInv
    BY InitTypes
<1>2. BindInv
    BY InitIdle DEF BindInv, BindOK
<1>3. DeployInv
    <2>1. ASSUME NEW r \in Requests PROVE deployment[r].status = "none"
        BY NamesAre, RegistryAssumption DEF Init, NoDeployment
    <2>. QED
        BY <2>1, InitIdle DEF DeployInv, DeployOK, Creations
<1>4. FitInv
    BY InitIdle DEF FitInv, FitOK, Fits, FoundOut, ServedSteps
<1>5. Origins
    <2>1. ASSUME NEW a \in AllAgents, agent[a].status # "none"
          PROVE  a \in Agents /\ agent[a].config = <<"config", a>>
        BY <2>1 DEF Init, NoAgent
    <2>2. Agents \intersect Requests = {}
        BY RegistryAssumption
    <2>. QED
        BY <2>1, <2>2, InitIdle DEF Origins, OfAgent
<1>6. Alone
    BY InitIdle DEF Alone
<1>7. Stored
    <2>1. ASSUME NEW a \in AllAgents, agent[a].status # "none"
          PROVE  agent[a].config \in blobs
        BY <2>1 DEF Init, NoAgent
    <2>2. ASSUME NEW r \in Requests PROVE StoredFor(r, proc[r])
        BY InitIdle DEF StoredFor
    <2>. QED
        BY <2>1, <2>2 DEF Stored, AllStored
<1>8. VersionsWhole
    <2>1. ASSUME NEW v \in Versions PROVE Whole(v)
        BY DEF Init, Whole, AllVersions
    <2>2. ASSUME NEW r \in Requests PROVE proc[r].kind # "version"
        BY InitIdle
    <2>. QED
        BY <2>1, <2>2 DEF VersionsWhole, AllWhole
<1>. QED
    BY <1>1, <1>2, <1>3, <1>4, <1>5, <1>6, <1>7, <1>8 DEF RegistryInv

LEMMA RegistryKept ==
    ASSUME RegistryInv, [Next]_vars
    PROVE  RegistryInv'
<1>1. CASE Next
    BY <1>1, TypeInvKept, BindInvKept, DeployInvKept, FitInvKept, OriginsKept, AloneKept, StoredKept,
       VersionsWholeKept DEF RegistryInv
<1>2. CASE UNCHANGED vars
    <2>1. UNCHANGED <<agent, version, parts, blobs, mailbox, binding, deployment>>
          /\ UNCHANGED <<workload, failed, faults, proc>>
        BY <1>2 DEF vars, agentVars, targetVars, historyVars
    <2>2. TypeInv'
        BY <2>1 DEF RegistryInv, TypeInv, AgentTypes, BindingTypes, DeploymentTypes, HistoryTypes,
                    VersionRows
    <2>3. BindInv' /\ DeployInv'
        BY <2>1 DEF RegistryInv, BindInv, BindOK, DeployInv, DeployOK, HasBinding, RoleOf, Known
    <2>4. FitInv'
        BY <2>1 DEF RegistryInv, FitInv, FitOK, Fits, FoundOut, HasBinding, HasRole, RoleOf
    <2>5. Origins' /\ Alone'
        BY <2>1 DEF RegistryInv, Origins, OfAgent, Alone, Running
    <2>6. Stored'
        BY <2>1 DEF RegistryInv, Stored, AllStored, StoredFor, UpdatesOverlap
    <2>7. VersionsWhole'
        BY <2>1 DEF RegistryInv, VersionsWhole, AllWhole, VersionFor, Whole, Unfailing
    <2>. QED
        BY <2>2, <2>3, <2>4, <2>5, <2>6, <2>7 DEF RegistryInv
<1>. QED
    BY <1>1, <1>2

LEMMA RegistryHolds == Spec => []RegistryInv
<1>1. Init => RegistryInv
    BY InitHolds
<1>2. RegistryInv /\ [Next]_vars => RegistryInv'
    BY RegistryKept
<1>. QED
    BY <1>1, <1>2, PTL DEF Spec

(* Mail is not handed to an agent that lacked the role for it when its     *)
(* resolution began, and an agent that had it is neither passed over nor   *)
(* denied its mailbox, whatever is deployed or bound meanwhile             *)
(* (resolveAgentExecutionTarget, canAgentSendForMailbox).                  *)
THEOREM AgentsFit == Spec => []FittingAgents
<1>1. RegistryInv => FittingAgents
    BY DEF RegistryInv, FitInv, FitOK, FoundOut, FittingAgents
<1>. QED
    BY <1>1, RegistryHolds, PTL

(* The mailbox of an answered binding, and that of an answered deployment  *)
(* whose version is there, exists: a deletion in between makes the request *)
(* withdraw its row (deleteMailboxIfUnreferenced, createAgentDeployment,   *)
(* bindMailbox).                                                           *)
THEOREM AnswersStand == Spec => []AnsweredRowsStand
<1>1. RegistryInv => AnsweredRowsStand
    <2>. SUFFICES ASSUME RegistryInv, NEW r \in Requests, proc[r].pc = "done"
         PROVE  /\ proc[r].kind = "bind" => HasBinding(proc[r].agent, proc[r].target)
                /\ (/\ proc[r].kind \in {"deploy", "rollout"} /\ deployment[r].status # "none"
                    /\ version[deployment[r].version] = deployment[r].agent)
                     => deployment[r].target \in mailbox
        BY DEF AnsweredRowsStand
    <2>1. BindOK(r) /\ DeployOK(r)
        BY DEF RegistryInv, BindInv, DeployInv
    <2>. QED
        BY <2>1 DEF BindOK, DeployOK, Creations
<1>. QED
    BY <1>1, RegistryHolds, PTL

(* The configuration an agent names is stored while changes of it do not   *)
(* overlap, and at rest a version that has a row is whole (updateAgent,    *)
(* createAgentVersion).                                                    *)
THEOREM ObjectsStored == Spec => []ArtifactsStored
<1>1. RegistryInv => ArtifactsStored
    <2>. SUFFICES ASSUME RegistryInv PROVE ArtifactsStored
        OBVIOUS
    <2>1. ~UpdatesOverlap /\ "unclear" \notin failed =>
            \A a \in AllAgents : agent[a].status # "none" => agent[a].config \in blobs
        BY DEF RegistryInv, Stored, AllStored
    <2>2. ASSUME AtRest, Unfailing, NEW v \in AllVersions, version[v] # None
          PROVE  Whole(v)
        <3>1. AllWhole /\ VersionRows
            BY <2>2 DEF RegistryInv, VersionsWhole, TypeInv
        <3>2. CASE v \in Versions
            BY <3>1, <3>2 DEF AllWhole
        <3>3. CASE v \in Requests
            <4>1. proc[v].kind = "version" /\ proc[v].pc \notin Steps
                BY <2>2, <3>1, <3>3 DEF VersionRows, Fresh, AtRest, Running
            <4>. QED
                BY <2>2, <3>1, <3>3, <4>1 DEF AllWhole, VersionFor
        <3>. QED
            BY <3>2, <3>3 DEF AllVersions
    <2>. QED
        BY <2>1, <2>2, Zenon DEF ArtifactsStored, Whole
<1>. QED
    BY <1>1, RegistryHolds, PTL

-----------------------------------------------------------------------------
(* One active deployment on a mailbox: the unique index keeps it so.       *)

ActiveIn(x, t) == {d \in Deployments : x[d].status = "active" /\ x[d].target = t}
OneActive ==
    \A d, e \in Deployments :
      /\ deployment[d].status = "active" /\ deployment[e].status = "active"
      /\ deployment[d].target = deployment[e].target
      => d = e

LEMMA OneActiveKept ==
    ASSUME TypeInv, OneActive, NEW r \in Requests, Arrive(r) \/ Move(r)
    PROVE  OneActive'
<1>1. ProcsOK /\ deployment \in [Deployments -> RowType] /\ r \in Deployments
    BY NamesAre DEF TypeInv, ProcsOK, DeploymentTypes
<1>2. CASE deployment' = deployment
    BY <1>2 DEF OneActive
<1>3. ASSUME NEW d \in Deployments, deployment' = [deployment EXCEPT ![d] = NoDeployment]
      PROVE  OneActive'
    <2>1. \A e \in Deployments : deployment'[e].status = "active" => deployment'[e] = deployment[e]
        BY <1>1, <1>3 DEF NoDeployment
    <2>. QED
        BY <2>1 DEF OneActive
<1>4. ASSUME CanInsert(r), deployment' = [deployment EXCEPT ![r] = Row(r)]
      PROVE  OneActive'
    <2>1. \A e \in Deployments \ {r} : deployment'[e] = deployment[e]
        BY <1>1, <1>4
    <2>2. /\ deployment'[r].status = proc[r].status /\ deployment'[r].target = proc[r].target
        BY <1>1, <1>4 DEF Row
    <2>3. proc[r].status = "active" => ActiveOn(proc[r].target) \subseteq {r}
        BY <1>4 DEF CanInsert, MayBeActive
    <2>. QED
        BY <1>1, <2>1, <2>2, <2>3 DEF OneActive, ActiveOn
<1>5. ASSUME NEW d, NEW s, Sets(d, s)
      PROVE  OneActive'
    <2>1. d \in Deployments /\ (s = "active" => ActiveOn(deployment[d].target) \subseteq {d})
        BY <1>5 DEF Sets, CanSet, MayBeActive
    <2>2. /\ \A e \in Deployments \ {d} : deployment'[e] = deployment[e]
          /\ deployment'[d].status = s /\ deployment'[d].target = deployment[d].target
        BY <1>1, <1>5, <2>1 DEF Sets, SetStatus, RowType
    <2>. QED
        BY <2>1, <2>2 DEF OneActive, ActiveOn
<1>6. CASE TargetMove(r)
    BY <1>1, <1>2, <1>3, <1>4, <1>5, <1>6, DeploymentsMove
<1>7. CASE Arrive(r) \/ AgentMove(r) \/ Crash(r)
    BY <1>2, <1>7, ArriveFrame, AgentFrame DEF targetVars
<1>. QED
    BY <1>6, <1>7 DEF Move

-----------------------------------------------------------------------------
(* The status writes of a switch.  Deployment o is the one it replaces.    *)

On(d) == <<d, "active">>
Off(d) == <<d, "paused">>
Over(d) == <<d, "rolled_back">>

(* What may be left to write before the request's own is active.           *)
ToGo(d, o) ==
    IF o = None THEN {<<On(d)>>, <<Off(d), On(d)>>}
    ELSE {<<Off(o), On(d), Over(o)>>, <<On(d), Over(o)>>,
          <<Off(d), Off(o), On(d)>>, <<Off(o), On(d)>>, <<On(d)>>}

LEMMA JoinsAre ==
    ASSUME NEW E, NEW a \in E, NEW b \in E, NEW c \in E
    PROVE  /\ <<a>> \o <<b>> = <<a, b>>
           /\ <<a, b>> \o <<c>> = <<a, b, c>>
           /\ <<>> \o <<a>> = <<a>> /\ <<a>> \o <<>> = <<a>>
<1>0. <<a>> \in Seq(E) /\ <<b>> \in Seq(E) /\ <<c>> \in Seq(E)
    OBVIOUS
<1>1. <<a>> \o <<b>> = <<a, b>>
    <2>. DEFINE x == <<a>> \o <<b>>
                y == [i \in 1..2 |-> IF i = 1 THEN a ELSE b]
    <2>1. x \in Seq(E) /\ Len(x) = 2 /\ x[1] = a /\ x[2] = b
        OBVIOUS
    <2>3. <<a, b>> = y
        OBVIOUS
    <2>5. \A i \in 1..2 : y[i] = IF i = 1 THEN a ELSE b
        OBVIOUS
    <2>6. DOMAIN y = 1..2 /\ y = [i \in 1..2 |-> y[i]]
        OBVIOUS
    <2>. HIDE DEF x, y
    <2>2. x = [i \in 1..2 |-> x[i]]
        BY <2>1
    <2>4. \A i \in 1..2 : x[i] = y[i]
        BY <2>1, <2>5
    <2>7. x = y
        BY <2>2, <2>4, <2>6
    <2>. QED
        BY <2>3, <2>7 DEF x
<1>2. <<a, b>> \o <<c>> = <<a, b, c>>
    <2>. DEFINE x == <<a, b>> \o <<c>>
                y == [i \in 1..3 |-> IF i = 1 THEN a ELSE IF i = 2 THEN b ELSE c]
    <2>1. x \in Seq(E) /\ Len(x) = 3 /\ x[1] = a /\ x[2] = b /\ x[3] = c
        OBVIOUS
    <2>3. <<a, b, c>> = y
        OBVIOUS
    <2>5. \A i \in 1..3 : y[i] = IF i = 1 THEN a ELSE IF i = 2 THEN b ELSE c
        OBVIOUS
    <2>6. DOMAIN y = 1..3 /\ y = [i \in 1..3 |-> y[i]]
        OBVIOUS
    <2>. HIDE DEF x, y
    <2>2. x = [i \in 1..3 |-> x[i]]
        BY <2>1
    <2>4. \A i \in 1..3 : x[i] = y[i]
        BY <2>1, <2>5
    <2>7. x = y
        BY <2>2, <2>4, <2>6
    <2>. QED
        BY <2>3, <2>7 DEF x
<1>4. <<>> \o <<a>> = <<a>>
    OBVIOUS
<1>5. <<a>> \o <<>> = <<a>>
    OBVIOUS
<1>. QED
    BY <1>1, <1>2, <1>4, <1>5

LEMMA EndsAre ==
    ASSUME NEW E, NEW a \in E, NEW b \in E, NEW c \in E
    PROVE  /\ Head(<<a>>) = a /\ Len(<<a>>) = 1
           /\ Head(<<a, b>>) = a /\ Len(<<a, b>>) = 2 /\ Tail(<<a, b>>) = <<b>>
           /\ Head(<<a, b, c>>) = a /\ Len(<<a, b, c>>) = 3 /\ Tail(<<a, b, c>>) = <<b, c>>
<1>1. Head(<<a>>) = a /\ Len(<<a>>) = 1
    OBVIOUS
<1>2. Head(<<a, b>>) = a /\ Len(<<a, b>>) = 2
    OBVIOUS
<1>3. Tail(<<a, b>>) = <<b>>
    OBVIOUS
<1>4. Head(<<a, b, c>>) = a /\ Len(<<a, b, c>>) = 3
    OBVIOUS
<1>5. Tail(<<a, b, c>>) = <<b, c>>
    OBVIOUS
<1>. QED
    BY <1>1, <1>2, <1>3, <1>4, <1>5

LEMMA ListsAre ==
    ASSUME NEW d \in Deployments, NEW o \in Deployments \union {None}, NEW s \in DeploymentStatus
    PROVE  /\ Switch(d, o) \in ToGo(d, o) /\ Activate(d, o) \in ToGo(d, o)
           /\ Snapshots(d, s, o) = IF o = None THEN <<<<d, s>>>> ELSE <<<<d, s>>, On(o)>>
<1>. DEFINE E == Deployments \X DeploymentStatus
<1>0. On(d) \in E /\ Off(d) \in E /\ Over(d) \in E /\ <<d, s>> \in E
    BY DEF On, Off, Over, DeploymentStatus
<1>1. CASE o = None
    <2>1. Switch(d, o) = <<On(d)>>
        BY <1>0, <1>1, JoinsAre DEF Switch, Each, On
    <2>2. Activate(d, o) = <<Off(d), On(d)>>
        BY <1>0, <1>1, JoinsAre DEF Activate, Each, On, Off
    <2>3. Snapshots(d, s, o) = <<<<d, s>>>>
        BY <1>0, <1>1, JoinsAre DEF Snapshots, Each
    <2>. QED
        BY <1>1, <2>1, <2>2, <2>3 DEF ToGo
<1>2. CASE o # None
    <2>0. On(o) \in E /\ Off(o) \in E /\ Over(o) \in E
        BY <1>2 DEF On, Off, Over, DeploymentStatus
    <2>1. Switch(d, o) = <<Off(o), On(d), Over(o)>>
        <3>1. Switch(d, o) = <<Off(o)>> \o <<On(d)>> \o <<Over(o)>>
            BY <1>2 DEF Switch, Each, On, Off, Over
        <3>. HIDE DEF E
        <3>. QED
            BY <1>0, <2>0, <3>1, JoinsAre
    <2>2. Activate(d, o) = <<Off(d), Off(o), On(d)>>
        <3>1. Activate(d, o) = <<Off(d)>> \o <<Off(o)>> \o <<On(d)>>
            BY <1>2 DEF Activate, Each, On, Off
        <3>. HIDE DEF E
        <3>. QED
            BY <1>0, <2>0, <3>1, JoinsAre
    <2>3. Snapshots(d, s, o) = <<<<d, s>>, On(o)>>
        <3>1. Snapshots(d, s, o) = <<<<d, s>>>> \o <<On(o)>>
            BY <1>2 DEF Snapshots, Each, On
        <3>. HIDE DEF E
        <3>. QED
            BY <1>0, <2>0, <3>1, JoinsAre
    <2>. QED
        BY <1>2, <2>1, <2>2, <2>3 DEF ToGo
<1>. QED
    BY <1>1, <1>2

LEMMA ToGoHead ==
    ASSUME NEW d \in Deployments, NEW o \in Deployments \union {None}, NEW l \in ToGo(d, o)
    PROVE  LET w == Head(l) IN
           \/ /\ w[1] \in {d, o} /\ w[1] # None /\ w[2] = "paused"
              /\ Len(l) # 1 /\ Tail(l) \in ToGo(d, o)
           \/ /\ w[1] = d /\ w[2] = "active"
              /\ Len(l) # 1 => o # None /\ Tail(l) = <<Over(o)>>
<1>0. d # None
    BY NamesAre
<1>. DEFINE E == Deployments \X DeploymentStatus
            w == Head(l)
<1>1. On(d) \in E /\ Off(d) \in E /\ Over(d) \in E
    BY DEF On, Off, Over, DeploymentStatus
<1>2. o # None => On(o) \in E /\ Off(o) \in E /\ Over(o) \in E
    BY DEF On, Off, Over, DeploymentStatus
<1>3. /\ On(d)[1] = d /\ On(d)[2] = "active" /\ Off(d)[1] = d /\ Off(d)[2] = "paused"
      /\ Off(o)[1] = o /\ Off(o)[2] = "paused"
    BY DEF On, Off
<1>. HIDE DEF E
<1>4. CASE l = <<On(d)>>
    BY <1>1, <1>3, <1>4, EndsAre
<1>5. CASE l = <<Off(d), On(d)>> /\ o = None
    <2>1. w = Off(d) /\ Len(l) = 2 /\ Tail(l) = <<On(d)>>
        BY <1>1, <1>5, EndsAre
    <2>. QED
        BY <1>0, <1>3, <1>5, <2>1 DEF ToGo
<1>6. CASE l = <<Off(o), On(d), Over(o)>> /\ o # None
    <2>1. w = Off(o) /\ Len(l) = 3 /\ Tail(l) = <<On(d), Over(o)>>
        BY <1>1, <1>2, <1>6, EndsAre
    <2>. QED
        BY <1>3, <1>6, <2>1 DEF ToGo
<1>7. CASE l = <<On(d), Over(o)>> /\ o # None
    <2>1. w = On(d) /\ Len(l) = 2 /\ Tail(l) = <<Over(o)>>
        BY <1>1, <1>2, <1>7, EndsAre
    <2>. QED
        BY <1>3, <1>7, <2>1
<1>8. CASE l = <<Off(d), Off(o), On(d)>> /\ o # None
    <2>1. w = Off(d) /\ Len(l) = 3 /\ Tail(l) = <<Off(o), On(d)>>
        BY <1>1, <1>2, <1>8, EndsAre
    <2>. QED
        BY <1>0, <1>3, <1>8, <2>1 DEF ToGo
<1>9. CASE l = <<Off(o), On(d)>> /\ o # None
    <2>1. w = Off(o) /\ Len(l) = 2 /\ Tail(l) = <<On(d)>>
        BY <1>1, <1>2, <1>9, EndsAre
    <2>. QED
        BY <1>3, <1>9, <2>1 DEF ToGo
<1>. QED
    BY <1>4, <1>5, <1>6, <1>7, <1>8, <1>9 DEF ToGo

-----------------------------------------------------------------------------
(* A switch that runs alone, over rows x.                                  *)

Real(row) ==
    row.status # "none" /\ version[row.version] = row.agent /\ row.target \in mailbox
Untouched(x, r, p, s) == \A e \in Deployments \ ({r} \union s) : x[e].status = p.before[e]

(* Its own deployment, and the one it replaces.                            *)
Own(x, r, p) ==
    /\ p.d \in Deployments /\ Real(x[p.d]) /\ x[p.d].target = p.target
    /\ p.d # r => p.before[p.d] = p.status
Other(x, r, p, o) ==
    /\ o \in Deployments \union {None}
    /\ p.status = "active" => o = None /\ ActiveIn(x, p.target) \subseteq {p.d}
    /\ o # None =>
         /\ o \notin {r, p.d} /\ Real(x[o]) /\ x[o].target = p.target /\ p.before[o] = "active"
         /\ ActiveIn(x, p.target) \subseteq {p.d, o}
Goal(x, p) == ActiveIn(x, p.target) = {p.d}
Changed(x, r, p) == p.kind = "status" /\ p.d \in Deployments /\ Untouched(x, r, p, {p.d})

Switching(x, r, p, o) ==
    /\ p.restores /\ p.undo = Snapshots(p.d, p.status, o) /\ p.status \in Settable
    /\ Other(x, r, p, o) /\ Untouched(x, r, p, {p.d, o})
ToRestore(x, r, p, o) ==
    /\ o # None /\ p.undo = <<On(o)>>
    /\ Other(x, r, p, o) /\ Untouched(x, r, p, {o}) /\ ActiveIn(x, p.target) \subseteq {o}
NewRow(r, p) ==
    /\ p.kind = "rollout" /\ p.d = r /\ p.restores /\ p.status = "paused"
    /\ version[p.version] = p.agent /\ p.target \in mailbox

SwitchOK(x, r, p) ==
    /\ p.pc \in {"List", "Insert", "Check", "Write", "Restore", "ReadBack", "refused", "done",
                 "crashed"}
    /\ p.pc = "List" => p.restores /\ Untouched(x, r, p, {}) /\ p.status \in Settable
    /\ p.pc = "List" /\ p.kind # "rollout" => p.d # r /\ Own(x, r, p) /\ x[p.d].status = p.status
    /\ p.pc = "List" /\ p.kind = "rollout" => NewRow(r, p)
    /\ p.pc = "Insert" => NewRow(r, p)
    /\ p.pc = "Check" => p.kind = "rollout" /\ p.d = r
    /\ p.pc \in {"Check", "Write", "Restore", "ReadBack"} => Own(x, r, p)
    /\ p.pc \in {"Insert", "Check"} =>
         Untouched(x, r, p, {}) /\ \E o : Switching(x, r, p, o) /\ p.todo \in ToGo(p.d, o)
    /\ p.pc = "Write" /\ p.restores =>
         \E o : /\ Switching(x, r, p, o)
                /\ p.todo \in ToGo(p.d, o) \/ (o # None /\ p.todo = <<Over(o)>> /\ Goal(x, p))
    /\ p.pc = "Write" /\ ~p.restores =>
         Changed(x, r, p) /\ \E s \in Settable : p.todo = <<<<p.d, s>>>>
    /\ p.pc = "Restore" => \E o : Switching(x, r, p, o) \/ ToRestore(x, r, p, o)
    /\ p.pc = "ReadBack" => Goal(x, p) \/ Changed(x, r, p)
    /\ p.pc = "done" => Goal(x, p) \/ Changed(x, r, p)
    /\ p.pc = "refused" => Untouched(x, r, p, {}) \/ Goal(x, p) \/ Changed(x, r, p)

(* The locals these facts are about.                                       *)
Like(p, x) ==
    /\ x.kind = p.kind /\ x.version = p.version /\ x.agent = p.agent /\ x.target = p.target
    /\ x.d = p.d /\ x.status = p.status /\ x.restores = p.restores /\ x.before = p.before

LEMMA LikeFacts ==
    ASSUME NEW x, NEW r, NEW p, NEW q, Like(p, q)
    PROVE  /\ \A s : Untouched(x, r, p, s) = Untouched(x, r, q, s)
           /\ Own(x, r, p) = Own(x, r, q) /\ \A o : Other(x, r, p, o) = Other(x, r, q, o)
           /\ Goal(x, p) = Goal(x, q) /\ Changed(x, r, p) = Changed(x, r, q)
           /\ NewRow(r, p) = NewRow(r, q)
           /\ q.undo = p.undo => \A o : /\ Switching(x, r, p, o) = Switching(x, r, q, o)
                                        /\ ToRestore(x, r, p, o) = ToRestore(x, r, q, o)
BY DEF Like, Untouched, Own, Other, Goal, Changed, NewRow, Switching, ToRestore

(* A status write of the request's own deployment or of the other.         *)
Written(x, e, s) == [x EXCEPT ![e].status = s]

LEMMA WrittenIs ==
    ASSUME NEW x \in [Deployments -> RowType], NEW e \in Deployments, NEW s \in DeploymentStatus
    PROVE  LET y == Written(x, e, s) IN
           /\ \A f \in Deployments \ {e} : y[f] = x[f]
           /\ y[e].status = s /\ y[e].target = x[e].target
           /\ s # "none" /\ Real(x[e]) => Real(y[e])
           /\ s = "active" => ActiveIn(y, x[e].target) \subseteq ActiveIn(x, x[e].target) \union {e}
           /\ s = "active" /\ x[e].target \in Mailboxes => e \in ActiveIn(y, x[e].target)
           /\ s # "active" => \A t : ActiveIn(y, t) = ActiveIn(x, t) \ {e}
BY DEF Written, RowType, Real, ActiveIn

LEMMA SetsIs ==
    ASSUME NEW e, NEW s, Sets(e, s)
    PROVE  /\ e \in Deployments /\ s \in DeploymentStatus /\ Real(deployment[e])
           /\ deployment' = Written(deployment, e, s)
           /\ s = "active" => ActiveIn(deployment, deployment[e].target) \subseteq {e}
BY DEF Sets, CanSet, Valid, MayBeActive, SetStatus, Real, Written, ActiveOn, ActiveIn

(* The statuses of the two deployments may be written while a switch is on *)
(* its way ...                                                             *)
LEMMA SwitchGoesOn ==
    ASSUME NEW x \in [Deployments -> RowType], NEW r, NEW p, NEW o,
           Own(x, r, p), Switching(x, r, p, o),
           NEW e \in {p.d, o}, e # None, NEW s \in DeploymentStatus \ {"none"},
           s = "active" => ActiveIn(x, p.target) \subseteq {e}
    PROVE  LET y == Written(x, e, s) IN
           /\ Own(y, r, p) /\ Switching(y, r, p, o)
           /\ e = p.d /\ s = "active" => Goal(y, p)
           /\ e = o /\ s # "active" /\ Goal(x, p) => Goal(y, p)
<1>. DEFINE y == Written(x, e, s)
            t == p.target
<1>0. /\ p.d \in Deployments /\ Real(x[p.d]) /\ x[p.d].target = t
      /\ Other(x, r, p, o) /\ Untouched(x, r, p, {p.d, o}) /\ p.d # None
    BY NamesAre DEF Own, Switching
<1>1. e \in Deployments /\ x[e].target = t /\ Real(x[e])
    BY <1>0 DEF Other
<1>2. /\ \A f \in Deployments \ {e} : y[f] = x[f]
      /\ y[e].status = s /\ y[e].target = t /\ Real(y[e])
    BY <1>1, WrittenIs
<1>3. /\ s = "active" => ActiveIn(y, t) \subseteq {e}
      /\ s # "active" => ActiveIn(y, t) = ActiveIn(x, t) \ {e}
    BY <1>1, WrittenIs
<1>. HIDE DEF y
<1>4. Own(y, r, p)
    BY <1>0, <1>1, <1>2 DEF Own
<1>5. Untouched(y, r, p, {p.d, o})
    BY <1>0, <1>2 DEF Untouched
<1>6. Other(y, r, p, o)
    <2>1. p.status = "active" => o = None /\ ActiveIn(y, t) \subseteq {p.d}
        BY <1>0, <1>3 DEF Other
    <2>2. o # None => ActiveIn(y, t) \subseteq {p.d, o}
        BY <1>0, <1>3 DEF Other
    <2>3. o # None => Real(y[o]) /\ y[o].target = t
        BY <1>0, <1>2 DEF Other
    <2>. QED
        BY <1>0, <2>1, <2>2, <2>3 DEF Other
<1>7. e = p.d /\ s = "active" => Goal(y, p)
    BY <1>1, <1>2, <1>3 DEF Goal, ActiveIn
<1>8. e = o /\ s # "active" /\ Goal(x, p) => Goal(y, p)
    BY <1>0, <1>3 DEF Goal, Other
<1>. QED
    BY <1>0, <1>4, <1>5, <1>6, <1>7, <1>8 DEF Switching, y

(* ... and are restored one after the other.                               *)
LEMMA OwnRestored ==
    ASSUME NEW x \in [Deployments -> RowType], NEW r, NEW p, NEW o,
           Own(x, r, p), Switching(x, r, p, o)
    PROVE  LET y == Written(x, p.d, p.status) IN
           /\ p.status = "active" => ActiveIn(x, p.target) \subseteq {p.d}
           /\ o = None => Untouched(y, r, p, {})
           /\ o # None => /\ Other(y, r, p, o) /\ Untouched(y, r, p, {o})
                          /\ ActiveIn(y, p.target) \subseteq {o}
<1>. DEFINE y == Written(x, p.d, p.status)
            t == p.target
<1>0. /\ p.d \in Deployments /\ Real(x[p.d]) /\ x[p.d].target = t
      /\ Other(x, r, p, o) /\ Untouched(x, r, p, {p.d, o}) /\ p.d # None
      /\ p.d # r => p.before[p.d] = p.status
      /\ p.status \in DeploymentStatus
    BY NamesAre DEF Own, Switching, Settable
<1>2. /\ \A f \in Deployments \ {p.d} : y[f] = x[f]
      /\ y[p.d].status = p.status
      /\ p.status # "active" => ActiveIn(y, t) = ActiveIn(x, t) \ {p.d}
    BY <1>0, WrittenIs
<1>. HIDE DEF y
<1>3. Untouched(y, r, p, {o})
    BY <1>0, <1>2 DEF Untouched
<1>4. o = None => Untouched(y, r, p, {})
    BY <1>3, NamesAre DEF Untouched
<1>5. o # None => Other(y, r, p, o) /\ ActiveIn(y, t) \subseteq {o}
    <2>. SUFFICES ASSUME o # None PROVE Other(y, r, p, o) /\ ActiveIn(y, t) \subseteq {o}
        OBVIOUS
    <2>1. p.status # "active" /\ o \in Deployments /\ o # p.d
        BY <1>0 DEF Other
    <2>2. ActiveIn(y, t) \subseteq {o}
        BY <1>0, <1>2, <2>1 DEF Other
    <2>3. y[o] = x[o]
        BY <1>2, <2>1
    <2>. QED
        BY <1>0, <2>1, <2>2, <2>3 DEF Other
<1>. QED
    BY <1>0, <1>3, <1>4, <1>5 DEF Other, y

LEMMA OtherRestored ==
    ASSUME NEW x \in [Deployments -> RowType], NEW r, NEW p, NEW o, ToRestore(x, r, p, o)
    PROVE  LET y == Written(x, o, "active") IN
           /\ o \in Deployments /\ Real(x[o]) /\ x[o].target = p.target
           /\ Untouched(y, r, p, {})
<1>. DEFINE y == Written(x, o, "active")
<1>1. /\ o \in Deployments /\ Real(x[o]) /\ x[o].target = p.target /\ p.before[o] = "active"
      /\ Untouched(x, r, p, {o})
    BY DEF ToRestore, Other
<1>2. /\ \A f \in Deployments \ {o} : y[f] = x[f]
      /\ y[o].status = "active"
    BY <1>1, WrittenIs DEF DeploymentStatus
<1>. HIDE DEF y
<1>3. Untouched(y, r, p, {})
    BY <1>1, <1>2 DEF Untouched
<1>. QED
    BY <1>1, <1>3 DEF y

LEMMA ChangedStays ==
    ASSUME NEW x \in [Deployments -> RowType], NEW r, NEW p, Own(x, r, p), Changed(x, r, p),
           NEW s \in Settable
    PROVE  LET y == Written(x, p.d, s) IN Own(y, r, p) /\ Changed(y, r, p)
<1>. DEFINE y == Written(x, p.d, s)
<1>1. /\ p.d \in Deployments /\ Real(x[p.d]) /\ s \in DeploymentStatus /\ s # "none"
    BY DEF Own, Settable
<1>2. /\ \A f \in Deployments \ {p.d} : y[f] = x[f]
      /\ y[p.d].target = x[p.d].target /\ Real(y[p.d])
    BY <1>1, WrittenIs
<1>. HIDE DEF y
<1>3. Own(y, r, p) /\ Changed(y, r, p)
    BY <1>2 DEF Own, Changed, Untouched
<1>. QED
    BY <1>3 DEF y

LEMMA SwitchLists ==
    ASSUME TypeInv, DeployInv, OneActive, NEW r \in Requests, SwitchOK(deployment, r, proc[r]),
           List(r)
    PROVE  SwitchOK(deployment', r, proc'[r])
<1>. DEFINE p == proc[r]
            q == proc'[r]
            x == deployment
            o == Serving(r)
<1>1. ProcsOK /\ p.pc = "List" /\ deployment' = x
    BY DEF TypeInv, ProcsOK, List, At, targetVars
<1>2. /\ Base(p, q) /\ q.agent = p.agent /\ q.d = p.d
      /\ q.pc = IF p.kind = "rollout" THEN "Insert" ELSE "Write"
      /\ q.todo = IF p.kind = "status" THEN Activate(p.d, o) ELSE Switch(p.d, o)
      /\ q.undo = Snapshots(p.d, p.status, o)
    BY <1>1, ListTypes
<1>3. /\ p.kind \in {"rollout", "rollback", "status"} /\ p.d \in Deployments
    BY <1>1 DEF ProcsOK, Locals, DeployLocals, SwitchSteps
<1>4. /\ p.restores /\ Untouched(x, r, p, {}) /\ p.status \in Settable
      /\ p.kind # "rollout" => p.d # r /\ Own(x, r, p) /\ x[p.d].status = p.status
      /\ p.kind = "rollout" => NewRow(r, p)
    BY <1>1 DEF SwitchOK
<1>5. o \in Deployments \union {None} /\ r \in Deployments
    BY ServingIs, NamesAre
<1>6. q.todo \in ToGo(p.d, o)
    BY <1>2, <1>3, <1>5, <1>4, ListsAre DEF Settable
<1>7. o # None => o \in ActiveOn(p.target) /\ Valid(o) /\ o # p.d
    BY Zenon DEF Serving, ServingTarget
<1>8. o # None => x[o].status = "active" /\ x[o].target = p.target /\ Real(x[o])
    BY <1>7 DEF ActiveOn, Valid, Real
<1>9. o # None => o # r
    <2>1. p.kind # "rollout" => x[r].status = "none"
        BY <1>3 DEF DeployInv, DeployOK, Creations
    <2>2. p.kind = "rollout" => p.d = r
        BY <1>4 DEF NewRow
    <2>. QED
        BY <1>7, <1>8, <2>1, <2>2
<1>10. o # None => ActiveIn(x, p.target) \subseteq {p.d, o} /\ p.before[o] = "active"
    BY <1>4, <1>5, <1>8, <1>9 DEF OneActive, ActiveIn, Untouched
<1>11. p.status = "active" => o = None /\ ActiveIn(x, p.target) \subseteq {p.d}
    <2>. SUFFICES ASSUME p.status = "active"
         PROVE  o = None /\ ActiveIn(x, p.target) \subseteq {p.d}
        OBVIOUS
    <2>1. x[p.d].status = "active" /\ x[p.d].target = p.target
        BY <1>4 DEF NewRow, Own
    <2>. QED
        BY <1>3, <1>5, <1>7, <1>8, <2>1 DEF OneActive, ActiveIn
<1>12. Other(x, r, p, o)
    BY <1>5, <1>7, <1>8, <1>9, <1>10, <1>11 DEF Other
<1>13. Untouched(x, r, p, {p.d, o})
    BY <1>4 DEF Untouched
<1>14. Like(p, q)
    BY <1>2 DEF Base, Like
<1>. HIDE DEF o, p, q
<1>15. Switching(x, r, q, o) /\ Untouched(x, r, q, {})
    <2>0. /\ Other(x, r, p, o) = Other(x, r, q, o)
          /\ \A s : Untouched(x, r, p, s) = Untouched(x, r, q, s)
        BY <1>14, LikeFacts
    <2>1. Other(x, r, q, o) /\ Untouched(x, r, q, {}) /\ Untouched(x, r, q, {p.d, o})
        BY <1>4, <1>12, <1>13, <2>0
    <2>. QED
        BY <1>2, <1>4, <1>14, <2>1 DEF Switching, Like
<1>16. p.kind = "rollout" => NewRow(r, q)
    BY <1>4, <1>14, LikeFacts
<1>17. p.kind # "rollout" => Own(x, r, q)
    BY <1>4, <1>14, LikeFacts
<1>18. q.todo \in ToGo(q.d, o) /\ q.restores /\ q.kind = p.kind
    BY <1>4, <1>6, <1>14 DEF Like
<1>. QED
    BY <1>1, <1>2, <1>15, <1>16, <1>17, <1>18 DEF SwitchOK, p, q

LEMMA SwitchInserts ==
    ASSUME TypeInv, NEW r \in Requests, SwitchOK(deployment, r, proc[r]), Insert(r)
    PROVE  SwitchOK(deployment', r, proc'[r])
<1>. DEFINE p == proc[r]
            q == proc'[r]
            x == deployment
            y == deployment'
<1>1. ProcsOK /\ p.pc = "Insert" /\ x \in [Deployments -> RowType] /\ r \in Deployments
    BY NamesAre DEF TypeInv, ProcsOK, Insert, At, DeploymentTypes
<1>2. NewRow(r, p) /\ Untouched(x, r, p, {})
    BY <1>1 DEF SwitchOK
<1>3. PICK o : Switching(x, r, p, o) /\ p.todo \in ToGo(p.d, o)
    BY <1>1 DEF SwitchOK
<1>4. CanInsert(r)
    BY <1>2 DEF CanInsert, NewRow
<1>5. Goes(r, "Check") /\ Proceeds(r) /\ y = [x EXCEPT ![r] = Row(r)]
    BY <1>1, <1>4, InsertTypes
<1>6. Like(p, q) /\ q.pc = "Check" /\ q.todo = p.todo /\ q.undo = p.undo
    BY <1>5 DEF Goes, Same, Proceeds, Alike, Like
<1>7. /\ \A e \in Deployments \ {r} : y[e] = x[e]
      /\ y[r].status = "paused" /\ y[r].version = p.version /\ y[r].agent = p.agent
      /\ y[r].target = p.target
    BY <1>1, <1>2, <1>5 DEF Row, NewRow
<1>8. Own(y, r, p)
    BY <1>1, <1>2, <1>7 DEF Own, NewRow, Real
<1>9. \A t : ActiveIn(y, t) \subseteq ActiveIn(x, t)
    BY <1>7 DEF ActiveIn
<1>10. /\ \A s : Untouched(x, r, p, s) => Untouched(y, r, p, s)
    BY <1>7 DEF Untouched
<1>11. Other(y, r, p, o)
    <2>1. Other(x, r, p, o)
        BY <1>3 DEF Switching
    <2>2. o # None => y[o] = x[o]
        BY <1>7, <2>1 DEF Other
    <2>. QED
        BY <1>9, <2>1, <2>2 DEF Other
<1>12. Switching(y, r, p, o)
    BY <1>3, <1>10, <1>11 DEF Switching
<1>13. Switching(y, r, q, o) /\ Own(y, r, q) /\ Untouched(y, r, q, {})
    BY <1>2, <1>6, <1>8, <1>10, <1>12, LikeFacts
<1>14. q.kind = "rollout" /\ q.d = r /\ q.todo \in ToGo(q.d, o)
    BY <1>2, <1>3, <1>6 DEF Like, NewRow
<1>. QED
    BY <1>6, <1>13, <1>14 DEF SwitchOK

LEMMA SwitchChecks ==
    ASSUME TypeInv, NEW r \in Requests, SwitchOK(deployment, r, proc[r]), Check(r) \/ ReadBack(r)
    PROVE  SwitchOK(deployment', r, proc'[r])
<1>. DEFINE p == proc[r]
            q == proc'[r]
            x == deployment
<1>1. ProcsOK /\ deployment' = x
    BY DEF TypeInv, ProcsOK, Check, ReadBack, targetVars
<1>2. CASE Check(r)
    <2>1. p.pc = "Check" /\ p.kind = "rollout" /\ p.d = r /\ Own(x, r, p)
        BY <1>2 DEF Check, At, SwitchOK
    <2>2. Valid(r)
        BY <2>1 DEF Own, Valid, Real
    <2>3. Goes(r, "Write") /\ Proceeds(r)
        BY <1>1, <1>2, <2>1, <2>2, CheckTypes
    <2>4. Like(p, q) /\ q.pc = "Write" /\ q.todo = p.todo /\ q.undo = p.undo
        BY <2>3 DEF Goes, Same, Proceeds, Alike, Like
    <2>5. PICK o : Switching(x, r, p, o) /\ p.todo \in ToGo(p.d, o)
        BY <2>1 DEF SwitchOK
    <2>6. Switching(x, r, q, o) /\ Own(x, r, q) /\ q.todo \in ToGo(q.d, o) /\ q.restores
        <3>1. Switching(x, r, q, o) /\ Own(x, r, q)
            BY <2>1, <2>4, <2>5, LikeFacts
        <3>. QED
            BY <2>4, <2>5, <3>1 DEF Like, Switching
    <2>. QED
        BY <1>1, <2>4, <2>6 DEF SwitchOK
<1>3. CASE ReadBack(r)
    <2>1. p.pc = "ReadBack" /\ Own(x, r, p) /\ (Goal(x, p) \/ Changed(x, r, p))
        BY <1>3 DEF ReadBack, At, SwitchOK
    <2>2. Valid(p.d)
        BY <2>1 DEF Own, Valid, Real
    <2>3. Goes(r, "done") /\ Proceeds(r)
        BY <1>1, <1>3, <2>1, <2>2, ReadBackTypes
    <2>4. Like(p, q) /\ q.pc = "done"
        BY <2>3 DEF Goes, Same, Proceeds, Alike, Like
    <2>5. Goal(x, q) \/ Changed(x, r, q)
        BY <2>1, <2>4, LikeFacts
    <2>. QED
        BY <1>1, <2>4, <2>5 DEF SwitchOK
<1>. QED
    BY <1>2, <1>3

(* The next write, done or not.                                            *)
LEMMA SwitchHead ==
    ASSUME TypeInv, NEW r \in Requests, SwitchOK(deployment, r, proc[r]), proc[r].pc = "Write",
           proc[r].restores
    PROVE  LET p == proc[r]
               w == Head(p.todo)
               y == Written(deployment, w[1], w[2])
           IN \E o :
              /\ Switching(deployment, r, p, o)
              /\ Sets(w[1], w[2]) =>
                   /\ Own(y, r, p) /\ Switching(y, r, p, o)
                   /\ IF Len(p.todo) = 1 THEN Goal(y, p)
                      ELSE \/ Tail(p.todo) \in ToGo(p.d, o)
                           \/ o # None /\ Tail(p.todo) = <<Over(o)>> /\ Goal(y, p)
<1>. DEFINE p == proc[r]
            x == deployment
            w == Head(p.todo)
            y == Written(x, w[1], w[2])
<1>1. x \in [Deployments -> RowType]
    BY DEF TypeInv, DeploymentTypes
<1>2. PICK o : /\ Switching(x, r, p, o)
               /\ p.todo \in ToGo(p.d, o) \/ (o # None /\ p.todo = <<Over(o)>> /\ Goal(x, p))
    BY DEF SwitchOK
<1>3. Own(x, r, p) /\ p.d \in Deployments /\ p.d # None
    BY NamesAre DEF SwitchOK, Own
<1>4. o \in Deployments \union {None} /\ (o # None => x[o].target = p.target)
      /\ x[p.d].target = p.target
    BY <1>2, <1>3 DEF Switching, Other, Own
<1>5. SUFFICES ASSUME Sets(w[1], w[2])
               PROVE  /\ Own(y, r, p) /\ Switching(y, r, p, o)
                      /\ IF Len(p.todo) = 1 THEN Goal(y, p)
                         ELSE \/ Tail(p.todo) \in ToGo(p.d, o)
                              \/ o # None /\ Tail(p.todo) = <<Over(o)>> /\ Goal(y, p)
    BY <1>2
<1>6. w[2] \in DeploymentStatus /\ (w[2] = "active" => ActiveIn(x, x[w[1]].target) \subseteq {w[1]})
    BY <1>5, SetsIs
<1>7. CASE p.todo \in ToGo(p.d, o)
    <2>1. \/ /\ w[1] \in {p.d, o} /\ w[1] # None /\ w[2] = "paused"
             /\ Len(p.todo) # 1 /\ Tail(p.todo) \in ToGo(p.d, o)
          \/ /\ w[1] = p.d /\ w[2] = "active"
             /\ Len(p.todo) # 1 => o # None /\ Tail(p.todo) = <<Over(o)>>
        BY <1>3, <1>4, <1>7, ToGoHead
    <2>2. /\ w[1] \in {p.d, o} /\ w[1] # None /\ w[2] \in DeploymentStatus \ {"none"}
          /\ w[2] = "active" => ActiveIn(x, p.target) \subseteq {w[1]}
        BY <1>3, <1>4, <1>6, <2>1
    <2>. HIDE DEF p, w, x
    <2>3. /\ Own(y, r, p) /\ Switching(y, r, p, o)
          /\ w[1] = p.d /\ w[2] = "active" => Goal(y, p)
        BY <1>1, <1>2, <1>3, <2>2, SwitchGoesOn
    <2>. QED
        BY <2>1, <2>3
<1>8. CASE o # None /\ p.todo = <<Over(o)>> /\ Goal(x, p)
    <2>1. Len(p.todo) = 1 /\ w[1] = o /\ w[2] = "rolled_back"
        BY <1>8 DEF Over
    <2>2. w[2] \in DeploymentStatus \ {"none"} /\ w[2] # "active"
        BY <1>6, <2>1
    <2>. HIDE DEF p, w, x
    <2>3. Own(y, r, p) /\ Switching(y, r, p, o) /\ Goal(y, p)
        BY <1>1, <1>2, <1>3, <1>8, <2>1, <2>2, SwitchGoesOn
    <2>. QED
        BY <2>1, <2>3
<1>. QED
    BY <1>2, <1>7, <1>8

(* A status that is written without restoring anything.                    *)
LEMMA ChangeHead ==
    ASSUME TypeInv, NEW r \in Requests, SwitchOK(deployment, r, proc[r]), proc[r].pc = "Write",
           ~proc[r].restores
    PROVE  LET p == proc[r]
               w == Head(p.todo)
               y == Written(deployment, w[1], w[2])
           IN Len(p.todo) = 1 /\ Own(y, r, p) /\ Changed(y, r, p) /\ Changed(deployment, r, p)
<1>. DEFINE p == proc[r]
            x == deployment
<1>1. x \in [Deployments -> RowType]
    BY DEF TypeInv, DeploymentTypes
<1>2. Own(x, r, p) /\ Changed(x, r, p)
    BY DEF SwitchOK
<1>3. PICK s \in Settable : p.todo = <<<<p.d, s>>>>
    BY DEF SwitchOK
<1>4. Len(p.todo) = 1 /\ Head(p.todo)[1] = p.d /\ Head(p.todo)[2] = s
    BY <1>3
<1>5. Own(Written(x, p.d, s), r, p) /\ Changed(Written(x, p.d, s), r, p)
    BY <1>1, <1>2, ChangedStays
<1>. QED
    BY <1>2, <1>4, <1>5

LEMMA SwitchWrites ==
    ASSUME TypeInv, NEW r \in Requests, SwitchOK(deployment, r, proc[r]), Write(r) \/ FailWrite(r)
    PROVE  SwitchOK(deployment', r, proc'[r])
<1>. DEFINE p == proc[r]
            q == proc'[r]
            x == deployment
            w == Head(p.todo)
            y == Written(x, w[1], w[2])
            s == IF p.restores THEN "Restore" ELSE "refused"
<1>1. ProcsOK /\ p.pc = "Write" /\ Own(x, r, p)
    BY DEF TypeInv, ProcsOK, Write, FailWrite, At, SwitchOK
<1>2. /\ Like(p, q) /\ q.undo = p.undo
      /\ \/ /\ Sets(w[1], w[2]) /\ q.todo = Tail(p.todo)
            /\ q.pc = IF Len(p.todo) = 1 THEN "ReadBack" ELSE "Write"
         \/ Sets(w[1], w[2]) /\ q.pc = s
         \/ deployment' = x /\ q.pc = s
    <2>1. CASE Write(r)
        BY <1>1, <2>1, WriteTypes DEF Base, Like
    <2>2. CASE FailWrite(r)
        BY <1>1, <2>2, FailWriteTypes DEF Goes, Same, Proceeds, Alike, Like
    <2>. QED
        BY <2>1, <2>2
<1>3. Sets(w[1], w[2]) => deployment' = y
    BY SetsIs
<1>4. CASE p.restores
    <2>1. PICK o :
              /\ Switching(x, r, p, o)
              /\ Sets(w[1], w[2]) =>
                   /\ Own(y, r, p) /\ Switching(y, r, p, o)
                   /\ IF Len(p.todo) = 1 THEN Goal(y, p)
                      ELSE \/ Tail(p.todo) \in ToGo(p.d, o)
                           \/ o # None /\ Tail(p.todo) = <<Over(o)>> /\ Goal(y, p)
        BY <1>1, <1>4, SwitchHead
    <2>. HIDE DEF p, q, x, w, y
    <2>2. CASE q.pc = "Restore"
        <3>1. Own(deployment', r, p) /\ Switching(deployment', r, p, o)
            BY <1>1, <1>2, <1>3, <2>1, <2>2 DEF s, x
        <3>2. Own(deployment', r, q) /\ Switching(deployment', r, q, o)
            BY <1>2, <3>1, LikeFacts
        <3>. QED
            BY <2>2, <3>2 DEF SwitchOK, q
    <2>3. CASE /\ Sets(w[1], w[2]) /\ q.todo = Tail(p.todo)
               /\ q.pc = IF Len(p.todo) = 1 THEN "ReadBack" ELSE "Write"
        <3>1. /\ Own(y, r, q) /\ Switching(y, r, q, o) /\ q.restores /\ q.d = p.d
              /\ Goal(y, p) = Goal(y, q)
            <4>1. /\ Own(y, r, p) = Own(y, r, q) /\ Switching(y, r, p, o) = Switching(y, r, q, o)
                  /\ Goal(y, p) = Goal(y, q)
                BY <1>2, LikeFacts
            <4>. QED
                BY <1>2, <1>4, <2>1, <2>3, <4>1 DEF Like
        <3>2. CASE Len(p.todo) = 1
            BY <1>3, <2>1, <2>3, <3>1, <3>2 DEF SwitchOK, q
        <3>3. CASE Len(p.todo) # 1
            <4>1. q.todo \in ToGo(q.d, o) \/ (o # None /\ q.todo = <<Over(o)>> /\ Goal(y, q))
                BY <2>1, <2>3, <3>1, <3>3
            <4>. QED
                BY <1>3, <2>3, <3>1, <3>3, <4>1 DEF SwitchOK, q
        <3>. QED
            BY <3>2, <3>3
    <2>. QED
        BY <1>2, <1>4, <2>2, <2>3 DEF s
<1>5. CASE ~p.restores
    <2>1. Len(p.todo) = 1 /\ Own(y, r, p) /\ Changed(y, r, p) /\ Changed(x, r, p)
        BY <1>1, <1>5, ChangeHead
    <2>. HIDE DEF p, q, x, w, y
    <2>2. Own(deployment', r, p) /\ Changed(deployment', r, p)
        BY <1>1, <1>2, <1>3, <2>1 DEF x
    <2>3. Own(deployment', r, q) /\ Changed(deployment', r, q)
        BY <1>2, <2>2, LikeFacts
    <2>4. q.pc \in {"ReadBack", "refused"}
        BY <1>2, <1>5, <2>1 DEF s
    <2>. QED
        BY <2>3, <2>4 DEF SwitchOK, q
<1>. QED
    BY <1>4, <1>5

LEMMA SwitchRestores ==
    ASSUME TypeInv, NEW r \in Requests, SwitchOK(deployment, r, proc[r]), Restore(r)
    PROVE  SwitchOK(deployment', r, proc'[r])
<1>. DEFINE p == proc[r]
            q == proc'[r]
            x == deployment
            w == Head(p.undo)
            y == Written(x, w[1], w[2])
<1>1. ProcsOK /\ p.pc = "Restore" /\ Own(x, r, p) /\ x \in [Deployments -> RowType]
    BY DEF TypeInv, ProcsOK, Restore, At, SwitchOK, DeploymentTypes
<1>2. /\ Like(p, q)
      /\ \/ /\ Sets(w[1], w[2]) /\ q.undo = Tail(p.undo)
            /\ q.pc = IF Len(p.undo) = 1 THEN "refused" ELSE "Restore"
         \/ ~CanSet(w[1], w[2])
    BY <1>1, RestoreTypes DEF Base, Like
<1>3. Sets(w[1], w[2]) => deployment' = y
    BY SetsIs
<1>4. PICK o : Switching(x, r, p, o) \/ ToRestore(x, r, p, o)
    BY <1>1 DEF SwitchOK
<1>5. /\ p.d \in Deployments /\ x[p.d].target = p.target /\ Real(x[p.d])
    BY <1>1 DEF Own
<1>6. CASE Switching(x, r, p, o)
    <2>0. o \in Deployments \union {None} /\ p.status \in DeploymentStatus /\ p.status # "none"
        BY <1>6 DEF Switching, Other, Settable
    <2>1. p.undo = IF o = None THEN <<<<p.d, p.status>>>> ELSE <<<<p.d, p.status>>, On(o)>>
        BY <1>5, <1>6, <2>0, ListsAre DEF Switching
    <2>2. /\ w[1] = p.d /\ w[2] = p.status
          /\ o = None => Len(p.undo) = 1
          /\ o # None => Len(p.undo) = 2 /\ Tail(p.undo) = <<On(o)>>
        BY <1>5, <2>0, <2>1, EndsAre DEF On
    <2>2a. y = Written(x, p.d, p.status)
        BY <2>2
    <2>. HIDE DEF w, y
    <2>3. /\ p.status = "active" => ActiveIn(x, p.target) \subseteq {p.d}
          /\ o = None => Untouched(y, r, p, {})
          /\ o # None => /\ Other(y, r, p, o) /\ Untouched(y, r, p, {o})
                         /\ ActiveIn(y, p.target) \subseteq {o}
        BY <1>1, <1>6, <2>2a, OwnRestored
    <2>4. CanSet(w[1], w[2])
        BY <1>5, <2>2, <2>3 DEF CanSet, Valid, Real, MayBeActive, ActiveOn, ActiveIn
    <2>5. CASE o = None
        <3>1. q.pc = "refused" /\ Untouched(deployment', r, q, {})
            BY <1>2, <1>3, <2>2, <2>3, <2>4, <2>5, LikeFacts
        <3>. QED
            BY <3>1 DEF SwitchOK
    <2>6. CASE o # None
        <3>1. q.pc = "Restore" /\ q.undo = <<On(o)>>
            <4>1. Len(p.undo) = 2 /\ Tail(p.undo) = <<On(o)>>
                BY <2>2, <2>6
            <4>2. /\ q.undo = Tail(p.undo)
                  /\ q.pc = IF Len(p.undo) = 1 THEN "refused" ELSE "Restore"
                BY <1>2, <2>4
            <4>. HIDE DEF p, q
            <4>. QED
                BY <4>1, <4>2
        <3>2. /\ Other(deployment', r, q, o) /\ Untouched(deployment', r, q, {o})
              /\ ActiveIn(deployment', q.target) \subseteq {o}
            BY <1>2, <1>3, <2>3, <2>4, <2>6, LikeFacts DEF Like
        <3>3. ToRestore(deployment', r, q, o)
            BY <2>6, <3>1, <3>2 DEF ToRestore
        <3>4. Own(deployment', r, q)
            <4>1. /\ y[p.d].target = x[p.d].target /\ y[p.d].status = p.status
                  /\ Real(y[p.d])
                BY <1>1, <1>5, <2>0, <2>2a, WrittenIs
            <4>. QED
                BY <1>1, <1>2, <1>3, <1>5, <2>4, <4>1 DEF Own, Like
        <3>. QED
            BY <3>1, <3>3, <3>4 DEF SwitchOK
    <2>. QED
        BY <2>5, <2>6
<1>7. CASE ToRestore(x, r, p, o)
    <2>1. w[1] = o /\ w[2] = "active" /\ Len(p.undo) = 1
        BY <1>7 DEF ToRestore, On
    <2>. HIDE DEF w
    <2>2. /\ o \in Deployments /\ Real(x[o]) /\ x[o].target = p.target
          /\ Untouched(y, r, p, {})
        BY <1>1, <1>7, <2>1, OtherRestored
    <2>3. CanSet(w[1], w[2])
        BY <1>7, <2>1, <2>2 DEF CanSet, Valid, Real, MayBeActive, ActiveOn, ActiveIn, ToRestore
    <2>4. q.pc = "refused" /\ Untouched(deployment', r, q, {})
        BY <1>2, <1>3, <2>1, <2>2, <2>3, LikeFacts
    <2>. QED
        BY <2>4 DEF SwitchOK
<1>. QED
    BY <1>4, <1>6, <1>7

LEMMA SwitchMoves ==
    ASSUME TypeInv, DeployInv, OneActive, NEW r \in Requests, SwitchOK(deployment, r, proc[r]),
           proc[r].kind \in Switches, Move(r), Unfailing'
    PROVE  SwitchOK(deployment', r, proc'[r])
<1>. DEFINE p == proc[r]
            q == proc'[r]
            x == deployment
<1>1. ProcsOK /\ p.pc \in {"List", "Insert", "Check", "Write", "Restore", "ReadBack", "refused",
                           "done", "crashed"}
    BY DEF TypeInv, ProcsOK, SwitchOK
<1>2. TargetMove(r) \/ Crash(r)
    BY <1>1, MoveKinds DEF Move, Switches, AgentKinds
<1>3. CASE Crash(r)
    BY <1>1, <1>3, CrashTypes DEF Goes, SwitchOK
<1>4. CASE FailUndo(r)
    BY <1>4 DEF FailUndo, Record, Unfailing
<1>5. CASE FailRead(r)
    <2>1. deployment' = x /\ Goes(r, "refused") /\ Proceeds(r)
        BY <1>1, <1>5, FailTypes DEF FailRead, targetVars
    <2>2. p.pc \in {"List", "Insert", "Check", "ReadBack"}
        BY <1>1, <1>5 DEF FailRead, ResolveSteps
    <2>3. Untouched(x, r, p, {}) \/ Goal(x, p) \/ Changed(x, r, p)
        BY <2>2 DEF SwitchOK
    <2>4. Like(p, q) /\ q.pc = "refused"
        BY <2>1 DEF Goes, Same, Proceeds, Alike, Like
    <2>5. Untouched(x, r, q, {}) \/ Goal(x, q) \/ Changed(x, r, q)
        BY <2>3, <2>4, LikeFacts
    <2>. QED
        BY <2>1, <2>4, <2>5 DEF SwitchOK
<1>6. CASE TargetStep(r) \/ FailWrite(r)
    <2>1. ~ListServing(r)
        BY <1>1, Zenon DEF ListServing, At
    <2>2. \/ List(r) \/ Insert(r) \/ Check(r) \/ Write(r) \/ Restore(r) \/ ReadBack(r)
          \/ FailWrite(r)
        BY <1>1, <1>6, <2>1
           DEF TargetStep, ListTaken, Sweep, SweepRow, Reinsert, Discard, Withdraw, Delete, Bind,
               BindTaken, BindCheck, Unbind, RequestedRole, RequestedAny, MatchRole, MatchAny,
               FallbackBindings, LastFallback, AccessRole, AccessAny, AccessDeployed, At
    <2>. QED
        BY <2>2, SwitchLists, SwitchInserts, SwitchChecks, SwitchWrites, SwitchRestores
<1>. QED
    BY <1>2, <1>3, <1>4, <1>5, <1>6 DEF TargetMove, TargetFailure

LEMMA SwitchArrives ==
    ASSUME TypeInv, DeployInv, NEW r \in Requests, Arrive(r), proc'[r].kind \in Switches
    PROVE  SwitchOK(deployment', r, proc'[r])
<1>. DEFINE q == proc'[r]
            x == deployment
<1>1. /\ ProcsOK /\ DeploymentTypes /\ HistoryTypes /\ AgentTypes /\ At(r, "idle")
      /\ deployment' = x
    BY ArriveFrame DEF TypeInv, ProcsOK, Arrive
<1>2. PICK c \in workload : ArriveOnTarget(r, c) \/ Drop(r, c) \/ ArriveForAgent(r, c)
    BY DEF Arrive
<1>3. ArriveRollout(r, c) \/ ArriveRollback(r, c) \/ ArriveStatus(r, c)
    BY <1>1, <1>2, ArriveDeployTypes, ArriveBindTypes, ArriveResolveTypes, ArriveAccessTypes,
       ArriveAgentTypes, ArriveUpdateTypes, ArriveVersionTypes, DropTypes
       DEF ArriveOnTarget, ArriveForAgent, Switches
<1>4. q.before = Statuses => \A s : Untouched(x, r, q, s)
    BY DEF Statuses, Untouched
<1>5. Chosen(q) /\ q.before = Statuses =>
        q.d # r /\ Own(x, r, q) /\ x[q.d].status = q.status /\ q.status \in Settable
    <2>. SUFFICES ASSUME Chosen(q), q.before = Statuses
         PROVE  q.d # r /\ Own(x, r, q) /\ x[q.d].status = q.status /\ q.status \in Settable
        OBVIOUS
    <2>1. x[r].status = "none"
        BY <1>1 DEF ProcsOK, Locals, At, DeployInv, DeployOK, Creations
    <2>2. /\ q.d \in Deployments /\ Real(x[q.d]) /\ x[q.d].target = q.target
          /\ x[q.d].status = q.status
        BY DEF Chosen, Valid, Real
    <2>3. q.before[q.d] = q.status
        BY <2>2 DEF Statuses
    <2>4. q.status \in Settable
        BY <1>1, <2>2 DEF DeploymentTypes, RowType, Settable, Real
    <2>. QED
        BY <2>1, <2>2, <2>3, <2>4 DEF Own, Real
<1>6. CASE ArriveRollout(r, c)
    <2>1. /\ q.kind = "rollout" /\ q.d = r /\ q.status = "paused" /\ q.restores
          /\ q.before = Statuses
          /\ \/ q.pc = "refused"
             \/ q.pc = "List" /\ version[q.version] = q.agent /\ q.target \in mailbox
        BY <1>1, <1>6, ArriveRolloutTypes
    <2>2. q.status \in Settable
        BY <2>1 DEF Settable, DeploymentStatus
    <2>. QED
        BY <1>1, <1>4, <2>1, <2>2 DEF SwitchOK, NewRow
<1>7. CASE ArriveRollback(r, c)
    <2>1. /\ q.kind = "rollback" /\ q.before = Statuses
          /\ \/ q.pc = "refused"
             \/ q.pc = "List" /\ Chosen(q) /\ q.restores
        BY <1>1, <1>7, ArriveRollbackTypes
    <2>. QED
        BY <1>1, <1>4, <1>5, <2>1 DEF SwitchOK
<1>8. CASE ArriveStatus(r, c)
    <2>1. /\ q.kind = "status" /\ q.before = Statuses
          /\ \/ q.pc = "refused"
             \/ q.pc = "List" /\ Chosen(q) /\ q.restores
             \/ /\ q.pc = "Write" /\ Chosen(q) /\ ~q.restores
                /\ \E s \in Settable : q.todo = <<<<q.d, s>>>>
        BY <1>1, <1>8, ArriveStatusTypes
    <2>2. Chosen(q) => Changed(x, r, q)
        BY <1>4, <2>1 DEF Chosen, Changed
    <2>. QED
        BY <1>1, <1>4, <1>5, <2>1, <2>2 DEF SwitchOK
<1>. QED
    BY <1>3, <1>6, <1>7, <1>8

Solo(r) == \A q \in Requests \ {r} : proc[q].pc = "idle"
SwitchInv ==
    Unfailing => \A r \in Requests :
      Solo(r) /\ proc[r].kind \in Switches => SwitchOK(deployment, r, proc[r])

(* A request that has arrived is not idle again.                           *)
LEMMA NeverIdle ==
    ASSUME TypeInv, NEW r \in Requests, Arrive(r) \/ Move(r)
    PROVE  proc'[r].pc # "idle" /\ (Arrive(r) => proc[r].kind = "drop")
<1>1. ProcsOK /\ DeploymentTypes
    BY DEF TypeInv, ProcsOK
<1>2. CASE Arrive(r)
    BY <1>1, <1>2, ArriveTypes DEF Arrives, ProcsOK, Locals
<1>3. CASE Move(r)
    <2>1. Proceeds(r) /\ proc'[r].kind = proc[r].kind /\ proc[r].kind # "drop" /\ ~Arrive(r)
        <3>1. proc[r].kind # "drop" /\ Running(r)
            <4>1. proc[r].pc \in CreateSteps \union SwitchSteps \union BindingSteps \union RoleSteps
                    \union ServedSteps \union AccessSteps \union NewAgentSteps \union UpdateSteps
                    \union VersionSteps
                BY <1>3, MoveRuns, PcNames DEF Running
            <4>. QED
                BY <1>1, <1>3, <4>1, MoveRuns
                   DEF ProcsOK, Locals, DeployLocals, BindLocals, ResolveLocals, AgentLocals,
                       Creations
        <3>2. ~Arrive(r)
            BY <3>1 DEF Arrive, At, Running, Steps, DeploymentSteps, BindingSteps, ResolveSteps,
                        AgentSteps, VersionSteps
        <3>. QED
            BY <1>1, <1>3, <3>1, <3>2, MoveTypes DEF Base
    <2>. QED
        BY <2>1 DEF Proceeds, Typed, Locals
<1>. QED
    BY <1>2, <1>3

LEMMA SwitchInvKept ==
    ASSUME TypeInv, DeployInv, OneActive, SwitchInv, Next
    PROVE  SwitchInv'
<1>1. PICK r \in Requests : Arrive(r) \/ Move(r)
    BY NextIs
<1>2. SUFFICES ASSUME Unfailing', NEW q \in Requests, Solo(q)', proc'[q].kind \in Switches
               PROVE  SwitchOK(deployment, q, proc[q])'
    BY DEF SwitchInv
<1>3. q = r
    BY <1>1, <1>2, NeverIdle DEF Solo
<1>4. Unfailing
    BY <1>1, <1>2, FailedGrows DEF Unfailing
<1>5. Solo(r) /\ \A e \in Requests \ {r} : proc[e].pc = "idle"
    BY <1>1, <1>2, <1>3, StepTyped DEF Solo, Typed, Still
<1>6. SwitchOK(deployment', r, proc'[r]) /\ version' = version /\ mailbox' = mailbox
    <2>1. CASE Arrive(r)
        BY <1>2, <1>3, <2>1, SwitchArrives, ArriveStarts, ArriveFrame DEF Switches, agentVars
    <2>2. CASE Move(r)
        <3>1. ProcsOK /\ DeploymentTypes
            BY DEF TypeInv, ProcsOK
        <3>2. proc[r].kind \in Switches
            BY <1>2, <1>3, <2>2, <3>1, MoveTypes DEF Base
        <3>3. version' = version /\ mailbox' = mailbox
            BY <2>2, <3>1, <3>2, MoveKinds, TargetFrame
               DEF Move, Switches, AgentKinds, Crash, agentVars, targetVars
        <3>. QED
            BY <1>2, <1>4, <1>5, <2>2, <3>2, <3>3, SwitchMoves DEF SwitchInv
    <2>. QED
        BY <1>1, <2>1, <2>2
<1>. QED
    BY <1>3, <1>6
       DEF SwitchOK, Own, Other, Real, Untouched, Goal, Changed, Switching, ToRestore, NewRow,
           ActiveIn
LEMMA SwitchesHold == Spec => [](OneActive /\ SwitchInv)
<1>1. Init => OneActive /\ SwitchInv
    <2>. SUFFICES ASSUME Init PROVE OneActive /\ SwitchInv
        OBVIOUS
    <2>1. SwitchInv
        BY InitIdle DEF SwitchInv, Switches
    <2>2. /\ \A d \in Deployed : deployment[d] = Serves[d]
          /\ \A d \in Deployments \ Deployed : deployment[d].status = "none"
        BY DEF Init, NoDeployment, Deployments
    <2>. QED
        BY <2>1, <2>2, RegistryAssumption DEF OneActive, Deployments
<1>2. RegistryInv /\ OneActive /\ SwitchInv /\ [Next]_vars => (OneActive /\ SwitchInv)'
    <2>. SUFFICES ASSUME RegistryInv, OneActive, SwitchInv, [Next]_vars
         PROVE  OneActive' /\ SwitchInv'
        OBVIOUS
    <2>1. CASE Next
        <3>1. PICK r \in Requests : Arrive(r) \/ Move(r)
            BY <2>1, NextIs
        <3>2. OneActive'
            BY <3>1, OneActiveKept DEF RegistryInv
        <3>. QED
            BY <2>1, <3>2, SwitchInvKept DEF RegistryInv
    <2>2. CASE UNCHANGED vars
        <3>1. UNCHANGED <<deployment, version, mailbox, proc, failed>>
            BY <2>2 DEF vars, agentVars, targetVars, historyVars
        <3>2. OneActive'
            BY <3>1 DEF OneActive
        <3>3. SwitchInv'
            BY <3>1 DEF SwitchInv, Unfailing, Solo, SwitchOK, Own, Other, Real, Untouched, Goal,
                        Changed, Switching, ToRestore, NewRow, ActiveIn
        <3>. QED
            BY <3>2, <3>3
    <2>. QED
        BY <2>1, <2>2
<1>. QED
    BY <1>1, <1>2, RegistryHolds, PTL DEF Spec

(* A rollout, a rollback or a status change that ran alone and was refused *)
(* left the other deployments as it found them or switched the mailbox to  *)
(* its own; one that was answered switched it (setDeploymentsStatus,       *)
(* restoreDeploymentStatuses), wherever one of its calls failed.           *)
THEOREM SwitchesWhole == Spec => []AllOrNothing
<1>1. RegistryInv /\ SwitchInv => AllOrNothing
    <2>. SUFFICES ASSUME RegistryInv, SwitchInv, Unfailing, NEW r \in Requests,
                         proc[r].kind \in Switches, \A q \in Requests \ {r} : proc[q].pc = "idle"
         PROVE  LET p == proc[r]
                    now == Others(r, Statuses)
                    switched == ActiveOn(p.target) = {p.d}
                    changed == p.kind = "status" /\ p.d # None
                                 /\ now = [Others(r, p.before) EXCEPT ![p.d] = deployment[p.d].status]
                IN  /\ p.pc = "refused" => now = Others(r, p.before) \/ switched \/ changed
                    /\ p.pc = "done" => switched \/ changed
        BY Zenon DEF AllOrNothing
    <2>. DEFINE p == proc[r]
                changed == p.kind = "status" /\ p.d # None
                             /\ Others(r, Statuses)
                                  = [Others(r, p.before) EXCEPT ![p.d] = deployment[p.d].status]
    <2>1. SwitchOK(deployment, r, p)
        BY DEF SwitchInv, Solo
    <2>2. Untouched(deployment, r, p, {}) => Others(r, Statuses) = Others(r, p.before)
        BY DEF Untouched, Others, Statuses
    <2>3. Goal(deployment, p) => ActiveOn(p.target) = {p.d}
        BY DEF Goal, ActiveIn, ActiveOn
    <2>4. Changed(deployment, r, p) => changed
        BY NamesAre DEF Changed, Untouched, Others, Statuses
    <2>5. /\ p.pc = "refused" => \/ Untouched(deployment, r, p, {})
                                 \/ Goal(deployment, p) \/ Changed(deployment, r, p)
          /\ p.pc = "done" => Goal(deployment, p) \/ Changed(deployment, r, p)
        BY <2>1, Zenon DEF SwitchOK
    <2>. QED
        BY <2>2, <2>3, <2>4, <2>5
<1>. QED
    BY <1>1, RegistryHolds, SwitchesHold, PTL
=============================================================================
