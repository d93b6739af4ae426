------------------------------- MODULE Signup -------------------------------
(***************************************************************************)
(* Self-serve signup: performSelfServeSignup writes the rows of a new      *)
(* tenant one after the other and queues its welcome email; whatever fails *)
(* on the way, cleanupPartialSelfServeSignup takes back table by table     *)
(* what is there, what email that has arrived meanwhile added included.    *)
(* A signup is named by its request, and so is its tenant.                 *)
(***************************************************************************)
EXTENDS TenantCalls

CONSTANT
    ContactLocalparts  \* addresses of the contact aliases, which are reserved

VARIABLES
    rows,     \* the tables that hold rows of a signup's tenant
    blobs,    \* its objects: <<table, field>> of the row that names each
    broken,   \* history: signups that died, or whose cleanup met a failure
    mailed    \* history: signups whose welcome email was queued

signupVars == <<rows, blobs, broken, mailed>>

InitSignup ==
    /\ rows = [p \in Callers |-> {}] /\ blobs = [p \in Callers |-> {}]
    /\ broken = {} /\ mailed = {}

SignupSteps == {"Check", "Routing", "Provision", "Allow", "Draft", "Enqueue", "DropDraft",
                "Keys", "Blobs", "Clean"}

(* What is written, in order, and the objects the rows name.               *)
Plan == << {"mailboxes"}, {"agents"}, {"agent_mailboxes"},
           {"agent_versions", "agent_capabilities", "agent_tool_bindings"},
           {"agent_deployments"}, {"agent_policies"}, {"tenant_send_policies"} >>
Planned == UNION {Plan[i] : i \in DOMAIN Plan}
Objects(table) ==
    CASE table = "agents" -> {<<"agents", "config">>}
      [] table = "agent_versions" -> {<<"agent_versions", "config">>, <<"agent_versions", "manifest">>}
      [] table = "drafts" -> {<<"drafts", "draft">>}
      [] table = "messages" -> {<<"messages", "raw">>}
      [] table = "attachments" -> {<<"attachments", "file">>}
      [] table = "agent_runs" -> {<<"agent_runs", "trace">>}
      [] OTHER -> {}
ObjectsOf(tables) == UNION {Objects(t) : t \in tables}

(* The tables in the order of their cleanup, and those by whose rows their *)
(* rows are found.                                                         *)
AgentTables == <<"agent_tool_bindings", "agent_capabilities", "agent_deployments",
                 "agent_mailboxes", "agent_policies", "agent_versions", "tenant_send_policies">>
MailTables == <<"agent_runs", "tasks", "attachments", "outbound_jobs", "drafts", "messages",
                "threads">>
OwnerTables == <<"agents", "mailboxes">>

(* Variant: the agents and mailboxes go first.                             *)
OwnersFirst == OwnerTables \o AgentTables \o MailTables
CleanupOrder == AgentTables \o MailTables \o OwnerTables

FoundBy(table) ==
    CASE table \in {"agent_tool_bindings", "agent_capabilities"} -> {"agent_versions", "agents"}
      [] table \in {"agent_policies", "agent_versions"} -> {"agents"}
      [] table = "agent_runs" -> {"tasks"}
      [] table \in {"attachments", "outbound_jobs"} -> {"messages"}
      [] OTHER -> {}

Address(p) == calls[p].address
Taken(a) == \E q \in Callers : Calls(q, "signup") /\ "mailboxes" \in rows[q] /\ Address(q) = a

Start(p) ==
    /\ At(p, "free") /\ Calls(p, "signup")
    /\ Put(p, [pc |-> "Check", n |-> 1, keys |-> {}])
    /\ NoFault /\ UNCHANGED signupVars

Check(p) ==
    /\ At(p, "Check")
    /\ IF Address(p) \in ContactLocalparts \/ Taken(Address(p)) THEN Answer(p, "refused")
       ELSE Go(p, "Routing")
    /\ NoFault /\ UNCHANGED signupVars

(* ensureSignupRouting: a catch-all rule is there or is made, or the       *)
(* signup is refused where routing is required.                            *)
Routing(p) ==
    /\ At(p, "Routing")
    /\ \/ Go(p, "Provision")
       \/ calls[p].required /\ Answer(p, "refused")
    /\ NoFault /\ UNCHANGED signupVars

Write(p, tables) ==
    /\ rows' = [rows EXCEPT ![p] = @ \union tables]
    /\ blobs' = [blobs EXCEPT ![p] = @ \union ObjectsOf(tables)]

(* The unique index on the address of a mailbox.                           *)
Conflict(p) == proc[p].n = 1 /\ Taken(Address(p))

Provision(p) ==
    LET n == proc[p].n
        conflict == Conflict(p)
    IN /\ At(p, "Provision")
       /\ \/ conflict /\ Go(p, "Keys") /\ UNCHANGED <<rows, blobs>>
          \/ /\ ~conflict
             /\ Write(p, Plan[n])
             /\ Put(p, [proc[p] EXCEPT !.n = n + 1,
                                       !.pc = IF n = Len(Plan) THEN "Allow" ELSE "Provision"])
       /\ NoFault /\ UNCHANGED <<broken, mailed>>

(* The token, and ensureSystemSendAllowed for the operator's address.      *)
Unsent(p) == IF calls[p].inline THEN Answer(p, "done") ELSE Go(p, "Keys")

Allow(p) ==
    /\ At(p, "Allow")
    /\ \/ Go(p, "Draft")
       \/ ~calls[p].reachable /\ Unsent(p)
    /\ NoFault /\ UNCHANGED signupVars

WriteDraft(p) ==
    /\ At(p, "Draft")
    /\ Write(p, {"drafts"})
    /\ Go(p, "Enqueue")
    /\ NoFault /\ UNCHANGED <<broken, mailed>>

Enqueue(p) ==
    /\ At(p, "Enqueue")
    /\ Write(p, {"messages", "threads", "outbound_jobs"})
    /\ mailed' = mailed \union {p}
    /\ Answer(p, "done")
    /\ NoFault /\ UNCHANGED broken

(* deleteDraftIfUnqueued.                                                  *)
DropDraft(p) ==
    /\ At(p, "DropDraft")
    /\ IF "outbound_jobs" \in rows[p] THEN UNCHANGED <<rows, blobs>>
       ELSE /\ rows' = [rows EXCEPT ![p] = @ \ {"drafts"}]
            /\ blobs' = [blobs EXCEPT ![p] = @ \ Objects("drafts")]
    /\ Unsent(p)
    /\ NoFault /\ UNCHANGED <<broken, mailed>>

-----------------------------------------------------------------------------
(* cleanupPartialSelfServeSignup.                                          *)

Findable(p, table) == {table} \union FoundBy(table) \subseteq rows[p]

Keys(p) ==
    /\ At(p, "Keys")
    /\ Put(p, [proc[p] EXCEPT !.keys = {k \in blobs[p] : Findable(p, k[1])}, !.n = 1,
                              !.pc = "Blobs"])
    /\ NoFault /\ UNCHANGED signupVars

Blobs(p) ==
    /\ At(p, "Blobs")
    /\ blobs' = [blobs EXCEPT ![p] = @ \ proc[p].keys]
    /\ Go(p, "Clean")
    /\ NoFault /\ UNCHANGED <<rows, broken, mailed>>

Clean(p) ==
    LET n == proc[p].n
        table == CleanupOrder[n]
    IN /\ At(p, "Clean")
       /\ rows' = [rows EXCEPT ![p] = IF Findable(p, table) THEN @ \ {table} ELSE @]
       /\ IF n = Len(CleanupOrder) THEN Answer(p, "error") ELSE Put(p, [proc[p] EXCEPT !.n = n + 1])
       /\ NoFault /\ UNCHANGED <<blobs, broken, mailed>>

(* Email for the new address, while it is provisioned.                     *)
Arrive(p) ==
    /\ proc[p].pc \in {"Provision", "Allow", "Draft", "Enqueue"}
    /\ "mailboxes" \in rows[p] /\ "attachments" \notin rows[p]
    /\ \/ Write(p, {"messages", "attachments", "threads"})
       \/ "agent_mailboxes" \in rows[p]
          /\ Write(p, {"messages", "attachments", "threads", "tasks", "agent_runs"})
    /\ UNCHANGED <<broken, mailed, proc, faults>>

(* A call fails; a write may have been done all the same.                  *)
Lost(p, tables) == UNCHANGED <<rows, blobs>> \/ Write(p, tables)

FailSignup(p) ==
    /\ proc[p].pc \in SignupSteps \ {"Routing"} /\ Fault(proc[p].pc)
    /\ \/ At(p, "Check") /\ Answer(p, "error") /\ UNCHANGED <<rows, blobs>>
       \/ At(p, "Provision") /\ Go(p, "Keys") /\ (IF Conflict(p) THEN Lost(p, {}) ELSE Lost(p, Plan[proc[p].n]))
       \/ At(p, "Allow") /\ (Go(p, "Keys") \/ Unsent(p)) /\ UNCHANGED <<rows, blobs>>
       \/ At(p, "Draft") /\ Unsent(p) /\ Lost(p, {"drafts"})
       \/ At(p, "Enqueue") /\ Go(p, "DropDraft") /\ Lost(p, {"messages", "threads", "outbound_jobs"})
       \/ At(p, "DropDraft") /\ Unsent(p) /\ UNCHANGED <<rows, blobs>>
       \/ At(p, "Blobs") /\ Go(p, "Clean") /\ UNCHANGED <<rows, blobs>>
       \/ proc[p].pc \in {"Keys", "Clean"} /\ Answer(p, "error") /\ UNCHANGED <<rows, blobs>>
    /\ broken' = IF proc[p].pc \in {"Keys", "Blobs", "Clean"} THEN broken \union {p} ELSE broken
    /\ mailed' = mailed

SignupStep(p) ==
    \/ Start(p) \/ Check(p) \/ Routing(p) \/ Provision(p) \/ Allow(p)
    \/ WriteDraft(p) \/ Enqueue(p) \/ DropDraft(p)
    \/ Keys(p) \/ Blobs(p) \/ Clean(p)
=============================================================================
