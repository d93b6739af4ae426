---------------------------- MODULE TenancyAccess ----------------------------
(***************************************************************************)
(* Access is given whole or not at all: a signup leaves all of its rows or *)
(* none, a mailed token a queued draft or none, and no request gets a      *)
(* token for what it never had access to, for any callers and failures,    *)
(* whatever else happens to the tenant meanwhile.  And a contact alias has *)
(* its mailbox exactly if it has its rule.                                 *)
(***************************************************************************)
EXTENDS TenancyPayments

-----------------------------------------------------------------------------
(* The inductive invariant: signups.                                       *)

Tables == {CleanupOrder[i] : i \in DOMAIN CleanupOrder}

(* The rows by which others are found are there, and go last.              *)
RowsClosed(p) ==
    /\ rows[p] \subseteq Tables
    /\ \A t \in rows[p] : FoundBy(t) \subseteq rows[p]

Undoing == {"Keys", "Blobs", "Clean"}
Writing == {"Check", "Routing", "Provision", "Allow", "Draft", "Enqueue", "DropDraft", "Keys"}

SignupPlaces == SignupSteps \union Answers \union {"free"}
SignupTyped(p) ==
    /\ proc[p].pc \in SignupPlaces
    /\ proc[p].pc \in SignupSteps => {"n", "keys"} \subseteq DOMAIN proc[p]

(* How much a signup has written, and its cleanup has taken back.          *)
Written(p) ==
    /\ proc[p].pc \in {"free", "Check", "Routing"} => rows[p] = {} /\ blobs[p] = {}
    /\ At(p, "Check") \/ At(p, "Routing") => proc[p].n = 1
    /\ At(p, "Provision") =>
         proc[p].n \in 1..7 /\ \A i \in 1..7 : i < proc[p].n => Plan[i] \subseteq rows[p]
    /\ proc[p].pc \in {"Allow", "Draft", "Enqueue", "DropDraft"} => Planned \subseteq rows[p]
    /\ proc[p].pc \in Writing => blobs[p] \subseteq ObjectsOf(rows[p])
TakenBack(p) ==
    /\ At(p, "Blobs") => proc[p].n = 1
    /\ At(p, "Blobs") /\ p \notin broken => blobs[p] \subseteq proc[p].keys
    /\ At(p, "Clean") =>
         proc[p].n \in 1..16 /\ \A i \in 1..16 : i < proc[p].n => CleanupOrder[i] \notin rows[p]
    /\ At(p, "Clean") /\ p \notin broken => blobs[p] = {}

SignupInv(p) ==
    Calls(p, "signup") =>
      SignupTyped(p) /\ RowsClosed(p) /\ Written(p) /\ TakenBack(p) /\ SignupWhole(p)
SignupsStand == DOMAIN rows = Callers /\ DOMAIN blobs = Callers /\ \A p \in Callers : SignupInv(p)

AddressesDiffer ==
    \A p, q \in Callers :
      /\ p # q /\ Calls(p, "signup") /\ Calls(q, "signup")
      /\ "mailboxes" \in rows[p] /\ "mailboxes" \in rows[q]
      => Address(p) # Address(q)

-----------------------------------------------------------------------------
(* The inductive invariant: tokens.                                        *)

TokenCalls == {"reissue", "rotate", "mint", "bootmint"}
TokenPlaces == TokenSteps \union Answers \union {"free"}
Asking == {"Binding", "AnyBinding", "Deployment"}
Mailing == {"MailDraft", "MailQueue", "MailUndo"}
Granted == {"Deliver", "Sender", "Log"} \union Mailing

(* What a request asks for at its steps.                                   *)
Asks(p) ==
    /\ Minting(p) \/ Rotating(p)
    /\ Minting(p) => calls[p].agent /\ proc[p].then \in {"grant", "again"}
    /\ Rotating(p) => proc[p].then \in {"grant", "claims"}
    /\ proc[p].then = "grant" =>
         proc[p].need = (IF Minting(p) THEN calls[p].scopes = "send" ELSE TRUE)
TokenTyped(p) ==
    /\ proc[p].pc \in TokenPlaces
    /\ proc[p].pc \in TokenSteps => {"need", "then"} \subseteq DOMAIN proc[p]
    /\ proc[p].pc \in Asking => Asks(p)
    /\ At(p, "Claims") => Rotating(p) /\ proc[p].need = TRUE /\ proc[p].then = "grant"
    /\ proc[p].pc \in {"Deliver", "Sender"} => Rotating(p)
    /\ proc[p].pc \in {"Recent", "ByIp", "Target", "Operator", "Log"} => Calls(p, "reissue")
    /\ proc[p].pc \in Mailing => Calls(p, "reissue") \/ Rotating(p)

(* A draft is being queued, is queued, or is known to be left over.        *)
DraftKept(p) ==
    /\ p \in drafts => proc[p].pc \in {"MailQueue", "MailUndo"} \/ p \in queued \union stray
    /\ At(p, "free") => p \notin drafts \union queued \union handed
    /\ Rotating(p) /\ At(p, "done") => p \in handed \union queued

(* One change at most of what is asked for: before it nothing has changed, *)
(* and a request that was barred still would be.                           *)
Still == \A q \in Callers : calls[q].call \in Changing => At(q, "free")
Checking(p) == proc[p].pc \in Asking /\ proc[p].then = "grant"
PastClaims(p) == At(p, "Operator") \/ (Rotating(p) /\ Checking(p))
BarredStands(p) ==
    /\ Still => Forbidden(p)
    /\ PastClaims(p) => open \/ ~Able(TRUE)
    /\ At(p, "Deployment") /\ Checking(p) => binding = "none" \/ ~deployed
    /\ proc[p].pc \notin Granted
    /\ p \notin handed \union queued
TokenBarred(p) ==
    ~TwoChanges =>
      /\ Still /\ At(p, "Deployment") => binding = "none"
      /\ p \in barred => BarredStands(p)

TokenInv(p) ==
    calls[p].call \in TokenCalls => TokenTyped(p) /\ DraftKept(p) /\ TokenBarred(p)
AccessStands ==
    /\ binding \in BindingRoles
    /\ ~TwoChanges /\ Still => open
    /\ \A q \in Callers : calls[q].call \in Changing => proc[q].pc \in Answers \union {"free"}
TokensStand == AccessStands /\ \A p \in Callers : TokenInv(p)

(* Without overlap a reissue is alone: the mails of others are logged      *)
(* before it begins, or never.                                             *)
Reissuing(p) == Calls(p, "reissue")
Cooling(p, q) ==
    /\ Running(p) => ~Running(q)
    /\ Running(p) /\ ~At(p, "Recent") /\ q \in queued => q \in unlogged
    /\ p \in queued /\ q \in queued => p \in unlogged \/ q \in unlogged
CooledDown ==
    /\ queued \subseteq Callers
    /\ \A p \in Callers : Reissuing(p) /\ p \in queued => p \in unlogged \union reissues
    /\ ~overlapped => \A p, q \in Callers : p # q /\ Reissuing(p) /\ Reissuing(q) => Cooling(p, q)

AccessInv == SuspensionInv /\ SignupsStand /\ AddressesDiffer /\ TokensStand /\ CooledDown

-----------------------------------------------------------------------------
(* Which steps a request takes.                                            *)

LEMMA OnlySignups ==
    ASSUME NEW p \in Callers, Calls(p, "signup"), proc[p].pc \in SignupPlaces, Work(p) \/ Failure(p)
    PROVE  (SignupStep(p) \/ FailSignup(p) \/ Arrive(p)) \/ Crash(p)
<1>. USE DEF SignupPlaces, SignupSteps, Answers, At, Calls
<1>1. ~PayStep(p)
    <2>1. ~Topup(p) /\ ~UpgradeIntent(p) /\ ~Confirm(p) /\ ~Repeat(p)
        BY DEF Topup, UpgradeIntent, Confirm, Repeat
    <2>2. ~LookUp(p, "Lookup") /\ ~LookUp(p, "Relook") /\ ~Create(p) /\ ~Begin(p)
        BY DEF LookUp, Create, Begin
    <2>3. ~Verify(p) /\ ~WriteVerified(p) /\ ~WriteFailed(p) /\ ~Settle(p) /\ ~WriteSettled(p)
        BY DEF Verify, WriteVerified, WriteFailed, Settle, WriteSettled
    <2>4. ~WriteRefused(p) /\ ~Finalize(p) /\ ~Grant(p) /\ ~Account(p) /\ ~Profile(p)
        BY DEF WriteRefused, Finalize, Grant, Account, Profile
    <2>5. ~ReadPolicy(p) /\ ~Enable(p) /\ ~RelaxUpgraded(p) /\ ~Open(p)
        BY DEF ReadPolicy, Enable, RelaxUpgraded, Open
    <2>6. ~Sum(p) /\ ~Credit(p) /\ ~Mark(p) /\ ~Refresh(p)
        BY DEF Sum, Credit, Mark, Refresh
    <2>. QED
        BY <2>1, <2>2, <2>3, <2>4, <2>5, <2>6 DEF PayStep
<1>2. ~PolicyStep(p) /\ ~PutAgentPolicy(p)
    BY DEF PolicyStep, PutAgentPolicy, Ask, Decide, SetStanding, SyncAgents, WriteList, RelaxAgents,
           WriteOpen, Decisions
<1>3. ~SendStep(p)
    BY DEF SendStep, SendBegins, Route, ReadStanding, Judge, ReadAgent, RouteAgain, Balance
<1>4. ~TokenStep(p)
    <2>1. ~Reissue(p) /\ ~Rotate(p) /\ ~Mint(p) /\ ~Change(p)
        BY DEF Reissue, Rotate, Rotating, Mint, Minting, Change, Changing
    <2>2. ~Recent(p) /\ ~ByIp(p) /\ ~Target(p) /\ ~Operator(p)
        BY DEF Recent, ByIp, Target, Operator
    <2>3. ~Binding(p) /\ ~AnyBinding(p) /\ ~Deployment(p) /\ ~Claims(p)
        BY DEF Binding, AnyBinding, Deployment, Claims
    <2>4. ~Deliver(p) /\ ~Sender(p) /\ ~MailDraft(p) /\ ~MailQueue(p) /\ ~MailUndo(p) /\ ~Log(p)
        BY DEF Deliver, Sender, MailDraft, MailQueue, MailUndo, Log
    <2>. QED
        BY <2>1, <2>2, <2>3, <2>4 DEF TokenStep
<1>5. ~AliasStep(p)
    <2>1. ~Begins(p) /\ ~List(p) /\ ~Box(p) /\ ~Activate(p) /\ ~Rule(p)
        BY DEF Begins, Maintains, List, Box, Activate, Rule
    <2>2. ~Undo(p) /\ ~OwnBox(p) /\ ~Deactivate(p) /\ ~DeleteRule(p) /\ ~Restore(p) /\ ~Redundant(p)
        BY DEF Undo, OwnBox, Deactivate, DeleteRule, Restore, Redundant
    <2>. QED
        BY <2>1, <2>2 DEF AliasStep
<1>6. ~FailPayment(p) /\ ~NoVerdict(p) /\ ~FailDecision(p)
    BY DEF FailPayment, Guarded, PaySteps, NoVerdict, FailDecision, PolicySteps
<1>7. ~FailSend(p) /\ ~FailToken(p) /\ ~FailAlias(p)
    BY DEF FailSend, SendSteps, FailToken, TokenSteps, FailAlias, AliasSteps
<1>. QED
    BY <1>1, <1>2, <1>3, <1>4, <1>5, <1>6, <1>7 DEF Work, Failure

(* Requests for tokens, and changes of what they ask for.                  *)
LEMMA OnlyTokens ==
    ASSUME NEW p \in Callers, calls[p].call \in TokenCalls \union Changing,
           proc[p].pc \in TokenPlaces, Work(p) \/ (Failure(p) /\ UNCHANGED overlapped)
    PROVE  \/ TokenStep(p) /\ Overlap(p)
           \/ FailToken(p) /\ UNCHANGED overlapped
           \/ Crash(p) /\ UNCHANGED overlapped
<1>. USE DEF TokenCalls, Changing, TokenPlaces, TokenSteps, Answers, At, Calls
<1>1. ~PayStep(p)
    <2>1. ~Topup(p) /\ ~UpgradeIntent(p) /\ ~Confirm(p) /\ ~Repeat(p)
        BY DEF Topup, UpgradeIntent, Confirm, Repeat
    <2>2. ~LookUp(p, "Lookup") /\ ~LookUp(p, "Relook") /\ ~Create(p) /\ ~Begin(p)
        BY DEF LookUp, Create, Begin
    <2>3. ~Verify(p) /\ ~WriteVerified(p) /\ ~WriteFailed(p) /\ ~Settle(p) /\ ~WriteSettled(p)
        BY DEF Verify, WriteVerified, WriteFailed, Settle, WriteSettled
    <2>4. ~WriteRefused(p) /\ ~Finalize(p) /\ ~Grant(p) /\ ~Account(p) /\ ~Profile(p)
        BY DEF WriteRefused, Finalize, Grant, Account, Profile
    <2>5. ~ReadPolicy(p) /\ ~Enable(p) /\ ~RelaxUpgraded(p) /\ ~Open(p)
        BY DEF ReadPolicy, Enable, RelaxUpgraded, Open
    <2>6. ~Sum(p) /\ ~Credit(p) /\ ~Mark(p) /\ ~Refresh(p)
        BY DEF Sum, Credit, Mark, Refresh
    <2>. QED
        BY <2>1, <2>2, <2>3, <2>4, <2>5, <2>6 DEF PayStep
<1>2. ~PolicyStep(p) /\ ~PutAgentPolicy(p)
    BY DEF PolicyStep, PutAgentPolicy, Ask, Decide, SetStanding, SyncAgents, WriteList, RelaxAgents,
           WriteOpen, Decisions
<1>3. ~SendStep(p)
    BY DEF SendStep, SendBegins, Route, ReadStanding, Judge, ReadAgent, RouteAgain, Balance
<1>4. ~SignupStep(p)
    <2>1. ~Start(p) /\ ~Check(p) /\ ~Routing(p) /\ ~Provision(p) /\ ~Allow(p)
        BY DEF Start, Check, Routing, Provision, Allow
    <2>2. ~WriteDraft(p) /\ ~Enqueue(p) /\ ~DropDraft(p) /\ ~Keys(p) /\ ~Blobs(p) /\ ~Clean(p)
        BY DEF WriteDraft, Enqueue, DropDraft, Keys, Blobs, Clean
    <2>. QED
        BY <2>1, <2>2 DEF SignupStep
<1>5. ~AliasStep(p)
    <2>1. ~Begins(p) /\ ~List(p) /\ ~Box(p) /\ ~Activate(p) /\ ~Rule(p)
        BY DEF Begins, Maintains, List, Box, Activate, Rule
    <2>2. ~Undo(p) /\ ~OwnBox(p) /\ ~Deactivate(p) /\ ~DeleteRule(p) /\ ~Restore(p) /\ ~Redundant(p)
        BY DEF Undo, OwnBox, Deactivate, DeleteRule, Restore, Redundant
    <2>. QED
        BY <2>1, <2>2 DEF AliasStep
<1>6. ~FailPayment(p) /\ ~NoVerdict(p) /\ ~FailDecision(p)
    BY DEF FailPayment, Guarded, PaySteps, NoVerdict, FailDecision, PolicySteps
<1>7. ~FailSend(p) /\ ~FailSignup(p) /\ ~Arrive(p) /\ ~FailAlias(p)
    BY DEF FailSend, SendSteps, FailSignup, SignupSteps, Arrive, FailAlias, AliasSteps
<1>. QED
    BY <1>1, <1>2, <1>3, <1>4, <1>5, <1>6, <1>7 DEF Work, Failure

(* What a step does to the rows of others, by whatever request it is.      *)
SignupAlone(p) ==
    \A q \in Callers : q # p =>
      /\ rows'[q] = rows[q] /\ blobs'[q] = blobs[q]
      /\ q \in broken' <=> q \in broken
      /\ q \in mailed' <=> q \in mailed
TokenAlone(p) ==
    /\ queued' \subseteq queued \union {p}
    /\ \A q \in Callers : q # p =>
         /\ q \in drafts' <=> q \in drafts
         /\ q \in queued' <=> q \in queued
         /\ q \in handed' <=> q \in handed
         /\ q \in stray' <=> q \in stray
         /\ q \in unlogged' <=> q \in unlogged
         /\ q \in reissues' <=> q \in reissues

LEMMA OwnRows ==
    ASSUME NEW p \in Callers, Work(p) \/ Failure(p), DOMAIN rows = Callers, DOMAIN blobs = Callers
    PROVE  SignupAlone(p) /\ DOMAIN rows' = Callers /\ DOMAIN blobs' = Callers
<1>1. CASE UNCHANGED <<rows, blobs, mailed>> /\ (broken' = broken \/ broken' = broken \union {p})
    BY <1>1 DEF SignupAlone
<1>2. ASSUME NEW tables, Write(p, tables)
      PROVE  /\ DOMAIN rows' = Callers /\ DOMAIN blobs' = Callers
             /\ \A q \in Callers : q # p => rows'[q] = rows[q] /\ blobs'[q] = blobs[q]
    BY <1>2 DEF Write
<1>3. CASE SignupStep(p)
    <2>1. CASE Start(p) \/ Check(p) \/ Routing(p) \/ Allow(p) \/ Keys(p)
        BY <1>1, <2>1 DEF Start, Check, Routing, Allow, Keys, signupVars
    <2>2. CASE Provision(p)
        BY <1>2, <2>2 DEF Provision, SignupAlone
    <2>3. CASE WriteDraft(p) \/ Enqueue(p)
        BY <1>2, <2>3 DEF WriteDraft, Enqueue, SignupAlone
    <2>4. CASE DropDraft(p) \/ Blobs(p) \/ Clean(p)
        BY <2>4 DEF DropDraft, Blobs, Clean, SignupAlone
    <2>. QED
        BY <1>3, <2>1, <2>2, <2>3, <2>4 DEF SignupStep
<1>4. CASE FailSignup(p)
    <2>1. UNCHANGED <<rows, blobs>> \/ \E tables : Write(p, tables)
        BY <1>4 DEF FailSignup, Lost
    <2>2. mailed' = mailed /\ (broken' = broken \/ broken' = broken \union {p})
        BY <1>4 DEF FailSignup
    <2>. QED
        BY <1>1, <1>2, <2>1, <2>2 DEF SignupAlone
<1>5. CASE Arrive(p)
    BY <1>2, <1>5 DEF Arrive, SignupAlone
<1>6. CASE Crash(p)
    BY <1>1, <1>6 DEF Crash
<1>7. CASE UNCHANGED signupVars
    BY <1>1, <1>7 DEF signupVars
<1>. QED
    BY <1>3, <1>4, <1>5, <1>6, <1>7 DEF Work, Failure

LEMMA OwnTokens ==
    ASSUME NEW p \in Callers, Work(p) \/ Failure(p)
    PROVE  TokenAlone(p)
<1>1. CASE UNCHANGED tokenVars
    BY <1>1 DEF TokenAlone, tokenVars, mailVars
<1>2. CASE TokenStep(p)
    <2>1. CASE \/ Reissue(p) \/ Rotate(p) \/ Mint(p) \/ Change(p) \/ Recent(p) \/ ByIp(p)
               \/ Target(p) \/ Operator(p) \/ AnyBinding(p) \/ Claims(p)
        BY <2>1 DEF Reissue, Rotate, Mint, Change, Recent, ByIp, Target, Operator, AnyBinding, Claims,
                    Begun, Handed, TokenAlone, tokenVars, mailVars
    <2>2. CASE Binding(p) \/ Deployment(p) \/ Deliver(p) \/ Sender(p)
        BY <2>2 DEF Binding, Deployment, Deliver, Sender, Pass, Unmailed, TokenAlone, tokenVars, mailVars
    <2>3. CASE MailDraft(p) \/ MailQueue(p) \/ MailUndo(p) \/ Log(p)
        BY <2>3 DEF MailDraft, MailQueue, MailUndo, Log, Queue, Unmailed, TokenAlone
    <2>. QED
        BY <1>2, <2>1, <2>2, <2>3 DEF TokenStep
<1>3. CASE FailToken(p)
    BY <1>3 DEF FailToken, Queue, Unmailed, TokenAlone, mailVars
<1>4. CASE Crash(p)
    BY <1>4 DEF Crash, TokenAlone
<1>. QED
    BY <1>1, <1>2, <1>3, <1>4 DEF Work, Failure

LEMMA AccessKept ==
    ASSUME NEW p \in Callers, Work(p) \/ Failure(p), ~Change(p)
    PROVE  UNCHANGED accessVars
<1>1. CASE TokenStep(p)
    BY <1>1 DEF TokenStep, Reissue, Rotate, Mint, Handed, Begun, Recent, ByIp, Target, Operator, Binding,
                AnyBinding, Deployment, Claims, Deliver, Sender, MailDraft, MailQueue, MailUndo, Log,
                tokenVars
<1>2. CASE FailToken(p) \/ Crash(p)
    BY <1>2 DEF FailToken, Crash
<1>3. CASE UNCHANGED tokenVars
    BY <1>3 DEF tokenVars
<1>. QED
    BY <1>1, <1>2, <1>3 DEF Work, Failure

LEMMA OverlapKept ==
    ASSUME NEW p \in Callers, Work(p) \/ (Failure(p) /\ UNCHANGED overlapped), overlapped
    PROVE  overlapped'
BY DEF Work, Overlap

(* Only signups write rows, and only those for tokens write theirs.        *)
LEMMA OnlySignupsWrite ==
    ASSUME NEW p \in Callers, SignupStep(p) \/ FailSignup(p) \/ Arrive(p), ~At(p, "free")
    PROVE  proc[p].pc \in SignupSteps
<1>1. CASE SignupStep(p)
    BY <1>1 DEF SignupStep, Start, Check, Routing, Provision, Allow, WriteDraft, Enqueue, DropDraft, Keys,
                Blobs, Clean, At, SignupSteps
<1>2. CASE FailSignup(p) \/ Arrive(p)
    BY <1>2 DEF FailSignup, Arrive, SignupSteps
<1>. QED
    BY <1>1, <1>2

-----------------------------------------------------------------------------
(* What is written and taken back.                                         *)

LEMMA PlanIs ==
    /\ DOMAIN Plan = 1..7 /\ Len(Plan) = 7
    /\ Plan[1] = {"mailboxes"} /\ Plan[2] = {"agents"} /\ Plan[3] = {"agent_mailboxes"}
    /\ Plan[4] = {"agent_versions", "agent_capabilities", "agent_tool_bindings"}
    /\ Plan[5] = {"agent_deployments"} /\ Plan[6] = {"agent_policies"}
    /\ Plan[7] = {"tenant_send_policies"}
BY DEF Plan

LEMMA CleanupIs ==
    /\ DOMAIN CleanupOrder = 1..16 /\ Len(CleanupOrder) = 16
    /\ CleanupOrder[1] = "agent_tool_bindings" /\ CleanupOrder[2] = "agent_capabilities"
    /\ CleanupOrder[3] = "agent_deployments" /\ CleanupOrder[4] = "agent_mailboxes"
    /\ CleanupOrder[5] = "agent_policies" /\ CleanupOrder[6] = "agent_versions"
    /\ CleanupOrder[7] = "tenant_send_policies" /\ CleanupOrder[8] = "agent_runs"
    /\ CleanupOrder[9] = "tasks" /\ CleanupOrder[10] = "attachments"
    /\ CleanupOrder[11] = "outbound_jobs" /\ CleanupOrder[12] = "drafts"
    /\ CleanupOrder[13] = "messages" /\ CleanupOrder[14] = "threads"
    /\ CleanupOrder[15] = "agents" /\ CleanupOrder[16] = "mailboxes"
BY DEF CleanupOrder, AgentTables, MailTables, OwnerTables

LEMMA TablesAre ==
    Tables = {"agent_tool_bindings", "agent_capabilities", "agent_deployments", "agent_mailboxes",
              "agent_policies", "agent_versions", "tenant_send_policies", "agent_runs", "tasks",
              "attachments", "outbound_jobs", "drafts", "messages", "threads", "agents", "mailboxes"}
<1>1. \A i \in 1..16 : i = 1 \/ i = 2 \/ i = 3 \/ i = 4 \/ i = 5 \/ i = 6 \/ i = 7 \/ i = 8 \/ i = 9
                       \/ i = 10 \/ i = 11 \/ i = 12 \/ i = 13 \/ i = 14 \/ i = 15 \/ i = 16
    OBVIOUS
<1>2. \A t \in Tables : \E i \in 1..16 : t = CleanupOrder[i]
    BY CleanupIs DEF Tables
<1>3. \A i \in 1..16 : CleanupOrder[i] \in Tables
    BY CleanupIs DEF Tables
<1>. HIDE DEF Tables
<1>. QED
    BY <1>1, <1>2, <1>3, CleanupIs

LEMMA PlannedAre ==
    Planned = {"mailboxes", "agents", "agent_mailboxes", "agent_versions", "agent_capabilities",
               "agent_tool_bindings", "agent_deployments", "agent_policies", "tenant_send_policies"}
<1>1. \A i \in 1..7 : i = 1 \/ i = 2 \/ i = 3 \/ i = 4 \/ i = 5 \/ i = 6 \/ i = 7
    OBVIOUS
<1>2. \A t : t \in Planned <=> \E i \in 1..7 : t \in Plan[i]
    BY PlanIs DEF Planned
<1>3. \A t : t \in Planned <=> \/ t \in Plan[1] \/ t \in Plan[2] \/ t \in Plan[3] \/ t \in Plan[4]
                               \/ t \in Plan[5] \/ t \in Plan[6] \/ t \in Plan[7]
    BY <1>1, <1>2
<1>. QED
    BY <1>3, PlanIs

LEMMA PlanWritten ==
    ASSUME NEW R, \A i \in 1..7 : Plan[i] \subseteq R
    PROVE  Planned \subseteq R
BY PlanIs DEF Planned

(* Rows whose owners are there, or come with them.                         *)
Owned(tables, R) == tables \subseteq Tables /\ \A t \in tables : FoundBy(t) \subseteq R \union tables

LEMMA PlanOwned ==
    ASSUME NEW R, NEW n \in 1..7, \A i \in 1..7 : i < n => Plan[i] \subseteq R
    PROVE  Owned(Plan[n], R)
<1>1. Plan[n] \subseteq Tables
    BY PlanIs, TablesAre
<1>2. n > 2 => "agents" \in R
    BY PlanIs
<1>3. CASE n = 1 \/ n = 2 \/ n = 3 \/ n = 5 \/ n = 7
    <2>1. \A t \in Plan[n] : FoundBy(t) = {}
        BY <1>3, PlanIs DEF FoundBy
    <2>. QED
        BY <1>1, <2>1 DEF Owned
<1>4. CASE n = 4 \/ n = 6
    <2>1. \A t \in Plan[n] : FoundBy(t) \subseteq {"agents"} \union Plan[n]
        BY <1>4, PlanIs DEF FoundBy
    <2>. QED
        BY <1>1, <1>2, <1>4, <2>1 DEF Owned
<1>. QED
    BY <1>3, <1>4

LEMMA MailOwned ==
    ASSUME NEW R
    PROVE  /\ Owned({}, R) /\ Owned({"drafts"}, R)
           /\ Owned({"messages", "threads", "outbound_jobs"}, R)
           /\ Owned({"messages", "attachments", "threads"}, R)
           /\ Owned({"messages", "attachments", "threads", "tasks", "agent_runs"}, R)
BY TablesAre DEF Owned, FoundBy

LEMMA OwnedWritten ==
    ASSUME NEW p \in Callers, DOMAIN rows = Callers, DOMAIN blobs = Callers, RowsClosed(p),
           NEW tables, Owned(tables, rows[p]), Write(p, tables)
    PROVE  /\ RowsClosed(p)' /\ rows'[p] = rows[p] \union tables
           /\ blobs[p] \subseteq ObjectsOf(rows[p]) => blobs'[p] \subseteq ObjectsOf(rows'[p])
<1>1. rows'[p] = rows[p] \union tables /\ blobs'[p] = blobs[p] \union ObjectsOf(tables)
    BY DEF Write
<1>2. RowsClosed(p)'
    BY <1>1 DEF RowsClosed, Owned
<1>3. blobs[p] \subseteq ObjectsOf(rows[p]) => blobs'[p] \subseteq ObjectsOf(rows'[p])
    BY <1>1 DEF ObjectsOf
<1>. QED
    BY <1>1, <1>2, <1>3

(* Every object is named by a row that is found.                           *)
LEMMA ObjectsFound ==
    ASSUME NEW p, RowsClosed(p), blobs[p] \subseteq ObjectsOf(rows[p])
    PROVE  blobs[p] \subseteq {k \in blobs[p] : Findable(p, k[1])}
<1>1. \A t : \A k \in Objects(t) : k[1] = t
    BY DEF Objects
<1>2. ASSUME NEW k \in blobs[p]
      PROVE  Findable(p, k[1])
    <2>1. PICK t \in rows[p] : k \in Objects(t)
        BY DEF ObjectsOf
    <2>2. k[1] = t
        BY <1>1, <2>1
    <2>. QED
        BY <2>2 DEF RowsClosed, Findable
<1>. QED
    BY <1>2

(* A table is cleaned before those by whose rows its rows are found.       *)
LEMMA OwnersLast ==
    ASSUME NEW n \in 1..16, NEW t \in Tables, CleanupOrder[n] \in FoundBy(t)
    PROVE  \E i \in 1..16 : i < n /\ CleanupOrder[i] = t
<1>1. t \in {"agent_tool_bindings", "agent_capabilities", "agent_policies", "agent_versions",
             "agent_runs", "attachments", "outbound_jobs"}
    BY DEF FoundBy
<1>2. CleanupOrder[n] \in {"agent_versions", "agents", "tasks", "messages"}
    BY DEF FoundBy
<1>3. n = 6 \/ n = 15 \/ n = 9 \/ n = 13
    BY <1>2, CleanupIs
<1>4. CASE n = 6
    BY <1>1, <1>4, CleanupIs DEF FoundBy
<1>5. CASE n = 9
    BY <1>1, <1>5, CleanupIs DEF FoundBy
<1>6. CASE n = 13
    BY <1>1, <1>6, CleanupIs DEF FoundBy
<1>7. CASE n = 15
    BY <1>1, <1>7, CleanupIs DEF FoundBy
<1>. QED
    BY <1>3, <1>4, <1>5, <1>6, <1>7

-----------------------------------------------------------------------------
(* Each step of a signup.                                                  *)

LEMMA GoKeeps ==
    ASSUME Shape, NEW p \in Callers, NEW s, Go(p, s), {"n", "keys"} \subseteq DOMAIN proc[p]
    PROVE  /\ proc'[p].pc = s /\ {"n", "keys"} \subseteq DOMAIN proc'[p]
           /\ proc'[p].n = proc[p].n /\ proc'[p].keys = proc[p].keys
<1>. DEFINE r == [proc[p] EXCEPT !.pc = s]
<1>1. proc'[p] = r /\ proc'[p].pc = s
    BY GoMoves
<1>2. DOMAIN r = DOMAIN proc[p] /\ r.n = proc[p].n /\ r.keys = proc[p].keys
    OBVIOUS
<1>. QED
    BY <1>1, <1>2

(* One that goes on.                                                       *)
LEMMA SignupGoesOn ==
    ASSUME NEW p \in Callers, proc'[p].pc \in SignupSteps, {"n", "keys"} \subseteq DOMAIN proc'[p],
           RowsClosed(p)', Written(p)', TakenBack(p)'
    PROVE  SignupInv(p)'
BY DEF SignupInv, SignupTyped, SignupPlaces, SignupWhole, At, SignupSteps

(* One that is answered: with everything, or with nothing.                 *)
LEMMA SignupAnswered ==
    ASSUME Shape, NEW p \in Callers, NEW a \in Answers, Answer(p, a), RowsClosed(p)',
           a = "done" => Planned \subseteq rows'[p] /\ (calls'[p].inline \/ p \in mailed'),
           a \in {"refused", "error"} => p \in broken' \/ (rows'[p] = {} /\ blobs'[p] = {})
    PROVE  SignupInv(p)'
<1>1. proc'[p].pc = a
    BY PutMoves DEF Answer
<1>2. SignupTyped(p)' /\ Written(p)' /\ TakenBack(p)'
    BY <1>1 DEF SignupTyped, SignupPlaces, SignupSteps, Answers, Written, TakenBack, At, Writing
<1>3. SignupWhole(p)'
    BY <1>1 DEF SignupWhole, At
<1>. QED
    BY <1>2, <1>3 DEF SignupInv

(* One whose cleanup begins.                                               *)
LEMMA SignupFails ==
    ASSUME Shape, NEW p \in Callers, Go(p, "Keys"), {"n", "keys"} \subseteq DOMAIN proc[p],
           RowsClosed(p)', blobs'[p] \subseteq ObjectsOf(rows'[p])
    PROVE  SignupInv(p)'
<1>1. proc'[p].pc = "Keys" /\ {"n", "keys"} \subseteq DOMAIN proc'[p]
    BY GoKeeps
<1>2. Written(p)' /\ TakenBack(p)'
    BY <1>1 DEF Written, TakenBack, At
<1>. QED
    BY <1>1, <1>2, SignupGoesOn DEF SignupSteps

(* One that has all its rows and writes its email.                         *)
LEMMA SignupWrites ==
    ASSUME Shape, NEW p \in Callers, NEW s \in {"Allow", "Draft", "Enqueue", "DropDraft"}, Go(p, s),
           {"n", "keys"} \subseteq DOMAIN proc[p], RowsClosed(p)', Planned \subseteq rows'[p],
           blobs'[p] \subseteq ObjectsOf(rows'[p])
    PROVE  SignupInv(p)'
<1>1. proc'[p].pc = s /\ {"n", "keys"} \subseteq DOMAIN proc'[p]
    BY GoKeeps
<1>2. Written(p)' /\ TakenBack(p)'
    BY <1>1 DEF Written, TakenBack, At
<1>. QED
    BY <1>1, <1>2, SignupGoesOn DEF SignupSteps

(* What a signup has at a step.                                            *)
SignupAt(p) == SignupTyped(p) /\ RowsClosed(p) /\ Written(p) /\ TakenBack(p)
Own(p) == Shape /\ SignupAt(p) /\ DOMAIN rows = Callers /\ DOMAIN blobs = Callers /\ UNCHANGED calls

(* One that sends no email is answered, or cleaned up.                     *)
LEMMA UnsentStands ==
    ASSUME NEW p \in Callers, Own(p), Unsent(p), {"n", "keys"} \subseteq DOMAIN proc[p],
           RowsClosed(p)', Planned \subseteq rows'[p], blobs'[p] \subseteq ObjectsOf(rows'[p])
    PROVE  SignupInv(p)'
<1>1. CASE calls[p].inline
    BY <1>1, SignupAnswered DEF Unsent, Own, Answers
<1>2. CASE ~calls[p].inline
    BY <1>2, SignupFails DEF Unsent, Own
<1>. QED
    BY <1>1, <1>2

LEMMA SameRows ==
    ASSUME NEW p, UNCHANGED <<rows, blobs>>
    PROVE  (RowsClosed(p)' <=> RowsClosed(p)) /\ ObjectsOf(rows'[p]) = ObjectsOf(rows[p])
BY DEF RowsClosed

LEMMA FewRowsStand ==
    ASSUME NEW p \in Callers, Own(p),
           Start(p) \/ Check(p) \/ Routing(p)
    PROVE  SignupInv(p)'
<1>1. UNCHANGED <<rows, blobs, mailed, broken>> /\ rows[p] = {} /\ blobs[p] = {}
    BY DEF Start, Check, Routing, signupVars, Own, SignupAt, Written, At
<1>2. RowsClosed(p)'
    BY <1>1, SameRows DEF Own, SignupAt
<1>3. CASE Start(p)
    <2>. DEFINE r == [pc |-> "Check", n |-> 1, keys |-> {}]
    <2>1. proc'[p] = r
        BY <1>3, PutMoves DEF Start, Own
    <2>2. Written(p)' /\ TakenBack(p)'
        BY <1>1, <2>1 DEF Written, TakenBack, At
    <2>. QED
        BY <1>2, <2>1, <2>2, SignupGoesOn DEF SignupSteps
<1>4. ASSUME NEW s \in {"Routing", "Provision"}, Go(p, s), proc[p].pc \in {"Check", "Routing"}
      PROVE  SignupInv(p)'
    <2>1. {"n", "keys"} \subseteq DOMAIN proc[p] /\ proc[p].n = 1
        BY <1>4 DEF Own, SignupAt, SignupTyped, SignupSteps, Written, At
    <2>2. proc'[p].pc = s /\ {"n", "keys"} \subseteq DOMAIN proc'[p] /\ proc'[p].n = 1
        BY <1>4, <2>1, GoKeeps DEF Own
    <2>3. Written(p)' /\ TakenBack(p)'
        BY <1>1, <2>2 DEF Written, TakenBack, At
    <2>. QED
        BY <1>2, <2>2, <2>3, SignupGoesOn DEF SignupSteps
<1>5. CASE Check(p) \/ Routing(p)
    <2>1. Answer(p, "refused") => SignupInv(p)'
        BY <1>1, <1>2, SignupAnswered DEF Own, Answers
    <2>. QED
        BY <1>4, <1>5, <2>1 DEF Check, Routing, At
<1>. QED
    BY <1>3, <1>5

LEMMA ProvisionStands ==
    ASSUME NEW p \in Callers, Own(p), Provision(p)
    PROVE  SignupInv(p)'
<1>1. /\ {"n", "keys"} \subseteq DOMAIN proc[p] /\ "pc" \in DOMAIN proc[p]
      /\ proc[p].n \in 1..7 /\ \A i \in 1..7 : i < proc[p].n => Plan[i] \subseteq rows[p]
      /\ blobs[p] \subseteq ObjectsOf(rows[p]) /\ RowsClosed(p)
    BY DEF Own, Shape, SignupAt, SignupTyped, SignupSteps, Written, Writing, Provision, At
<1>2. CASE Go(p, "Keys") /\ UNCHANGED <<rows, blobs>>
    BY <1>1, <1>2, SameRows, SignupFails DEF Own
<1>3. CASE ~(Go(p, "Keys") /\ UNCHANGED <<rows, blobs>>)
    <2>. DEFINE n == proc[p].n
                s == IF n = 7 THEN "Allow" ELSE "Provision"
                r == [proc[p] EXCEPT !.n = n + 1, !.pc = s]
    <2>1. Write(p, Plan[n]) /\ Put(p, r)
        BY <1>3, PlanIs DEF Provision
    <2>2. /\ RowsClosed(p)' /\ rows'[p] = rows[p] \union Plan[n]
          /\ blobs'[p] \subseteq ObjectsOf(rows'[p])
        BY <1>1, <2>1, PlanOwned, OwnedWritten DEF Own
    <2>3. DOMAIN r = DOMAIN proc[p] /\ r.pc = s /\ r.n = n + 1
        BY <1>1
    <2>. HIDE DEF r
    <2>4. proc'[p] = r
        BY <1>1, <2>1, <2>3, PutMoves DEF Own
    <2>5. \A i \in 1..7 : i < n + 1 => Plan[i] \subseteq rows'[p]
        BY <1>1, <2>2
    <2>6. CASE n = 7
        <3>1. Planned \subseteq rows'[p]
            BY <2>5, <2>6, PlanWritten
        <3>2. Written(p)' /\ TakenBack(p)'
            BY <2>2, <2>3, <2>4, <2>6, <3>1 DEF Written, TakenBack, At
        <3>. QED
            BY <1>1, <2>2, <2>3, <2>4, <2>6, <3>2, SignupGoesOn DEF SignupSteps
    <2>7. CASE n # 7
        <3>1. n + 1 \in 1..7
            BY <1>1, <2>7
        <3>2. Written(p)' /\ TakenBack(p)'
            BY <2>2, <2>3, <2>4, <2>5, <2>7, <3>1 DEF Written, TakenBack, At
        <3>. QED
            BY <1>1, <2>2, <2>3, <2>4, <2>7, <3>2, SignupGoesOn DEF SignupSteps
    <2>. QED
        BY <2>6, <2>7
<1>. QED
    BY <1>2, <1>3

LEMMA MailStepsStand ==
    ASSUME NEW p \in Callers, Own(p), Allow(p) \/ WriteDraft(p) \/ Enqueue(p) \/ DropDraft(p)
    PROVE  SignupInv(p)'
<1>1. /\ {"n", "keys"} \subseteq DOMAIN proc[p]
      /\ Planned \subseteq rows[p] /\ blobs[p] \subseteq ObjectsOf(rows[p]) /\ RowsClosed(p)
    BY DEF Own, SignupAt, SignupTyped, SignupSteps, Written, Writing, Allow, WriteDraft, Enqueue,
           DropDraft, At
<1>2. CASE Allow(p)
    <2>1. UNCHANGED <<rows, blobs>> /\ (Go(p, "Draft") \/ Unsent(p))
        BY <1>2 DEF Allow, signupVars
    <2>2. RowsClosed(p)' /\ Planned \subseteq rows'[p] /\ blobs'[p] \subseteq ObjectsOf(rows'[p])
        BY <1>1, <2>1, SameRows
    <2>. QED
        BY <1>1, <2>1, <2>2, SignupWrites, UnsentStands DEF Own
<1>3. CASE WriteDraft(p)
    <2>1. Go(p, "Enqueue") /\ Write(p, {"drafts"})
        BY <1>3 DEF WriteDraft
    <2>2. RowsClosed(p)' /\ Planned \subseteq rows'[p] /\ blobs'[p] \subseteq ObjectsOf(rows'[p])
        BY <1>1, <2>1, MailOwned, OwnedWritten DEF Own
    <2>. QED
        BY <1>1, <2>1, <2>2, SignupWrites DEF Own
<1>4. CASE Enqueue(p)
    <2>. DEFINE mail == {"messages", "threads", "outbound_jobs"}
    <2>1. Answer(p, "done") /\ Write(p, mail) /\ p \in mailed'
        BY <1>4 DEF Enqueue
    <2>2. Owned(mail, rows[p])
        BY MailOwned
    <2>. HIDE DEF mail
    <2>3. RowsClosed(p)' /\ Planned \subseteq rows'[p]
        BY <1>1, <2>1, <2>2, OwnedWritten DEF Own
    <2>. QED
        BY <2>1, <2>3, SignupAnswered DEF Own, Answers
<1>5. CASE DropDraft(p)
    <2>1. Unsent(p)
        BY <1>5 DEF DropDraft
    <2>2. CASE UNCHANGED <<rows, blobs>>
        <3>1. RowsClosed(p)' /\ Planned \subseteq rows'[p] /\ blobs'[p] \subseteq ObjectsOf(rows'[p])
            BY <1>1, <2>2, SameRows
        <3>. QED
            BY <1>1, <2>1, <3>1, UnsentStands
    <2>3. CASE ~UNCHANGED <<rows, blobs>>
        <3>1. rows'[p] = rows[p] \ {"drafts"} /\ blobs'[p] = blobs[p] \ Objects("drafts")
            BY <1>5, <2>3 DEF DropDraft, Own
        <3>2. \A t \in Tables : "drafts" \notin FoundBy(t)
            BY DEF FoundBy
        <3>3. RowsClosed(p)'
            BY <1>1, <3>1, <3>2 DEF RowsClosed
        <3>4. Planned \subseteq rows'[p]
            BY <1>1, <3>1, PlannedAre
        <3>5. blobs'[p] \subseteq ObjectsOf(rows'[p])
            BY <1>1, <3>1 DEF ObjectsOf
        <3>. QED
            BY <1>1, <2>1, <3>3, <3>4, <3>5, UnsentStands
    <2>. QED
        BY <2>2, <2>3
<1>. QED
    BY <1>2, <1>3, <1>4, <1>5

LEMMA CleanupStands ==
    ASSUME NEW p \in Callers, Own(p), Keys(p) \/ Blobs(p) \/ Clean(p)
    PROVE  SignupInv(p)'
<1>1. {"n", "keys"} \subseteq DOMAIN proc[p] /\ "pc" \in DOMAIN proc[p] /\ RowsClosed(p)
    BY DEF Own, Shape, SignupAt, SignupTyped, SignupSteps, Keys, Blobs, Clean, At
<1>2. CASE Keys(p)
    <2>. DEFINE found == {k \in blobs[p] : Findable(p, k[1])}
                r == [proc[p] EXCEPT !.keys = found, !.n = 1, !.pc = "Blobs"]
    <2>1. blobs[p] \subseteq found
        <3>1. blobs[p] \subseteq ObjectsOf(rows[p])
            BY <1>2 DEF Own, SignupAt, Written, Writing, Keys, At
        <3>. QED
            BY <1>1, <3>1, ObjectsFound
    <2>2. Put(p, r) /\ UNCHANGED <<rows, blobs>>
        BY <1>2 DEF Keys, signupVars
    <2>. HIDE DEF found
    <2>3. DOMAIN r = DOMAIN proc[p] /\ r.pc = "Blobs" /\ r.n = 1 /\ r.keys = found
        BY <1>1
    <2>. HIDE DEF r
    <2>4. proc'[p] = r
        BY <1>1, <2>2, <2>3, PutMoves DEF Own
    <2>5. RowsClosed(p)'
        BY <1>1, <2>2, SameRows
    <2>6. Written(p)' /\ TakenBack(p)'
        BY <2>1, <2>2, <2>3, <2>4 DEF Written, TakenBack, At, Writing
    <2>. QED
        BY <1>1, <2>3, <2>4, <2>5, <2>6, SignupGoesOn DEF SignupSteps
<1>3. CASE Blobs(p)
    <2>1. /\ Go(p, "Clean") /\ UNCHANGED <<rows, broken>> /\ proc[p].n = 1
          /\ blobs'[p] = blobs[p] \ proc[p].keys
          /\ p \notin broken => blobs[p] \subseteq proc[p].keys
        BY <1>3 DEF Blobs, Own, SignupAt, TakenBack, At
    <2>2. proc'[p].pc = "Clean" /\ {"n", "keys"} \subseteq DOMAIN proc'[p] /\ proc'[p].n = 1
        BY <1>1, <2>1, GoKeeps DEF Own
    <2>3. RowsClosed(p)'
        BY <1>1, <2>1 DEF RowsClosed
    <2>4. Written(p)'
        BY <2>2 DEF Written, Writing, At
    <2>5. TakenBack(p)'
        BY <2>1, <2>2 DEF TakenBack, At
    <2>. QED
        BY <2>2, <2>3, <2>4, <2>5, SignupGoesOn DEF SignupSteps
<1>4. CASE Clean(p)
    <2>. DEFINE n == proc[p].n
                table == CleanupOrder[n]
    <2>1. /\ n \in 1..16 /\ \A i \in 1..16 : i < n => CleanupOrder[i] \notin rows[p]
          /\ p \notin broken => blobs[p] = {}
        BY <1>4 DEF Clean, Own, SignupAt, TakenBack, At
    <2>2. UNCHANGED <<blobs, broken>>
        BY <1>4 DEF Clean
    <2>3. rows'[p] = rows[p] \ {table}
        <3>1. table \in rows[p] => Findable(p, table)
            BY <1>1 DEF RowsClosed, Findable
        <3>2. rows'[p] = IF Findable(p, table) THEN rows[p] \ {table} ELSE rows[p]
            BY <1>4 DEF Clean, Own
        <3>. QED
            BY <3>1, <3>2
    <2>4. RowsClosed(p)'
        <3>1. ASSUME NEW t \in rows[p]
              PROVE  table \notin FoundBy(t)
            BY <1>1, <2>1, OwnersLast DEF RowsClosed
        <3>. QED
            BY <1>1, <2>3, <3>1 DEF RowsClosed
    <2>5. \A i \in 1..16 : i < n + 1 => CleanupOrder[i] \notin rows'[p]
        BY <2>1, <2>3
    <2>6. CASE n = 16
        <3>1. Answer(p, "error")
            BY <1>4, <2>6, CleanupIs DEF Clean
        <3>2. rows'[p] = {}
            <4>1. \A t \in Tables : \E i \in 1..16 : t = CleanupOrder[i]
                BY CleanupIs DEF Tables
            <4>2. \A i \in 1..16 : CleanupOrder[i] \notin rows'[p]
                BY <2>5, <2>6
            <4>. QED
                BY <2>4, <4>1, <4>2 DEF RowsClosed
        <3>. QED
            BY <2>1, <2>2, <2>4, <3>1, <3>2, SignupAnswered DEF Own, Answers
    <2>7. CASE n # 16
        <3>. DEFINE r == [proc[p] EXCEPT !.n = n + 1]
        <3>1. Put(p, r)
            BY <1>4, <2>7, CleanupIs DEF Clean
        <3>2. DOMAIN r = DOMAIN proc[p] /\ r.pc = "Clean" /\ r.n = n + 1
            BY <1>1, <1>4 DEF Clean, At
        <3>. HIDE DEF r
        <3>3. proc'[p] = r
            BY <1>1, <3>1, <3>2, PutMoves DEF Own
        <3>4. n + 1 \in 1..16
            BY <2>1, <2>7
        <3>5. Written(p)'
            BY <3>2, <3>3 DEF Written, Writing, At
        <3>6. TakenBack(p)'
            BY <2>1, <2>2, <2>5, <3>2, <3>3, <3>4 DEF TakenBack, At
        <3>. QED
            BY <1>1, <2>4, <3>2, <3>3, <3>5, <3>6, SignupGoesOn DEF SignupSteps
    <2>. QED
        BY <2>6, <2>7
<1>. QED
    BY <1>2, <1>3, <1>4

(* A call that failed has written its rows, or nothing.                    *)
LEMMA LostStands ==
    ASSUME NEW p \in Callers, Own(p), blobs[p] \subseteq ObjectsOf(rows[p]),
           NEW tables, Owned(tables, rows[p]), Lost(p, tables)
    PROVE  RowsClosed(p)' /\ rows[p] \subseteq rows'[p] /\ blobs'[p] \subseteq ObjectsOf(rows'[p])
<1>1. CASE UNCHANGED <<rows, blobs>>
    BY <1>1, SameRows DEF Own, SignupAt
<1>2. CASE Write(p, tables)
    BY <1>2, OwnedWritten DEF Own, SignupAt
<1>. QED
    BY <1>1, <1>2 DEF Lost

LEMMA FailSignupStands ==
    ASSUME NEW p \in Callers, Own(p), FailSignup(p)
    PROVE  SignupInv(p)'
<1>1. /\ {"n", "keys"} \subseteq DOMAIN proc[p] /\ "pc" \in DOMAIN proc[p] /\ RowsClosed(p)
      /\ proc[p].pc \in SignupSteps
    BY DEF Own, Shape, SignupAt, SignupTyped, FailSignup
<1>2. CASE At(p, "Check")
    <2>1. Answer(p, "error") /\ UNCHANGED <<rows, blobs>> /\ rows[p] = {} /\ blobs[p] = {}
        BY <1>2 DEF FailSignup, At, Own, SignupAt, Written
    <2>2. RowsClosed(p)'
        BY <1>1, <2>1, SameRows
    <2>. QED
        BY <2>1, <2>2, SignupAnswered DEF Own, Answers
<1>3. CASE At(p, "Provision")
    <2>. DEFINE tables == IF Conflict(p) THEN {} ELSE Plan[proc[p].n]
    <2>1. Go(p, "Keys") /\ Lost(p, tables)
        BY <1>3 DEF FailSignup, At
    <2>2. Owned(tables, rows[p])
        BY <1>3, PlanOwned, MailOwned DEF Own, SignupAt, Written
    <2>3. blobs[p] \subseteq ObjectsOf(rows[p])
        BY <1>3 DEF Own, SignupAt, Written, Writing, At
    <2>. HIDE DEF tables
    <2>. QED
        BY <1>1, <2>1, <2>2, <2>3, LostStands, SignupFails DEF Own
<1>4. CASE proc[p].pc \in {"Allow", "Draft", "Enqueue", "DropDraft"}
    <2>1. Planned \subseteq rows[p] /\ blobs[p] \subseteq ObjectsOf(rows[p])
        BY <1>4 DEF Own, SignupAt, Written, Writing
    <2>2. \E tables \in {{}, {"drafts"}, {"messages", "threads", "outbound_jobs"}} : Lost(p, tables)
        BY <1>4 DEF FailSignup, At, Lost
    <2>3. RowsClosed(p)' /\ Planned \subseteq rows'[p] /\ blobs'[p] \subseteq ObjectsOf(rows'[p])
        BY <2>1, <2>2, LostStands, MailOwned
    <2>4. Go(p, "Keys") \/ Unsent(p) \/ Go(p, "DropDraft")
        BY <1>4 DEF FailSignup, At
    <2>. QED
        BY <1>1, <2>3, <2>4, SignupFails, UnsentStands, SignupWrites DEF Own
<1>5. CASE proc[p].pc \in Undoing
    <2>1. UNCHANGED <<rows, blobs>> /\ p \in broken' /\ (Answer(p, "error") \/ (At(p, "Blobs") /\ Go(p, "Clean")))
        BY <1>5 DEF FailSignup, At, Undoing
    <2>2. RowsClosed(p)'
        BY <1>1, <2>1, SameRows
    <2>3. CASE Answer(p, "error")
        BY <2>1, <2>2, <2>3, SignupAnswered DEF Own, Answers
    <2>4. CASE At(p, "Blobs") /\ Go(p, "Clean")
        <3>1. proc'[p].pc = "Clean" /\ {"n", "keys"} \subseteq DOMAIN proc'[p] /\ proc'[p].n = 1
            BY <1>1, <2>4, GoKeeps DEF Own, SignupAt, TakenBack
        <3>2. Written(p)' /\ TakenBack(p)'
            BY <2>1, <3>1 DEF Written, Writing, TakenBack, At
        <3>. QED
            BY <2>2, <3>1, <3>2, SignupGoesOn DEF SignupSteps
    <2>. QED
        BY <2>1, <2>3, <2>4
<1>. QED
    BY <1>1, <1>2, <1>3, <1>4, <1>5 DEF FailSignup, SignupSteps, At, Undoing

(* Email that arrives adds rows, and takes none.                           *)
LEMMA ArriveStands ==
    ASSUME NEW p \in Callers, Own(p), Arrive(p)
    PROVE  SignupInv(p)'
<1>1. /\ {"n", "keys"} \subseteq DOMAIN proc[p] /\ RowsClosed(p)
      /\ proc[p].pc \in {"Provision", "Allow", "Draft", "Enqueue"} /\ proc' = proc
    BY DEF Own, SignupAt, SignupTyped, SignupSteps, Arrive
<1>2. blobs[p] \subseteq ObjectsOf(rows[p])
    BY <1>1 DEF Own, SignupAt, Written, Writing
<1>3. \/ Write(p, {"messages", "attachments", "threads"})
      \/ Write(p, {"messages", "attachments", "threads", "tasks", "agent_runs"})
    BY DEF Arrive
<1>4. RowsClosed(p)' /\ rows[p] \subseteq rows'[p] /\ blobs'[p] \subseteq ObjectsOf(rows'[p])
    BY <1>2, <1>3, MailOwned, LostStands DEF Lost
<1>5. Written(p)' /\ TakenBack(p)'
    BY <1>1, <1>4 DEF Own, SignupAt, Written, TakenBack, At
<1>. QED
    BY <1>1, <1>4, <1>5, SignupGoesOn DEF SignupSteps

LEMMA SignupStands ==
    ASSUME NEW p \in Callers, Own(p), SignupStep(p) \/ FailSignup(p) \/ Arrive(p) \/ Crash(p)
    PROVE  SignupInv(p)'
<1>1. CASE Crash(p)
    <2>1. /\ RowsClosed(p)' /\ Answer(p, "crashed")
        BY <1>1, SameRows DEF Crash, Own, SignupAt
    <2>. QED
        BY <2>1, SignupAnswered DEF Own, Answers
<1>. QED
    BY <1>1, FewRowsStand, ProvisionStands, MailStepsStand, CleanupStands, FailSignupStands, ArriveStands
       DEF SignupStep

LEMMA SignupsPreserved ==
    ASSUME PaymentInv, SignupsStand, NEW p \in Callers, Work(p) \/ Failure(p), UNCHANGED calls
    PROVE  SignupsStand'
<1>1. Moves(p) /\ SignupAlone(p) /\ DOMAIN rows' = Callers /\ DOMAIN blobs' = Callers
    BY StepMoves, OwnRows DEF SignupsStand
<1>2. ASSUME NEW q \in Callers, q # p
      PROVE  SignupInv(q)'
    <2>1. /\ proc'[q] = proc[q] /\ calls' = calls /\ rows'[q] = rows[q] /\ blobs'[q] = blobs[q]
          /\ (q \in broken' <=> q \in broken) /\ (q \in mailed' <=> q \in mailed)
        BY <1>1, <1>2 DEF Moves, SignupAlone
    <2>2. SignupInv(q)
        BY DEF SignupsStand
    <2>3. SignupTyped(q)' <=> SignupTyped(q)
        BY <2>1 DEF SignupTyped
    <2>4. RowsClosed(q)' <=> RowsClosed(q)
        BY <2>1 DEF RowsClosed
    <2>5. (Written(q)' <=> Written(q)) /\ (TakenBack(q)' <=> TakenBack(q))
        BY <2>1 DEF Written, TakenBack, At
    <2>6. SignupWhole(q)' <=> SignupWhole(q)
        BY <2>1 DEF SignupWhole, At
    <2>. QED
        BY <2>1, <2>2, <2>3, <2>4, <2>5, <2>6 DEF SignupInv, Calls
<1>3. ASSUME Calls(p, "signup")
      PROVE  SignupInv(p)'
    <2>1. SignupTyped(p) /\ Own(p)
        BY <1>3 DEF SignupsStand, SignupInv, Own, SignupAt, PaymentInv
    <2>2. SignupStep(p) \/ FailSignup(p) \/ Arrive(p) \/ Crash(p)
        BY <1>3, <2>1, OnlySignups DEF SignupTyped
    <2>. QED
        BY <2>1, <2>2, SignupStands
<1>4. SignupInv(p)'
    BY <1>3 DEF SignupInv, Calls
<1>. QED
    BY <1>1, <1>2, <1>4 DEF SignupsStand

(* A mailbox is made only where there is none at its address.              *)
LEMMA NewMailbox ==
    ASSUME NEW p \in Callers, Own(p), SignupStep(p) \/ FailSignup(p) \/ Arrive(p) \/ Crash(p),
           "mailboxes" \in rows'[p], "mailboxes" \notin rows[p]
    PROVE  ~Taken(Address(p))
<1>1. ASSUME NEW tables, "mailboxes" \notin tables, Write(p, tables)
      PROVE  FALSE
    BY <1>1 DEF Write, Own
<1>2. rows' # rows
    OBVIOUS
<1>3. At(p, "Provision") => proc[p].n = 1
    <2>1. ASSUME At(p, "Provision"), proc[p].n # 1
          PROVE  FALSE
        <3>1. proc[p].n \in 1..7 /\ \A i \in 1..7 : i < proc[p].n => Plan[i] \subseteq rows[p]
            BY <2>1 DEF Own, SignupAt, Written
        <3>2. Plan[1] \subseteq rows[p]
            BY <2>1, <3>1
        <3>. QED
            BY <3>2, PlanIs
    <2>. QED
        BY <2>1
<1>4. CASE SignupStep(p)
    <2>1. ~Start(p) /\ ~Check(p) /\ ~Routing(p) /\ ~Allow(p) /\ ~Keys(p) /\ ~Blobs(p)
        BY <1>2 DEF Start, Check, Routing, Allow, Keys, Blobs, signupVars
    <2>2. ~WriteDraft(p) /\ ~Enqueue(p)
        BY <1>1 DEF WriteDraft, Enqueue
    <2>3. ~DropDraft(p) /\ ~Clean(p)
        BY DEF DropDraft, Clean, Own
    <2>4. Provision(p) => ~Conflict(p)
        BY <1>2 DEF Provision
    <2>. QED
        BY <1>3, <1>4, <2>1, <2>2, <2>3, <2>4 DEF SignupStep, Provision, Conflict
<1>5. CASE FailSignup(p)
    <2>1. At(p, "Provision") /\ ~Conflict(p)
        BY <1>1, <1>2, <1>5 DEF FailSignup, Lost
    <2>. QED
        BY <1>3, <2>1 DEF Conflict
<1>6. ~Arrive(p) /\ ~Crash(p)
    BY <1>2 DEF Arrive, Crash
<1>. QED
    BY <1>4, <1>5, <1>6

LEMMA AddressesPreserved ==
    ASSUME PaymentInv, SignupsStand, AddressesDiffer, NEW p \in Callers, Work(p) \/ Failure(p),
           UNCHANGED calls
    PROVE  AddressesDiffer'
<1>1. /\ \A q \in Callers : q # p => rows'[q] = rows[q]
      /\ \A q \in Callers : Address(q)' = Address(q)
    BY OwnRows DEF SignupsStand, SignupAlone, Address
<1>2. ASSUME NEW q \in Callers, q # p, Calls(p, "signup"), Calls(q, "signup"),
             "mailboxes" \in rows'[p], "mailboxes" \in rows[q]
      PROVE  Address(p) # Address(q)
    <2>1. CASE "mailboxes" \in rows[p]
        BY <1>2, <2>1 DEF AddressesDiffer
    <2>2. CASE "mailboxes" \notin rows[p]
        <3>1. SignupTyped(p) /\ Own(p)
            BY <1>2 DEF SignupsStand, SignupInv, Own, SignupAt, PaymentInv
        <3>2. SignupStep(p) \/ FailSignup(p) \/ Arrive(p) \/ Crash(p)
            BY <1>2, <3>1, OnlySignups DEF SignupTyped
        <3>3. ~Taken(Address(p))
            BY <1>2, <2>2, <3>1, <3>2, NewMailbox
        <3>. QED
            BY <1>2, <3>3 DEF Taken
    <2>. QED
        BY <2>1, <2>2
<1>3. ASSUME NEW q \in Callers, NEW r \in Callers, q # r, Calls(q, "signup"), Calls(r, "signup"),
             "mailboxes" \in rows'[q], "mailboxes" \in rows'[r]
      PROVE  Address(q) # Address(r)
    <2>1. CASE q # p /\ r # p
        BY <1>1, <1>3, <2>1 DEF AddressesDiffer
    <2>2. CASE q = p \/ r = p
        BY <1>1, <1>2, <1>3, <2>2
    <2>. QED
        BY <2>1, <2>2
<1>. QED
    BY <1>1, <1>3 DEF AddressesDiffer, Calls

-----------------------------------------------------------------------------
(* Each step of a request for a token.                                     *)

TokenOwn(p) ==
    /\ Shape /\ AccessStands /\ TokenTyped(p) /\ DraftKept(p) /\ TokenBarred(p)
    /\ calls[p].call \in TokenCalls
    /\ Bar /\ UNCHANGED <<calls, accessVars>>

LEMMA GoAsking ==
    ASSUME Shape, NEW p \in Callers, NEW s, Go(p, s), {"need", "then"} \subseteq DOMAIN proc[p]
    PROVE  /\ proc'[p].pc = s /\ {"need", "then"} \subseteq DOMAIN proc'[p]
           /\ proc'[p].need = proc[p].need /\ proc'[p].then = proc[p].then
<1>. DEFINE r == [proc[p] EXCEPT !.pc = s]
<1>1. proc'[p] = r /\ proc'[p].pc = s
    BY GoMoves
<1>2. DOMAIN r = DOMAIN proc[p] /\ r.need = proc[p].need /\ r.then = proc[p].then
    OBVIOUS
<1>. QED
    BY <1>1, <1>2

LEMMA AnswerGiven ==
    ASSUME Shape, NEW p \in Callers, NEW a, Answer(p, a)
    PROVE  proc'[p].pc = a
BY PutMoves DEF Answer

(* A request that is barred still was before its step, and is forbidden.   *)
LEMMA BarredStep ==
    ASSUME NEW p \in Callers, TokenOwn(p), ~TwoChanges, p \in barred'
    PROVE  /\ Forbidden(p) /\ Forbidden(p)'
           /\ At(p, "free") \/ BarredStands(p)
           /\ p \notin handed \union queued /\ proc[p].pc \notin Granted
<1>1. Forbidden(p) /\ (p \in barred \/ At(p, "free"))
    BY BarredBefore DEF TokenOwn
<1>2. Forbidden(p)'
    <2>1. Able(TRUE)' = Able(TRUE) /\ Able(calls[p].scopes = "send")' = Able(calls[p].scopes = "send")
        BY DEF TokenOwn, accessVars, Able
    <2>2. ~Calls(p, "send")
        BY DEF TokenOwn, TokenCalls, Calls
    <2>. QED
        BY <1>1, <2>1, <2>2 DEF Forbidden, Minting, Calls, TokenOwn, accessVars
<1>3. p \in barred => BarredStands(p)
    BY DEF TokenOwn, TokenBarred
<1>4. At(p, "free") => p \notin handed \union queued /\ proc[p].pc \notin Granted
    BY DEF TokenOwn, DraftKept, At, Granted, Mailing
<1>. QED
    BY <1>1, <1>2, <1>3, <1>4 DEF BarredStands

LEMMA SameChanges ==
    ASSUME UNCHANGED calls
    PROVE  TwoChanges' <=> TwoChanges
BY DEF TwoChanges

(* One that is nowhere near a grant, or is not barred.                     *)
LEMMA BarredAside ==
    ASSUME NEW p \in Callers, TokenOwn(p), proc'[p].pc \notin Granted \union Asking \union {"Operator"},
           p \in handed' \union queued' => p \in handed \union queued \/ p \notin barred'
    PROVE  TokenBarred(p)'
<1>1. proc'[p].pc # "Deployment"
    BY DEF Asking
<1>2. ASSUME ~TwoChanges, p \in barred'
      PROVE  BarredStands(p)'
    BY <1>1, <1>2, BarredStep DEF BarredStands, PastClaims, Checking, At
<1>. QED
    BY <1>1, <1>2, SameChanges DEF TokenBarred, TokenOwn, At

LEMMA NotBarred ==
    ASSUME NEW p \in Callers, TokenOwn(p), proc'[p].pc # "Deployment", ~TwoChanges => p \notin barred'
    PROVE  TokenBarred(p)'
BY SameChanges DEF TokenBarred, TokenOwn, At

LEMMA GrantedStays ==
    ASSUME NEW p \in Callers, TokenOwn(p), proc[p].pc \in Granted, proc'[p].pc # "Deployment"
    PROVE  TokenBarred(p)'
BY BarredStep, NotBarred

(* Who may have the token is not barred.                                   *)
LEMMA GrantEarned ==
    ASSUME NEW p \in Callers, TokenOwn(p), Checking(p), Able(proc[p].need), ~TwoChanges
    PROVE  p \notin barred'
<1>. SUFFICES ASSUME p \in barred'
              PROVE  FALSE
    OBVIOUS
<1>1. Forbidden(p) /\ BarredStands(p)
    BY BarredStep DEF Checking, Asking, At
<1>2. Asks(p)
    BY DEF TokenOwn, TokenTyped, Checking
<1>3. CASE Rotating(p)
    <2>1. Able(TRUE)
        BY <1>2, <1>3 DEF Asks, Checking, Rotating, Minting, Calls
    <2>2. open
        BY <1>1, <1>3, <2>1 DEF BarredStands, PastClaims
    <2>. QED
        BY <1>1, <1>3, <2>1, <2>2 DEF Forbidden, Rotating, Minting, Calls
<1>4. CASE Minting(p)
    <2>1. proc[p].need = (calls[p].scopes = "send")
        BY <1>2, <1>4 DEF Asks, Checking
    <2>2. Able(calls[p].scopes = "send")
        BY <2>1
    <2>. QED
        BY <1>1, <1>4, <2>2 DEF Forbidden, Minting, Calls
<1>. QED
    BY <1>2, <1>3, <1>4 DEF Asks

LEMMA TokenGoesOn ==
    ASSUME NEW p \in Callers, TokenOwn(p), TokenTyped(p)', DraftKept(p)', TokenBarred(p)'
    PROVE  TokenInv(p)'
BY DEF TokenInv

(* One that is answered.                                                   *)
LEMMA TokenAnswered ==
    ASSUME NEW p \in Callers, TokenOwn(p), NEW a \in Answers, Answer(p, a),
           p \in drafts' => p \in queued' \union stray',
           Rotating(p) /\ a = "done" => p \in handed' \union queued',
           ~TwoChanges /\ p \in barred' /\ p \in handed' \union queued' => p \in handed \union queued
    PROVE  TokenInv(p)'
<1>1. proc'[p].pc = a
    BY AnswerGiven DEF TokenOwn
<1>2. TokenTyped(p)'
    BY <1>1 DEF TokenTyped, TokenPlaces, Answers, TokenSteps, Asking, Mailing, At
<1>3. DraftKept(p)'
    BY <1>1 DEF DraftKept, At, Answers, TokenOwn, Rotating, Calls
<1>4. TokenBarred(p)'
    <2>1. a \notin Granted \union Asking \union {"Operator"} /\ a # "Deployment"
        BY DEF Answers, Granted, Asking, Mailing
    <2>2. CASE ~TwoChanges => p \notin barred'
        BY <1>1, <2>1, <2>2, NotBarred
    <2>3. CASE ~TwoChanges /\ p \in barred'
        BY <1>1, <2>1, <2>3, BarredAside
    <2>. QED
        BY <2>2, <2>3
<1>. QED
    BY <1>2, <1>3, <1>4, TokenGoesOn

LEMMA TokenBegins ==
    ASSUME NEW p \in Callers, TokenOwn(p), Reissue(p) \/ Rotate(p) \/ Mint(p)
    PROVE  TokenInv(p)'
<1>1. At(p, "free") /\ p \notin drafts \union queued \union handed
    BY DEF Reissue, Rotate, Mint, Begun, TokenOwn, DraftKept
<1>2. ASSUME NEW s \in {"Recent", "Claims", "Binding"}, NEW need, NEW then, Begun(p, s, need, then),
             s = "Recent" => Calls(p, "reissue"),
             s = "Claims" => Rotating(p) /\ need = TRUE /\ then = "grant",
             s = "Binding" => \/ Rotating(p) /\ then = "claims"
                              \/ /\ Minting(p) /\ calls[p].agent
                                 /\ \/ then = "again"
                                    \/ then = "grant" /\ need = (calls[p].scopes = "send")
      PROVE  TokenInv(p)'
    <2>. DEFINE r == [pc |-> s, need |-> need, then |-> then]
    <2>1. proc'[p] = r /\ UNCHANGED tokenVars
        BY <1>2, PutMoves DEF Begun, TokenOwn
    <2>2. /\ proc'[p].pc = s /\ {"need", "then"} \subseteq DOMAIN proc'[p]
          /\ proc'[p].need = need /\ proc'[p].then = then
        BY <2>1
    <2>. HIDE DEF r
    <2>3. Minting(p) => ~Rotating(p)
        BY DEF Minting, Rotating, Calls
    <2>4. s = "Binding" => Asks(p)'
        BY <1>2, <2>2, <2>3 DEF Asks, Minting, Rotating, Calls, TokenOwn
    <2>5. TokenTyped(p)'
        BY <1>2, <2>2, <2>4 DEF TokenTyped, TokenPlaces, TokenSteps, Asking, Mailing, At, Rotating, Calls,
                                TokenOwn
    <2>6. DraftKept(p)'
        BY <1>1, <2>1, <2>2 DEF DraftKept, At, tokenVars, mailVars
    <2>7. TokenBarred(p)'
        <3>1. p \notin handed' \union queued'
            BY <1>1, <2>1 DEF tokenVars, mailVars
        <3>2. ASSUME ~TwoChanges, p \in barred'
              PROVE  BarredStands(p)'
            <4>1. Forbidden(p)'
                BY <3>2, BarredStep
            <4>2. ~PastClaims(p)'
                BY <1>2, <2>2, <2>3 DEF PastClaims, Checking, At, Rotating, Calls, Minting, Asking, TokenOwn
            <4>. QED
                BY <2>2, <3>1, <4>1, <4>2 DEF BarredStands, At, Granted, Mailing
        <3>. QED
            BY <2>2, <3>2, SameChanges DEF TokenBarred, TokenOwn, At
    <2>. QED
        BY <2>5, <2>6, <2>7, TokenGoesOn
<1>3. CASE Reissue(p)
    BY <1>2, <1>3 DEF Reissue
<1>4. CASE Rotate(p)
    BY <1>2, <1>4 DEF Rotate
<1>5. CASE Mint(p)
    <2>1. CASE Handed(p) /\ ~calls[p].agent
        <3>1. p \notin barred' \/ TwoChanges
            BY <1>5, <2>1, BarredStep DEF Mint, Forbidden, Minting, Calls
        <3>. QED
            BY <1>1, <1>5, <2>1, <3>1, TokenAnswered
               DEF Handed, Answers, Mint, Minting, Rotating, Calls, mailVars
    <2>2. CASE Answer(p, "refused") /\ UNCHANGED tokenVars
        BY <1>1, <2>2, TokenAnswered DEF Answers, tokenVars, mailVars
    <2>3. CASE \/ Calls(p, "mint") /\ calls[p].agent /\ Begun(p, "Binding", calls[p].scopes = "send", "grant")
               \/ Calls(p, "bootmint") /\ calls[p].agent /\ Begun(p, "Binding", FALSE, "again")
        BY <1>2, <2>3 DEF Minting, Calls
    <2>. QED
        BY <1>5, <2>1, <2>2, <2>3 DEF Mint
<1>. QED
    BY <1>3, <1>4, <1>5

(* A token that is earned is handed out, or mailed.                        *)
LEMMA PassStands ==
    ASSUME NEW p \in Callers, TokenOwn(p), proc[p].pc \in Asking, Pass(p), UNCHANGED mailVars,
           proc[p].then = "grant" /\ ~TwoChanges => p \notin barred'
    PROVE  TokenInv(p)'
<1>1. Asks(p) /\ {"need", "then"} \subseteq DOMAIN proc[p] /\ "pc" \in DOMAIN proc[p]
    BY DEF TokenOwn, TokenTyped, Asking, TokenSteps, Shape
<1>2. Minting(p) => ~Rotating(p)
    BY DEF Minting, Rotating, Calls
<1>3. p \in drafts => p \in queued \union stray
    BY DEF TokenOwn, DraftKept, Asking
<1>4. CASE proc[p].then = "claims"
    <2>. DEFINE r == [pc |-> "Claims", need |-> TRUE, then |-> "grant"]
    <2>1. Put(p, r) /\ handed' = handed
        BY <1>4 DEF Pass, Passed
    <2>2. proc'[p] = r
        BY <2>1, PutMoves DEF TokenOwn
    <2>3. /\ proc'[p].pc = "Claims" /\ {"need", "then"} \subseteq DOMAIN proc'[p]
          /\ proc'[p].need = TRUE /\ proc'[p].then = "grant"
        BY <2>2
    <2>. HIDE DEF r
    <2>4. Rotating(p)'
        BY <1>1, <1>4 DEF Asks, Rotating, Calls, TokenOwn
    <2>5. TokenTyped(p)'
        BY <2>3, <2>4 DEF TokenTyped, TokenPlaces, TokenSteps, Asking, Mailing, At
    <2>6. DraftKept(p)'
        BY <1>3, <2>3 DEF DraftKept, At, mailVars
    <2>7. TokenBarred(p)'
        BY <2>1, <2>3, BarredAside DEF mailVars, Granted, Asking, Mailing
    <2>. QED
        BY <2>5, <2>6, <2>7, TokenGoesOn
<1>5. CASE proc[p].then = "again"
    <2>. DEFINE need == calls[p].scopes = "send"
                r == [pc |-> "Binding", need |-> need, then |-> "grant"]
    <2>1. Put(p, r) /\ handed' = handed
        BY <1>5 DEF Pass, Passed
    <2>2. proc'[p] = r
        BY <2>1, PutMoves DEF TokenOwn
    <2>3. /\ proc'[p].pc = "Binding" /\ {"need", "then"} \subseteq DOMAIN proc'[p]
          /\ proc'[p].need = need /\ proc'[p].then = "grant"
        BY <2>2
    <2>. HIDE DEF r
    <2>4. Minting(p) /\ ~Rotating(p) /\ Asks(p)'
        BY <1>1, <1>2, <1>5, <2>3 DEF Asks, Rotating, Minting, Calls, TokenOwn
    <2>5. TokenTyped(p)'
        BY <2>3, <2>4 DEF TokenTyped, TokenPlaces, TokenSteps, Asking, Mailing, At
    <2>6. DraftKept(p)'
        BY <1>3, <2>3 DEF DraftKept, At, mailVars
    <2>7. ASSUME ~TwoChanges, p \in barred'
          PROVE  BarredStands(p)'
        <3>1. ~PastClaims(p)'
            BY <2>3, <2>4 DEF PastClaims, At, Rotating, Calls, TokenOwn
        <3>. QED
            BY <2>1, <2>3, <2>7, <3>1, BarredStep DEF BarredStands, At, Granted, Mailing, mailVars
    <2>8. TokenBarred(p)'
        BY <2>3, <2>7, SameChanges DEF TokenBarred, TokenOwn, At
    <2>. QED
        BY <2>5, <2>6, <2>8, TokenGoesOn
<1>6. CASE proc[p].then = "grant"
    <2>1. ~TwoChanges => p \notin barred'
        BY <1>6
    <2>2. CASE Rotating(p) /\ calls[p].delivery # "inline"
        <3>1. Go(p, "Deliver")
            BY <1>6, <2>2 DEF Pass, Passed
        <3>2. proc'[p].pc = "Deliver" /\ {"need", "then"} \subseteq DOMAIN proc'[p]
            BY <1>1, <3>1, GoAsking DEF TokenOwn
        <3>3. TokenTyped(p)'
            BY <2>2, <3>2 DEF TokenTyped, TokenPlaces, TokenSteps, Asking, Mailing, At, Rotating, Calls,
                              TokenOwn
        <3>4. DraftKept(p)'
            BY <1>3, <3>2 DEF DraftKept, At, mailVars
        <3>. QED
            BY <2>1, <3>2, <3>3, <3>4, NotBarred, TokenGoesOn
    <2>3. CASE ~(Rotating(p) /\ calls[p].delivery # "inline")
        <3>1. Answer(p, "done")
            BY <1>6, <2>3 DEF Pass, Passed
        <3>2. handed' = handed \union {p}
            BY <1>1, <1>6, <2>3 DEF Pass, Asks
        <3>. QED
            BY <1>3, <2>1, <3>1, <3>2, TokenAnswered DEF Answers, mailVars
    <2>. QED
        BY <2>2, <2>3
<1>. QED
    BY <1>1, <1>4, <1>5, <1>6 DEF Asks

(* It goes on with the next table.                                         *)
LEMMA AskStands ==
    ASSUME NEW p \in Callers, TokenOwn(p), proc[p].pc \in {"Binding", "AnyBinding"},
           NEW s \in {"AnyBinding", "Deployment"}, Go(p, s), UNCHANGED <<mailVars, handed>>,
           s = "Deployment" => binding = "none"
    PROVE  TokenInv(p)'
<1>1. Asks(p) /\ {"need", "then"} \subseteq DOMAIN proc[p]
    BY DEF TokenOwn, TokenTyped, Asking, TokenSteps
<1>2. /\ proc'[p].pc = s /\ {"need", "then"} \subseteq DOMAIN proc'[p]
      /\ proc'[p].need = proc[p].need /\ proc'[p].then = proc[p].then
    BY <1>1, GoAsking DEF TokenOwn
<1>3. Asks(p)'
    BY <1>1, <1>2 DEF Asks, Minting, Rotating, Calls, TokenOwn
<1>4. TokenTyped(p)'
    BY <1>2, <1>3 DEF TokenTyped, TokenPlaces, TokenSteps, Asking, Mailing, At
<1>5. DraftKept(p)'
    BY <1>2 DEF TokenOwn, DraftKept, At, mailVars
<1>6. s = "Deployment" => binding' = "none"
    BY DEF TokenOwn, accessVars
<1>7. ASSUME ~TwoChanges, p \in barred'
      PROVE  BarredStands(p)'
    <2>1. BarredStands(p) /\ Forbidden(p)'
        BY <1>7, BarredStep DEF At
    <2>2. PastClaims(p)' => PastClaims(p)
        BY <1>2 DEF PastClaims, Checking, Asking, At, Rotating, Calls, TokenOwn
    <2>3. PastClaims(p)' => open' \/ ~Able(TRUE)'
        BY <2>1, <2>2 DEF BarredStands, Able, TokenOwn, accessVars
    <2>4. p \notin handed' \union queued' /\ proc'[p].pc \notin Granted
        BY <1>2, <2>1 DEF BarredStands, mailVars, Granted, Mailing
    <2>. QED
        BY <1>2, <1>6, <2>1, <2>3, <2>4 DEF BarredStands, At
<1>8. TokenBarred(p)'
    BY <1>2, <1>6, <1>7, SameChanges DEF TokenBarred, TokenOwn, At
<1>. QED
    BY <1>4, <1>5, <1>8, TokenGoesOn

LEMMA AskingStands ==
    ASSUME NEW p \in Callers, TokenOwn(p), Binding(p) \/ AnyBinding(p) \/ Deployment(p)
    PROVE  TokenInv(p)'
<1>1. proc[p].pc \in Asking /\ (p \in drafts => p \in queued \union stray)
    BY DEF Binding, AnyBinding, Deployment, At, Asking, TokenOwn, DraftKept
<1>2. CASE Answer(p, "refused") /\ UNCHANGED <<mailVars, handed>>
    BY <1>1, <1>2, TokenAnswered DEF Answers, mailVars
<1>3. CASE Binding(p)
    <2>1. CASE binding \in Roles(proc[p].need)
        <3>1. proc[p].then = "grant" /\ ~TwoChanges => p \notin barred'
            BY <1>1, <2>1, GrantEarned DEF Checking, Able
        <3>. QED
            BY <1>1, <1>3, <2>1, <3>1, PassStands DEF Binding
    <2>2. CASE binding \notin Roles(proc[p].need)
        <3>. DEFINE s == IF proc[p].need THEN "AnyBinding" ELSE "Deployment"
        <3>1. Go(p, s) /\ UNCHANGED <<mailVars, handed>>
            BY <1>3, <2>2 DEF Binding
        <3>2. s = "Deployment" => binding = "none"
            BY <2>2 DEF Roles, TokenOwn, AccessStands, BindingRoles
        <3>. QED
            BY <1>3, <3>1, <3>2, AskStands DEF Binding, At
    <2>. QED
        BY <2>1, <2>2
<1>4. CASE AnyBinding(p)
    BY <1>2, <1>4, AskStands DEF AnyBinding, At, tokenVars
<1>5. CASE Deployment(p)
    <2>1. CASE deployed
        <3>1. ASSUME proc[p].then = "grant", ~TwoChanges, p \in barred'
              PROVE  FALSE
            <4>1. BarredStands(p) /\ Checking(p)
                BY <1>1, <1>5, <3>1, BarredStep DEF Checking, Deployment, At
            <4>2. Able(proc[p].need)
                BY <1>5, <2>1, <4>1 DEF BarredStands, Deployment, Able
            <4>. QED
                BY <3>1, <4>1, <4>2, GrantEarned
        <3>. QED
            BY <1>1, <1>5, <2>1, <3>1, PassStands DEF Deployment
    <2>2. CASE ~deployed
        BY <1>2, <1>5, <2>2 DEF Deployment
    <2>. QED
        BY <2>1, <2>2
<1>. QED
    BY <1>3, <1>4, <1>5

(* A request that asks for no access at its next step, or is not barred.   *)
LEMMA TokenPlain ==
    ASSUME NEW p \in Callers, TokenOwn(p), NEW s \in TokenSteps \ Asking, Go(p, s),
           proc[p].pc \in TokenSteps,
           s # "Claims",
           s \in {"Deliver", "Sender"} => Rotating(p),
           s \in {"Recent", "ByIp", "Target", "Operator", "Log"} => Calls(p, "reissue"),
           s \in Mailing => Calls(p, "reissue") \/ Rotating(p),
           p \in drafts' => s \in {"MailQueue", "MailUndo"} \/ p \in queued' \union stray',
           s \in Granted => (~TwoChanges => p \notin barred'),
           s = "Operator" => open,
           p \in handed' \union queued' => p \in handed \union queued \/ (~TwoChanges => p \notin barred')
    PROVE  TokenInv(p)'
<1>1. proc'[p].pc = s /\ {"need", "then"} \subseteq DOMAIN proc'[p]
    BY GoAsking DEF TokenOwn, TokenTyped
<1>2. TokenTyped(p)'
    BY <1>1 DEF TokenTyped, TokenPlaces, At, Rotating, Calls, TokenOwn
<1>3. DraftKept(p)'
    BY <1>1 DEF DraftKept, At, TokenSteps
<1>4. s # "Deployment"
    BY DEF Asking
<1>5. TokenBarred(p)'
    <2>1. CASE ~TwoChanges => p \notin barred'
        BY <1>1, <1>4, <2>1, NotBarred
    <2>2. CASE ~TwoChanges /\ p \in barred' /\ s # "Operator"
        <3>1. s \notin Granted \union Asking
            BY <2>2
        <3>. QED
            BY <1>1, <2>2, <3>1, BarredAside
    <2>3. CASE ~TwoChanges /\ p \in barred' /\ s = "Operator"
        <3>1. p \notin handed' \union queued' /\ Forbidden(p)'
            BY <2>3, BarredStep
        <3>2. open' /\ s \notin Granted
            BY <2>3 DEF TokenOwn, accessVars
        <3>3. BarredStands(p)'
            BY <1>1, <1>4, <3>1, <3>2 DEF BarredStands, At
        <3>. QED
            BY <1>1, <1>4, <3>3, SameChanges DEF TokenBarred, TokenOwn, At
    <2>. QED
        BY <2>1, <2>2, <2>3
<1>. QED
    BY <1>2, <1>3, <1>5, TokenGoesOn

LEMMA ReissueSteps ==
    ASSUME NEW p \in Callers, TokenOwn(p), Recent(p) \/ ByIp(p) \/ Target(p) \/ Operator(p)
    PROVE  TokenInv(p)'
<1>1. /\ proc[p].pc \in {"Recent", "ByIp", "Target", "Operator"} /\ proc[p].pc \in TokenSteps
      /\ UNCHANGED <<mailVars, handed>>
    BY DEF Recent, ByIp, Target, Operator, At, TokenSteps, tokenVars
<1>2. Calls(p, "reissue") /\ ~Rotating(p) /\ (p \in drafts => p \in queued \union stray)
    BY <1>1 DEF TokenOwn, TokenTyped, DraftKept, Rotating, Calls
<1>3. CASE Answer(p, "done")
    BY <1>1, <1>2, <1>3, TokenAnswered DEF Answers, mailVars
<1>4. ASSUME NEW s \in {"ByIp", "Target", "Operator", "MailDraft"}, Go(p, s),
             s = "MailDraft" => (~TwoChanges => p \notin barred'), s = "Operator" => open
      PROVE  TokenInv(p)'
    BY <1>1, <1>2, <1>4, TokenPlain DEF TokenSteps, Asking, Mailing, Granted, mailVars
<1>5. CASE Operator(p)
    <2>1. ASSUME Able(TRUE), ~TwoChanges, p \in barred'
          PROVE  FALSE
        <3>1. Forbidden(p) /\ BarredStands(p)
            BY <1>5, <2>1, BarredStep DEF Operator, At
        <3>2. open
            BY <1>5, <2>1, <3>1 DEF BarredStands, PastClaims, Operator
        <3>. QED
            BY <1>2, <2>1, <3>1, <3>2 DEF Forbidden, Minting, Calls
    <2>. QED
        BY <1>3, <1>4, <1>5, <2>1 DEF Operator
<1>. QED
    BY <1>3, <1>4, <1>5 DEF Recent, ByIp, Target

LEMMA ClaimsStand ==
    ASSUME NEW p \in Callers, TokenOwn(p), Claims(p)
    PROVE  TokenInv(p)'
<1>1. /\ Rotating(p) /\ proc[p].need = TRUE /\ proc[p].then = "grant" /\ ~Minting(p)
      /\ {"need", "then"} \subseteq DOMAIN proc[p] /\ (p \in drafts => p \in queued \union stray)
    BY DEF Claims, TokenOwn, TokenTyped, TokenSteps, DraftKept, At, Minting, Rotating, Calls
<1>2. UNCHANGED <<mailVars, handed>>
    BY DEF Claims, tokenVars
<1>3. CASE Answer(p, "refused")
    BY <1>1, <1>2, <1>3, TokenAnswered DEF Answers, mailVars
<1>4. CASE Go(p, "Binding") /\ open
    <2>1. /\ proc'[p].pc = "Binding" /\ {"need", "then"} \subseteq DOMAIN proc'[p]
          /\ proc'[p].need = TRUE /\ proc'[p].then = "grant"
        BY <1>1, <1>4, GoAsking DEF TokenOwn
    <2>2. Asks(p)'
        BY <1>1, <2>1 DEF Asks, Minting, Rotating, Calls, TokenOwn
    <2>3. TokenTyped(p)'
        BY <2>1, <2>2 DEF TokenTyped, TokenPlaces, TokenSteps, Asking, Mailing, At
    <2>4. DraftKept(p)'
        BY <1>1, <1>2, <2>1 DEF DraftKept, At, mailVars
    <2>5. open'
        BY <1>4 DEF TokenOwn, accessVars
    <2>6. ASSUME ~TwoChanges, p \in barred'
          PROVE  BarredStands(p)'
        BY <1>2, <2>1, <2>5, <2>6, BarredStep DEF BarredStands, At, Granted, Mailing, mailVars
    <2>7. TokenBarred(p)'
        BY <2>1, <2>6, SameChanges DEF TokenBarred, TokenOwn, At
    <2>. QED
        BY <2>3, <2>4, <2>7, TokenGoesOn
<1>. QED
    BY <1>3, <1>4 DEF Claims

LEMMA GrantedFree ==
    ASSUME NEW p \in Callers, TokenOwn(p), proc[p].pc \in Granted
    PROVE  ~TwoChanges => p \notin barred'
BY BarredStep

LEMMA UnmailedStands ==
    ASSUME NEW p \in Callers, TokenOwn(p), proc[p].pc \in Granted, Unmailed(p),
           p \in drafts' => p \in queued' \union stray'
    PROVE  TokenInv(p)'
<1>1. Rotating(p) => p \in handed'
    BY DEF Unmailed
<1>. QED
    BY <1>1, GrantedFree, TokenAnswered DEF Unmailed, Answers

LEMMA DeliverySteps ==
    ASSUME NEW p \in Callers, TokenOwn(p),
           Deliver(p) \/ Sender(p) \/ MailDraft(p) \/ MailQueue(p) \/ MailUndo(p) \/ Log(p)
    PROVE  TokenInv(p)'
<1>1. proc[p].pc \in Granted /\ proc[p].pc \in TokenSteps
    BY DEF Deliver, Sender, MailDraft, MailQueue, MailUndo, Log, At, Granted, Mailing, TokenSteps
<1>2. ~TwoChanges => p \notin barred'
    BY <1>1, GrantedFree
<1>3. ~At(p, "MailQueue") /\ ~At(p, "MailUndo") /\ p \in drafts => p \in queued \union stray
    BY DEF TokenOwn, DraftKept, At
<1>4. CASE Deliver(p) \/ Sender(p)
    <2>1. Rotating(p) /\ (p \in drafts' => p \in queued' \union stray')
        BY <1>3, <1>4 DEF Deliver, Sender, At, TokenOwn, TokenTyped, mailVars
    <2>2. CASE Unmailed(p)
        BY <1>1, <2>1, <2>2, UnmailedStands
    <2>3. CASE Go(p, "Sender") \/ Go(p, "MailDraft")
        BY <1>1, <1>2, <2>1, <2>3, TokenPlain DEF TokenSteps, Asking, Mailing
    <2>. QED
        BY <1>4, <2>2, <2>3 DEF Deliver, Sender
<1>5. CASE MailDraft(p)
    <2>1. Calls(p, "reissue") \/ Rotating(p)
        BY <1>5 DEF MailDraft, At, TokenOwn, TokenTyped, Mailing
    <2>. QED
        BY <1>1, <1>2, <1>5, <2>1, TokenPlain DEF MailDraft, TokenSteps, Asking, Mailing
<1>6. CASE MailQueue(p)
    <2>1. Calls(p, "reissue") \/ Rotating(p)
        BY <1>6 DEF MailQueue, At, TokenOwn, TokenTyped, Mailing
    <2>2. p \in queued'
        BY <1>6 DEF MailQueue, Queue
    <2>3. CASE Rotating(p)
        BY <1>2, <1>6, <2>2, <2>3, TokenAnswered DEF MailQueue, Answers
    <2>4. CASE ~Rotating(p)
        BY <1>1, <1>2, <1>6, <2>1, <2>2, <2>4, TokenPlain DEF MailQueue, TokenSteps, Asking, Mailing
    <2>. QED
        BY <2>3, <2>4
<1>7. CASE MailUndo(p)
    BY <1>1, <1>7, UnmailedStands DEF MailUndo
<1>8. CASE Log(p)
    <2>1. ~Rotating(p)
        BY <1>8 DEF Log, At, TokenOwn, TokenTyped, Rotating, Calls
    <2>. QED
        BY <1>2, <1>3, <1>8, <2>1, TokenAnswered DEF Log, At, Answers
<1>. QED
    BY <1>4, <1>5, <1>6, <1>7, <1>8

LEMMA FailTokenStands ==
    ASSUME NEW p \in Callers, TokenOwn(p), FailToken(p) \/ Crash(p)
    PROVE  TokenInv(p)'
<1>1. ~At(p, "MailQueue") /\ ~At(p, "MailUndo") /\ p \in drafts => p \in queued \union stray
    BY DEF TokenOwn, DraftKept, At
<1>2. CASE Crash(p)
    BY <1>1, <1>2, TokenAnswered DEF Crash, Answers
<1>3. CASE Answer(p, "error") /\ UNCHANGED <<mailVars, handed>> /\ ~At(p, "MailQueue") /\ ~At(p, "MailUndo")
    BY <1>1, <1>3, TokenAnswered DEF Answers, mailVars
<1>4. CASE Answer(p, "done") /\ UNCHANGED <<mailVars, handed>> /\ proc[p].pc \in {"Target", "Operator", "Log"}
    <2>1. ~Rotating(p) /\ ~At(p, "MailQueue") /\ ~At(p, "MailUndo")
        BY <1>4 DEF TokenOwn, TokenTyped, Rotating, Calls, At
    <2>. QED
        BY <1>1, <1>4, <2>1, TokenAnswered DEF Answers, mailVars
<1>5. CASE At(p, "Sender") /\ Unmailed(p) /\ UNCHANGED mailVars
    BY <1>1, <1>5, UnmailedStands DEF At, Granted, mailVars
<1>6. CASE At(p, "MailDraft") /\ Unmailed(p) /\ FailToken(p)
    <2>1. p \in drafts' => p \in queued' \union stray'
        BY <1>1, <1>6 DEF FailToken, At, mailVars
    <2>. QED
        BY <1>6, <2>1, UnmailedStands DEF At, Granted, Mailing
<1>7. CASE At(p, "MailQueue") /\ Go(p, "MailUndo") /\ FailToken(p)
    <2>1. (Calls(p, "reissue") \/ Rotating(p)) /\ proc[p].pc \in Granted /\ proc[p].pc \in TokenSteps
        BY <1>7 DEF At, TokenOwn, TokenTyped, Granted, Mailing, TokenSteps
    <2>. QED
        BY <1>7, <2>1, GrantedFree, TokenPlain DEF TokenSteps, Asking, Mailing
<1>8. CASE At(p, "MailUndo") /\ Unmailed(p) /\ p \in stray'
    BY <1>8, UnmailedStands DEF At, Granted, Mailing
<1>. QED
    BY <1>2, <1>3, <1>4, <1>5, <1>6, <1>7, <1>8 DEF FailToken, At

LEMMA TokenStands ==
    ASSUME NEW p \in Callers, TokenOwn(p), TokenStep(p) \/ FailToken(p) \/ Crash(p), ~Change(p)
    PROVE  TokenInv(p)'
BY TokenBegins, AskingStands, ReissueSteps, ClaimsStand, DeliverySteps, FailTokenStands DEF TokenStep

(* What is asked for changes at once.                                      *)
LEMMA OnlyChanges ==
    ASSUME NEW p \in Callers, calls[p].call \in Changing, proc[p].pc \in Answers \union {"free"},
           Work(p) \/ (Failure(p) /\ UNCHANGED overlapped)
    PROVE  Change(p)
<1>1. TokenStep(p) \/ FailToken(p) \/ Crash(p)
    BY OnlyTokens DEF TokenPlaces
<1>2. ~FailToken(p) /\ ~Crash(p)
    BY DEF FailToken, TokenSteps, Crash, Running, Answers
<1>3. ~Reissue(p) /\ ~Rotate(p) /\ ~Mint(p)
    BY DEF Reissue, Rotate, Rotating, Mint, Minting, Changing, Calls
<1>4. ~Recent(p) /\ ~ByIp(p) /\ ~Target(p) /\ ~Operator(p)
    BY DEF Recent, ByIp, Target, Operator, At, Answers
<1>5. ~Binding(p) /\ ~AnyBinding(p) /\ ~Deployment(p) /\ ~Claims(p)
    BY DEF Binding, AnyBinding, Deployment, Claims, At, Answers
<1>6. ~Deliver(p) /\ ~Sender(p) /\ ~MailDraft(p) /\ ~MailQueue(p) /\ ~MailUndo(p) /\ ~Log(p)
    BY DEF Deliver, Sender, MailDraft, MailQueue, MailUndo, Log, At, Answers
<1>. QED
    BY <1>1, <1>2, <1>3, <1>4, <1>5, <1>6 DEF TokenStep

LEMMA AccessPreserved ==
    ASSUME PaymentInv, AccessStands, NEW p \in Callers,
           Work(p) \/ (Failure(p) /\ UNCHANGED overlapped), UNCHANGED calls, Moves(p)
    PROVE  AccessStands'
<1>1. CASE calls[p].call \in Changing
    <2>1. Change(p)
        BY <1>1, OnlyChanges DEF AccessStands
    <2>2. proc'[p].pc = "done"
        BY <2>1, AnswerGiven DEF Change, PaymentInv
    <2>3. binding' \in BindingRoles
        BY <2>1 DEF Change, AccessStands, PaymentInv, Shape, Sendable, Calls
    <2>4. ~Still'
        BY <1>1, <2>2 DEF Still, At
    <2>. QED
        BY <2>2, <2>3, <2>4 DEF AccessStands, Moves, Answers
<1>2. CASE calls[p].call \notin Changing
    <2>1. UNCHANGED accessVars
        BY <1>2, AccessKept DEF Change
    <2>2. \A q \in Callers : calls[q].call \in Changing => proc'[q] = proc[q]
        BY <1>2 DEF Moves
    <2>3. Still' <=> Still
        BY <2>2 DEF Still, At
    <2>. QED
        BY <2>1, <2>2, <2>3, SameChanges DEF AccessStands, accessVars
<1>. QED
    BY <1>1, <1>2

(* What another request does to one for a token.                           *)
LEMMA ChangedBarred ==
    ASSUME NEW p \in Callers, Change(p), AccessStands, ~TwoChanges, UNCHANGED calls, Shape, Moves(p),
           NEW q \in Callers, calls[q].call \in TokenCalls, q # p, TokenAlone(p),
           TokenTyped(q), Forbidden(q), BarredStands(q), Still /\ At(q, "Deployment") => binding = "none"
    PROVE  BarredStands(q)'
<1>1. Still /\ open
    BY DEF Change, TwoChanges, Still, AccessStands
<1>2. proc'[p].pc = "done" /\ calls[p].call \in Changing /\ proc'[q] = proc[q]
    BY AnswerGiven DEF Change, Moves
<1>3. ~Still'
    BY <1>2 DEF Still, At
<1>4. PastClaims(q)' => open' \/ ~Able(TRUE)'
    <2>1. ASSUME PastClaims(q)
          PROVE  ~Able(TRUE)
        <3>1. Calls(q, "reissue") \/ Rotating(q)
            BY <2>1 DEF PastClaims, TokenTyped, At
        <3>. QED
            BY <1>1, <3>1 DEF Forbidden, Rotating, Minting, Calls
    <2>2. PastClaims(q)' => PastClaims(q)
        BY <1>2 DEF PastClaims, Checking, Rotating, Calls, At
    <2>3. ~Calls(p, "close") => open'
        BY <1>1 DEF Change
    <2>4. Calls(p, "close") => Able(TRUE)' = Able(TRUE)
        BY DEF Change, Calls, Able
    <2>. QED
        BY <2>1, <2>2, <2>3, <2>4
<1>5. At(q, "Deployment")' /\ Checking(q)' => binding' = "none" \/ ~deployed'
    <2>1. ASSUME At(q, "Deployment"), Checking(q)
          PROVE  binding = "none" /\ ~deployed
        <3>1. binding = "none"
            BY <1>1, <2>1
        <3>2. Asks(q)
            BY <2>1 DEF TokenTyped, Checking
        <3>3. ~(\A need \in BOOLEAN : Able(need))
            BY <1>1, <3>2 DEF Forbidden, Asks, Rotating, Minting, Calls
        <3>. QED
            BY <3>1, <3>3 DEF Able
    <2>2. At(q, "Deployment")' /\ Checking(q)' => At(q, "Deployment") /\ Checking(q)
        BY <1>2 DEF Checking, At
    <2>3. binding' = binding \/ deployed' = deployed
        BY DEF Change, Calls
    <2>. QED
        BY <2>1, <2>2, <2>3
<1>6. proc'[q].pc \notin Granted /\ q \notin handed' \union queued'
    BY <1>2 DEF BarredStands, TokenAlone
<1>. QED
    BY <1>3, <1>4, <1>5, <1>6 DEF BarredStands

LEMMA OthersTokens ==
    ASSUME PaymentInv, TokensStand, NEW p \in Callers,
           Work(p) \/ (Failure(p) /\ UNCHANGED overlapped), Bar, UNCHANGED calls,
           NEW q \in Callers, q # p, calls[q].call \in TokenCalls
    PROVE  TokenInv(q)'
<1>1. /\ Moves(p) /\ TokenAlone(p) /\ proc'[q] = proc[q]
      /\ TokenTyped(q) /\ DraftKept(q) /\ TokenBarred(q) /\ AccessStands /\ Shape
    BY StepMoves, OwnTokens DEF Moves, TokensStand, TokenInv, PaymentInv
<1>2. TokenTyped(q)'
    BY <1>1 DEF TokenTyped, Asks, Minting, Rotating, Calls, At
<1>3. DraftKept(q)'
    BY <1>1 DEF DraftKept, TokenAlone, Rotating, Calls, At
<1>4. ASSUME q \in barred'
      PROVE  Forbidden(q) /\ (q \in barred \/ At(q, "free"))
    BY <1>4, BarredBefore
<1>5. CASE Change(p)
    <2>1. proc'[p].pc = "done" /\ calls[p].call \in Changing
        BY <1>1, <1>5, AnswerGiven DEF Change
    <2>2. ~Still'
        BY <2>1 DEF Still, At
    <2>3. ASSUME ~TwoChanges, q \in barred', q \in barred
          PROVE  BarredStands(q)'
        BY <1>1, <1>4, <1>5, <2>3, ChangedBarred DEF TokenBarred
    <2>4. ASSUME At(q, "free")
          PROVE  BarredStands(q)'
        BY <1>1, <2>2, <2>4 DEF BarredStands, PastClaims, Checking, Asking, Granted, Mailing, At,
                                DraftKept, TokenAlone
    <2>. QED
        BY <1>2, <1>3, <1>4, <2>2, <2>3, <2>4, SameChanges DEF TokenInv, TokenBarred
<1>6. CASE ~Change(p)
    <2>1. UNCHANGED accessVars
        BY <1>6, AccessKept
    <2>2. Still' => Still
        BY <1>1, <1>6, OnlyChanges DEF Still, Moves, At, AccessStands
    <2>3. ASSUME q \in barred'
          PROVE  Forbidden(q)'
        BY <1>4, <2>1, <2>3 DEF Forbidden, Able, Minting, Calls, accessVars, TokenCalls
    <2>4. ASSUME ~TwoChanges, q \in barred', q \in barred
          PROVE  BarredStands(q)'
        <3>1. BarredStands(q)
            BY <1>1, <2>4 DEF TokenBarred
        <3>2. PastClaims(q)' => PastClaims(q)
            BY <1>1 DEF PastClaims, Checking, Rotating, Calls, At
        <3>3. Checking(q)' => Checking(q)
            BY <1>1 DEF Checking
        <3>. QED
            BY <1>1, <2>1, <2>3, <2>4, <3>1, <3>2, <3>3
               DEF BarredStands, accessVars, Able, At, TokenAlone
    <2>5. ASSUME At(q, "free"), q \in barred'
          PROVE  BarredStands(q)'
        BY <1>1, <2>3, <2>5 DEF BarredStands, PastClaims, Checking, Asking, Granted, Mailing, At,
                                DraftKept, TokenAlone
    <2>6. ~TwoChanges /\ Still' /\ At(q, "Deployment")' => binding' = "none"
        BY <1>1, <2>1, <2>2 DEF TokenBarred, At, accessVars
    <2>. QED
        BY <1>2, <1>3, <1>4, <2>4, <2>5, <2>6, SameChanges DEF TokenInv, TokenBarred
<1>. QED
    BY <1>5, <1>6

LEMMA TokensPreserved ==
    ASSUME PaymentInv, TokensStand, NEW p \in Callers,
           Work(p) \/ (Failure(p) /\ UNCHANGED overlapped), Bar, UNCHANGED calls
    PROVE  TokensStand'
<1>1. AccessStands'
    BY StepMoves, AccessPreserved DEF TokensStand
<1>2. ASSUME calls[p].call \in TokenCalls
      PROVE  TokenInv(p)'
    <2>1. ~Change(p)
        BY <1>2 DEF Change, Changing, TokenCalls
    <2>2. TokenOwn(p)
        BY <1>2, <2>1, AccessKept DEF TokenOwn, TokensStand, TokenInv, PaymentInv
    <2>3. TokenStep(p) \/ FailToken(p) \/ Crash(p)
        BY <1>2, <2>2, OnlyTokens DEF TokenOwn, TokenTyped
    <2>. QED
        BY <2>1, <2>2, <2>3, TokenStands
<1>3. ASSUME NEW q \in Callers, calls[q].call \in TokenCalls
      PROVE  TokenInv(q)'
    BY <1>2, <1>3, OthersTokens
<1>4. ASSUME NEW q \in Callers
      PROVE  TokenInv(q)'
    BY <1>3, <1>4 DEF TokenInv
<1>. QED
    BY <1>1, <1>4 DEF TokensStand

-----------------------------------------------------------------------------
(* The cooldown.                                                           *)

(* What a step of a reissue writes in the books, and where it gets to.     *)
Books(p) ==
    /\ p \in unlogged => p \in unlogged' \/ At(p, "Log")
    /\ p \in queued' => p \in queued \/ p \in unlogged'
    /\ p \in reissues => p \in reissues'
    /\ p \in unlogged => p \in unlogged' \/ p \in reissues'
    /\ Running(p)' => Running(p) \/ (At(p, "free") /\ proc'[p].pc = "Recent")
    /\ Running(p)' /\ proc'[p].pc # "Recent" => \/ Running(p) /\ ~At(p, "Recent")
                                                \/ At(p, "Recent") /\ reissues = {}

LEMMA ReissueBooks ==
    ASSUME Shape, NEW p \in Callers, Calls(p, "reissue"), TokenTyped(p),
           TokenStep(p) \/ FailToken(p) \/ Crash(p)
    PROVE  Books(p)
<1>1. ~Rotating(p) /\ ~Minting(p)
    BY DEF Rotating, Minting, Calls
<1>2. ASSUME NEW a \in Answers, Answer(p, a)
      PROVE  ~Running(p)' /\ proc'[p].pc \in Answers
    BY <1>2, AnswerGiven DEF Running
<1>3. ASSUME NEW s, Go(p, s)
      PROVE  proc'[p].pc = s
    BY <1>3, GoMoves
<1>4. ~Rotate(p) /\ ~Mint(p) /\ ~Change(p) /\ ~Binding(p) /\ ~AnyBinding(p) /\ ~Deployment(p)
      /\ ~Claims(p) /\ ~Deliver(p) /\ ~Sender(p)
    BY <1>1 DEF Rotate, Mint, Change, Changing, Binding, AnyBinding, Deployment, Claims, Deliver, Sender,
                TokenTyped, Asks, Asking, At, Calls
<1>5. CASE Reissue(p)
    <2>1. proc'[p] = [pc |-> "Recent", need |-> TRUE, then |-> "grant"]
        BY <1>5, PutMoves DEF Reissue, Begun
    <2>. QED
        BY <1>5, <2>1 DEF Books, Reissue, Begun, At, Running, Answers, tokenVars, mailVars
<1>6. CASE Recent(p)
    <2>1. Answer(p, "done") \/ (Go(p, "ByIp") /\ reissues = {})
        BY <1>6 DEF Recent
    <2>. QED
        BY <1>2, <1>3, <1>6, <2>1 DEF Books, Recent, At, Running, Answers, tokenVars, mailVars
<1>7. CASE ByIp(p) \/ Target(p) \/ Operator(p)
    <2>1. /\ Running(p) /\ ~At(p, "Recent") /\ ~At(p, "Log")
          /\ UNCHANGED <<reissues, queued, unlogged>>
        BY <1>7 DEF ByIp, Target, Operator, Running, At, Answers, tokenVars, mailVars
    <2>. QED
        BY <2>1 DEF Books
<1>8. CASE MailDraft(p) \/ MailQueue(p) \/ MailUndo(p)
    <2>1. /\ Running(p) /\ ~At(p, "Recent") /\ ~At(p, "Log")
          /\ p \in unlogged => p \in unlogged'
          /\ p \in queued' => p \in queued \/ p \in unlogged'
          /\ reissues' = reissues
        BY <1>1, <1>8 DEF MailDraft, MailQueue, MailUndo, Queue, Running, At, Answers
    <2>. QED
        BY <2>1 DEF Books
<1>9. CASE Log(p)
    BY <1>9 DEF Books, Log, Running, At, Answers
<1>10. CASE FailToken(p)
    <2>1. /\ Running(p)
          /\ p \in unlogged => p \in unlogged'
          /\ p \in queued' => p \in queued \/ p \in unlogged'
          /\ reissues' = reissues
        BY <1>1, <1>10 DEF FailToken, Queue, Running, Answers, TokenSteps, mailVars
    <2>2. At(p, "Recent") => ~Running(p)'
        BY <1>2, <1>10 DEF FailToken, At, Answers
    <2>. QED
        BY <2>1, <2>2 DEF Books
<1>11. CASE Crash(p)
    <2>1. ~Running(p)' /\ UNCHANGED <<reissues, queued, unlogged>>
        BY <1>2, <1>11 DEF Crash, Answers
    <2>. QED
        BY <2>1 DEF Books
<1>. QED
    BY <1>4, <1>5, <1>6, <1>7, <1>8, <1>9, <1>10, <1>11 DEF TokenStep

LEMMA CooledPreserved ==
    ASSUME PaymentInv, TokensStand, CooledDown, NEW p \in Callers,
           Work(p) \/ (Failure(p) /\ UNCHANGED overlapped), UNCHANGED calls
    PROVE  CooledDown'
<1>1. Moves(p) /\ TokenAlone(p) /\ Shape
    BY StepMoves, OwnTokens DEF PaymentInv
<1>2. ASSUME NEW q \in Callers, q # p
      PROVE  /\ Running(q)' <=> Running(q)
             /\ proc'[q] = proc[q]
    BY <1>1, <1>2 DEF Moves, Running
<1>3. ASSUME Reissuing(p)
      PROVE  /\ Books(p)
             /\ At(p, "free") => overlapped' \/ AtRest
    <2>1. TokenTyped(p)
        BY <1>3 DEF TokensStand, TokenInv, TokenCalls, Reissuing, Calls
    <2>2. (TokenStep(p) /\ Overlap(p)) \/ FailToken(p) \/ Crash(p)
        BY <1>3, <2>1, OnlyTokens DEF TokenTyped, Reissuing, TokenCalls, Calls
    <2>3. Books(p)
        BY <1>1, <1>3, <2>1, <2>2, ReissueBooks DEF Reissuing
    <2>4. At(p, "free") => ~FailToken(p) /\ ~Crash(p)
        BY DEF FailToken, TokenSteps, Crash, Running, At
    <2>. QED
        BY <2>2, <2>3, <2>4 DEF Overlap
<1>4. ASSUME NEW q \in Callers, Reissuing(q), q \in queued'
      PROVE  q \in unlogged' \union reissues'
    <2>1. CASE q = p
        BY <1>3, <1>4, <2>1 DEF Books, CooledDown
    <2>2. CASE q # p
        BY <1>1, <1>4, <2>2 DEF TokenAlone, CooledDown
    <2>. QED
        BY <2>1, <2>2
<1>5. ASSUME NEW q \in Callers, q # p, Reissuing(p), Reissuing(q), ~overlapped'
      PROVE  Cooling(p, q)' /\ Cooling(q, p)'
    <2>1. Cooling(p, q) /\ Cooling(q, p) /\ (q \in queued => q \in unlogged \union reissues)
        BY <1>5, OverlapKept DEF CooledDown
    <2>2. Books(p) /\ (At(p, "free") => AtRest)
        BY <1>3, <1>5
    <2>3. /\ Running(q)' <=> Running(q)
          /\ At(q, "Recent")' <=> At(q, "Recent")
          /\ q \in queued' <=> q \in queued
          /\ q \in unlogged' <=> q \in unlogged
        BY <1>1, <1>2, <1>5 DEF TokenAlone, At
    <2>4. ~(Running(p)' /\ Running(q)')
        BY <2>1, <2>2, <2>3 DEF Cooling, Books, AtRest
    <2>5. Running(p)' /\ ~At(p, "Recent")' /\ q \in queued' => q \in unlogged'
        BY <2>1, <2>2, <2>3 DEF Cooling, Books, At
    <2>6. At(p, "Log") => Running(p) /\ ~At(p, "Recent")
        BY DEF At, Running, Answers
    <2>7. Running(q)' /\ ~At(q, "Recent")' /\ p \in queued' => p \in unlogged'
        BY <2>1, <2>2, <2>3, <2>6 DEF Cooling, Books
    <2>8. p \in queued' /\ q \in queued' => p \in unlogged' \/ q \in unlogged'
        BY <2>1, <2>2, <2>3, <2>6 DEF Cooling, Books
    <2>. QED
        BY <2>4, <2>5, <2>7, <2>8 DEF Cooling
<1>6. ASSUME NEW q \in Callers, NEW r \in Callers, q # r, Reissuing(q), Reissuing(r), ~overlapped'
      PROVE  Cooling(q, r)'
    <2>1. CASE q = p \/ r = p
        BY <1>5, <1>6, <2>1
    <2>2. CASE q # p /\ r # p
        <3>1. Cooling(q, r)
            BY <1>6, OverlapKept DEF CooledDown
        <3>. QED
            BY <1>1, <1>2, <2>2, <3>1 DEF Cooling, TokenAlone, At
    <2>. QED
        BY <2>1, <2>2
<1>. QED
    BY <1>1, <1>4, <1>6 DEF CooledDown, TokenAlone, Reissuing, Calls

-----------------------------------------------------------------------------
(* Results.                                                                *)

LEMMA InitAccess == Init => AccessInv
<1>. SUFFICES ASSUME Init
              PROVE  AccessInv
    OBVIOUS
<1>1. SuspensionInv
    BY InitSuspension
<1>2. PICK w \in Workloads : InitTokens(w.access)
    BY DEF Init
<1>3. /\ proc = [p \in Callers |-> Free] /\ barred = {} /\ InitSignup /\ InitTokens(w.access)
      /\ \A p \in Callers : proc[p].pc = "free"
    BY <1>2 DEF Init, Free
<1>4. SignupsStand
    <2>1. rows = [p \in Callers |-> {}] /\ blobs = [p \in Callers |-> {}]
        BY <1>3 DEF InitSignup
    <2>2. ASSUME NEW p \in Callers
          PROVE  SignupInv(p)
        BY <1>3, <2>1 DEF SignupInv, SignupTyped, SignupPlaces, SignupSteps, RowsClosed, Written, TakenBack,
                          SignupWhole, Writing, At, Answers
    <2>. QED
        BY <2>1, <2>2 DEF SignupsStand
<1>5. AddressesDiffer
    BY <1>3 DEF AddressesDiffer, InitSignup
<1>6. TokensStand
    <2>1. AccessStands
        BY <1>3, CallAssumption DEF AccessStands, InitTokens
    <2>2. ASSUME NEW p \in Callers
          PROVE  TokenInv(p)
        <3>1. TokenTyped(p)
            BY <1>3 DEF TokenTyped, TokenPlaces, TokenSteps, Asking, Mailing, At, Answers
        <3>2. DraftKept(p)
            BY <1>3 DEF DraftKept, At, InitTokens
        <3>3. TokenBarred(p)
            BY <1>3 DEF TokenBarred, At
        <3>. QED
            BY <3>1, <3>2, <3>3 DEF TokenInv
    <2>. QED
        BY <2>1, <2>2 DEF TokensStand
<1>7. CooledDown
    BY <1>3 DEF CooledDown, Cooling, InitTokens, Running
<1>. QED
    BY <1>1, <1>4, <1>5, <1>6, <1>7 DEF AccessInv

LEMMA StillAccess ==
    ASSUME AccessInv, UNCHANGED vars
    PROVE  SignupsStand' /\ AddressesDiffer' /\ TokensStand' /\ CooledDown'
<1>. USE DEF AccessInv, vars, signupVars, tokenVars, accessVars, mailVars, At, Calls
<1>1. SignupsStand'
    BY DEF SignupsStand, SignupInv, SignupTyped, RowsClosed, Written, TakenBack, SignupWhole
<1>2. AddressesDiffer'
    BY DEF AddressesDiffer, Address
<1>3. TokensStand'
    <2>1. AccessStands'
        BY DEF TokensStand, AccessStands, TwoChanges, Still
    <2>2. ASSUME NEW p \in Callers
          PROVE  TokenInv(p)'
        <3>1. TokenTyped(p)' <=> TokenTyped(p)
            BY DEF TokenTyped, Asks, Minting, Rotating
        <3>2. DraftKept(p)' <=> DraftKept(p)
            BY DEF DraftKept, Rotating
        <3>3. (TwoChanges' <=> TwoChanges) /\ (Still' <=> Still)
            BY DEF TwoChanges, Still
        <3>4. Forbidden(p)' <=> Forbidden(p)
            BY DEF Forbidden, Minting, Able, payVars, sendVars
        <3>5. (PastClaims(p)' <=> PastClaims(p)) /\ (Checking(p)' <=> Checking(p))
              /\ (Able(TRUE)' <=> Able(TRUE))
            BY DEF PastClaims, Checking, Rotating, Able
        <3>6. BarredStands(p)' <=> BarredStands(p)
            BY <3>3, <3>4, <3>5 DEF BarredStands
        <3>7. TokenBarred(p)' <=> TokenBarred(p)
            BY <3>3, <3>6 DEF TokenBarred
        <3>. QED
            BY <3>1, <3>2, <3>7 DEF TokenInv, TokensStand
    <2>. QED
        BY <2>1, <2>2 DEF TokensStand
<1>4. CooledDown'
    BY DEF CooledDown, Cooling, Reissuing, Running
<1>. QED
    BY <1>1, <1>2, <1>3, <1>4

LEMMA NextAccess == AccessInv /\ [Next]_vars => AccessInv'
<1>. SUFFICES ASSUME AccessInv, [Next]_vars
              PROVE  AccessInv'
    OBVIOUS
<1>1. SuspensionInv'
    BY NextSuspension DEF AccessInv
<1>2. CASE Next
    <2>1. PICK p \in Callers : Work(p) \/ (Failure(p) /\ UNCHANGED overlapped)
        BY <1>2 DEF Next
    <2>2. Bar /\ UNCHANGED calls /\ PaymentInv
        BY <1>2 DEF Next, AccessInv, SuspensionInv
    <2>3. SignupsStand' /\ AddressesDiffer'
        BY <2>1, <2>2, SignupsPreserved, AddressesPreserved DEF AccessInv
    <2>4. TokensStand' /\ CooledDown'
        BY <2>1, <2>2, TokensPreserved, CooledPreserved DEF AccessInv
    <2>. QED
        BY <1>1, <2>3, <2>4 DEF AccessInv
<1>3. CASE UNCHANGED vars
    BY <1>1, <1>3, StillAccess DEF AccessInv
<1>. QED
    BY <1>2, <1>3

(* A signup has all of its rows, alone at its address, or after a cleanup  *)
(* none; a token mail that was not queued leaves no draft, a rotated token *)
(* is handed out or mailed, one is mailed per cooldown, and no request     *)
(* gets a token for what it had no access to at any time.                  *)
(* (performSelfServeSignup, cleanupPartialSelfServeSignup,                 *)
(* reissueMailboxAccessToken, deliverRotatedTokenToSelfMailbox,            *)
(* validateTokenAgentMailboxScopes)                                        *)
THEOREM AccessIsWhole == Spec => []AccessWhole
<1>1. AccessInv => AccessWhole
    <2>. SUFFICES ASSUME AccessInv
                  PROVE  AccessWhole
        OBVIOUS
    <2>1. \A p \in Callers : Calls(p, "signup") => SignupWhole(p)
        BY DEF AccessInv, SignupsStand, SignupInv
    <2>2. ASSUME NEW p \in Callers, NEW q \in Callers, p # q, Calls(p, "signup"), Calls(q, "signup"),
                 At(p, "done"), At(q, "done")
          PROVE  Address(p) # Address(q)
        <3>1. "mailboxes" \in rows[p] /\ "mailboxes" \in rows[q]
            BY <2>1, <2>2, PlannedAre DEF SignupWhole
        <3>. QED
            BY <2>2, <3>1 DEF AccessInv, AddressesDiffer
    <2>3. ASSUME NEW p \in Callers, Calls(p, "reissue") \/ Rotating(p) \/ Minting(p)
          PROVE  TokenWhole(p)
        <3>1. DraftKept(p) /\ TokenBarred(p)
            BY <2>3 DEF AccessInv, TokensStand, TokenInv, TokenCalls, Rotating, Minting, Calls
        <3>. QED
            BY <3>1 DEF TokenWhole, DraftKept, TokenBarred, BarredStands, Answered, Answers
    <2>4. ASSUME NEW p \in queued, NEW q \in queued, p # q, Calls(p, "reissue"), Calls(q, "reissue")
          PROVE  unlogged # {} \/ overlapped
        BY <2>4 DEF AccessInv, CooledDown, Cooling, Reissuing
    <2>. QED
        BY <2>1, <2>2, <2>3, <2>4 DEF AccessWhole
<1>. QED
    BY <1>1, InitAccess, NextAccess, PTL DEF Spec

-----------------------------------------------------------------------------
(* Contact aliases: the inductive invariant.                               *)

BoxKinds == {"none", "active", "inactive"}
RuleKinds == {"none", "worker", "other"}
Localparts == ContactParts \union Others
AliasCalls == {"save", "remove", "bootstrap", "maintain"}
AliasPlaces == AliasSteps \union Answers \union {"free"}
Working(p) == proc[p].pc \in AliasSteps
Saving(p) == calls[p].call \in {"save", "bootstrap"}
SaveSteps == {"List", "Box", "Activate", "Rule", "Undo"}
RemoveSteps == {"List", "OwnBox", "Deactivate", "DeleteRule", "Restore"}
MaintainSteps == {"Box", "Activate", "List", "Rule", "Redundant"}

CallsFit ==
    /\ \A p \in Callers : calls[p].call \in {"save", "remove"} => calls[p].alias \in ContactParts
    /\ \A p, q \in Callers : Maintains(p) /\ Calls(q, "remove") => calls[q].auto

(* What a request has listed and has still to do.                          *)
FirstPhase(p) == Maintains(p) /\ proc[p].phase = 1
IsTask(r) ==
    /\ DOMAIN r = {"pc", "todo", "rules", "created", "prior", "phase"}
    /\ r.todo \in Seq(ContactParts) /\ r.created \in BOOLEAN /\ r.prior \in BoxKinds
TaskTyped(p) ==
    /\ IsTask(proc[p])
    /\ ~At(p, "Redundant") => proc[p].todo # <<>>
    /\ ~At(p, "List") /\ ~FirstPhase(p) => proc[p].rules \in [Localparts -> RuleKinds]
    /\ Saving(p) => proc[p].pc \in SaveSteps /\ proc[p].phase = 1
    /\ Calls(p, "remove") => proc[p].pc \in RemoveSteps /\ ~calls[p].auto
    /\ Maintains(p) =>
         /\ proc[p].pc \in MaintainSteps
         /\ proc[p].phase = IF proc[p].pc \in {"Box", "Activate"} THEN 1 ELSE 2
AliasTyped(p) ==
    /\ calls[p].call \in AliasCalls => proc[p].pc \in AliasPlaces
    /\ Working(p) => calls[p].call \in AliasCalls /\ TaskTyped(p)
AliasRows ==
    /\ box \in [ContactParts -> BoxKinds]
    /\ rule \in [Localparts -> RuleKinds]
    /\ \A l \in Preserved : rule[l] = "worker"

(* One request at a time, and what its mailboxes and rules are meanwhile.  *)
Elements(s) == {s[i] : i \in DOMAIN s}
Agrees(a) == box[a] = "active" <=> rule[a] = "worker"
AllAgree == \A a \in ContactParts : Agrees(a)
OthersAgree(p) == \A a \in ContactParts \ {Part(p)} : Agrees(a)
Listed(p) ==
    \A a \in ContactParts : /\ proc[p].rules[a] # "none" => rule[a] # "none"
                            /\ proc[p].rules[a] = "worker" => rule[a] = "worker"

SavingOK(p) ==
    /\ ~At(p, "List") => Listed(p)
    /\ proc[p].pc \in {"List", "Box", "Activate"} => AllAgree
    /\ At(p, "Activate") =>
         box[Part(p)] = "inactive" /\ ~proc[p].created /\ proc[p].prior = "inactive"
    /\ proc[p].pc \in {"Rule", "Undo"} =>
         /\ OthersAgree(p) /\ box[Part(p)] = "active"
         /\ proc[p].prior \in {"active", "inactive"}
         /\ rule[Part(p)] = "worker" <=> ~proc[p].created /\ proc[p].prior = "active"
RemovingOK(p) ==
    /\ ~At(p, "List") => proc[p].rules[Part(p)] = rule[Part(p)]
    /\ proc[p].pc \in {"List", "OwnBox", "Deactivate"} => AllAgree
    /\ At(p, "Deactivate") => box[Part(p)] = "active" /\ proc[p].prior = "active"
    /\ proc[p].pc \in {"DeleteRule", "Restore"} =>
         /\ OthersAgree(p)
         /\ rule[Part(p)] = "worker" => box[Part(p)] = "inactive" /\ proc[p].prior = "active"
         /\ rule[Part(p)] # "worker" => box[Part(p)] # "active" /\ proc[p].prior # "active"
Waits(p, a) == a \in Elements(proc[p].todo)
MaintainingOK(p) ==
    /\ \A a \in ContactParts : box[a] = "active" \/ (proc[p].phase = 1 /\ Waits(p, a))
    /\ At(p, "Activate") => box[Part(p)] = "inactive"
    /\ At(p, "List") => proc[p].todo = Aliases
    /\ At(p, "Rule") => Listed(p) /\ \A a \in ContactParts : rule[a] = "worker" \/ Waits(p, a)
    /\ At(p, "Redundant") => \A a \in ContactParts : rule[a] = "worker"
TaskOK(p) ==
    /\ Saving(p) => SavingOK(p)
    /\ Calls(p, "remove") => RemovingOK(p)
    /\ Maintains(p) => MaintainingOK(p)

(* What was maintained stays.                                              *)
Maintained == \E p \in Callers : Maintains(p) /\ At(p, "done")
MaintainedStands ==
    /\ \A a \in ContactParts : box[a] = "active" /\ rule[a] = "worker"
    /\ {l \in Others : rule[l] = "worker"} = Preserved

OneAtWork == \A p, q \in Callers : Working(p) /\ Working(q) => p = q
AliasesStand ==
    /\ \A p \in Callers : Working(p) => TaskOK(p)
    /\ (\A p \in Callers : ~Working(p)) => AllAgree
    /\ Maintained => MaintainedStands

AliasInv ==
    /\ CallsFit /\ AliasRows
    /\ \A p \in Callers : AliasTyped(p)
    /\ ~overlapped => OneAtWork
    /\ ~overlapped /\ ~unclear => AliasesStand

-----------------------------------------------------------------------------
(* Other requests leave mailboxes and rules of aliases alone, and take none*)
(* of the steps.                                                           *)

LEMMA PaysElsewhere ==
    ASSUME PaymentInv, NEW p \in Callers, PayStep(p) \/ FailPayment(p) \/ NoVerdict(p)
    PROVE  proc'[p].pc \notin AliasSteps
<1>. DEFINE Suits(s) == s \notin AliasSteps
<1>1. Shape
    BY DEF PaymentInv
<1>2. ASSUME NEW s, Go(p, s) \/ Answer(p, s), Suits(s)
      PROVE  Suits(proc'[p].pc)
    <2>1. CASE Go(p, s)
        BY <1>1, <1>2, <2>1, GoMoves
    <2>2. CASE Answer(p, s)
        BY <1>1, <1>2, <2>2, PutMoves DEF Answer
    <2>. QED
        BY <1>2, <2>1, <2>2
<1>3. ASSUME NEW r, Put(p, r), "pc" \in DOMAIN r, Suits(r.pc)
      PROVE  Suits(proc'[p].pc)
    BY <1>1, <1>3, PutMoves
<1>4. "pc" \in DOMAIN proc[p]
    BY <1>1 DEF Shape
<1>5. \A s : s \in PaySteps \union Answers \union {"free"} => Suits(s)
    BY DEF PaySteps, Answers, AliasSteps
<1>6. \A r : Suits(NextStep(p, r))
    BY <1>5 DEF NextStep, UpgradeStep, TopupStep, PaySteps
<1>7. Suits(proc'[p].pc)
    <2>. HIDE DEF Suits
    <2>1. CASE Topup(p) \/ UpgradeIntent(p) \/ Confirm(p) \/ Repeat(p)
        <3>1. \A x : "pc" \in DOMAIN Request(x) /\ Request(x).pc = "Lookup"
            BY DEF Request
        <3>2. \A x : LET q == [Request(x) EXCEPT !.copy = receipt[x], !.pc = "Begin"] IN
                     "pc" \in DOMAIN q /\ q.pc = "Begin"
            BY <3>1
        <3>3. "pc" \in DOMAIN Free /\ Free.pc = "free"
            BY DEF Free
        <3>4. Suits("Lookup") /\ Suits("Begin") /\ Suits("free") /\ Suits("refused") /\ Suits("error")
            BY <1>5 DEF PaySteps, Answers
        <3>5. CASE Topup(p) \/ UpgradeIntent(p)
            BY <3>5, <1>2, <1>3, <3>1, <3>4 DEF Topup, UpgradeIntent, Submit
        <3>6. CASE Confirm(p)
            BY <3>6, <1>2, <1>3, <3>2, <3>4 DEF Confirm, Take
        <3>7. CASE Repeat(p)
            BY <3>7, <1>3, <3>3, <3>4 DEF Repeat
        <3>. QED
            BY <2>1, <3>5, <3>6, <3>7
    <2>2. CASE \/ LookUp(p, "Lookup") \/ LookUp(p, "Relook") \/ Create(p)
               \/ WriteVerified(p) \/ WriteSettled(p)
        <3>1. ASSUME NEW c, NEW s \in {"Begin", "Settle", "Finalize"},
                     Put(p, [proc[p] EXCEPT !.copy = c, !.pc = s])
              PROVE  Suits(proc'[p].pc)
            BY <1>3, <1>4, <1>5, <3>1 DEF PaySteps
        <3>2. WriteVerified(p) => \E c : Put(p, [proc[p] EXCEPT !.copy = c, !.pc = "Settle"])
            <4>1. ASSUME WriteVerified(p)
                  PROVE  Put(p, [proc[p] EXCEPT !.copy = [proc[p].copy EXCEPT !.status = "verified"],
                                                !.pc = "Settle"])
                BY <4>1 DEF WriteVerified
            <4>. QED
                BY <4>1
        <3>3. WriteSettled(p) => \E c : Put(p, [proc[p] EXCEPT !.copy = c, !.pc = "Finalize"])
            BY DEF WriteSettled
        <3>4. (LookUp(p, "Lookup") \/ LookUp(p, "Relook") \/ Create(p)) =>
                \/ \E c : Put(p, [proc[p] EXCEPT !.copy = c, !.pc = "Begin"])
                \/ Go(p, "Create") \/ Go(p, "Relook") \/ Answer(p, "done") \/ Answer(p, "error")
            BY DEF LookUp, Create, Take, Replay
        <3>5. Suits("Create") /\ Suits("Relook") /\ Suits("done") /\ Suits("error")
            BY <1>5 DEF PaySteps, Answers
        <3>. QED
            BY <2>2, <3>1, <3>2, <3>3, <3>4, <3>5, <1>2
    <2>3. CASE Begin(p) \/ Refresh(p)
        <3>1. ASSUME NEW b, NEW r, Put(p, [proc[p] EXCEPT !.had = b, !.pc = NextStep(p, r)])
              PROVE  Suits(proc'[p].pc)
            BY <1>3, <1>4, <1>6, <3>1
        <3>2. ASSUME NEW r, Put(p, [proc[p] EXCEPT !.copy = r, !.again = TRUE, !.pc = NextStep(p, r)])
              PROVE  Suits(proc'[p].pc)
            BY <1>3, <1>4, <1>6, <3>2
        <3>3. Suits("refused") /\ Suits("error")
            BY <1>5 DEF Answers
        <3>. QED
            BY <2>3, <3>1, <3>2, <3>3, <1>2 DEF Begin, Refresh
    <2>4. CASE Verify(p) \/ WriteFailed(p) \/ Settle(p) \/ WriteRefused(p) \/ Finalize(p) \/ Grant(p)
        BY <2>4, <1>2, <1>5 DEF Verify, WriteFailed, Settle, WriteRefused, Finalize, Grant, UpgradeStep,
                                TopupStep, PaySteps, Answers
    <2>5. CASE Profile(p) \/ Enable(p) \/ RelaxUpgraded(p) \/ Open(p) \/ Credit(p) \/ Mark(p)
        BY <2>5, <1>2, <1>5 DEF Profile, Enable, RelaxUpgraded, Open, Credit, Mark, PaySteps, Answers
    <2>6. CASE Account(p) \/ ReadPolicy(p) \/ Sum(p)
        <3>1. ASSUME NEW x, Put(p, [proc[p] EXCEPT !.was = x, !.pc = "Profile"])
                            \/ Put(p, [proc[p] EXCEPT !.list = x, !.pc = "Enable"])
                            \/ Put(p, [proc[p] EXCEPT !.sum = x, !.pc = "Credit"])
              PROVE  Suits(proc'[p].pc)
            BY <1>3, <1>4, <1>5, <3>1 DEF PaySteps
        <3>. QED
            BY <2>6, <3>1 DEF Account, ReadPolicy, Sum
    <2>7. CASE FailPayment(p) \/ NoVerdict(p)
        BY <2>7, <1>2, <1>5 DEF FailPayment, NoVerdict, PaySteps, Answers
    <2>. QED
        BY <2>1, <2>2, <2>3, <2>4, <2>5, <2>6, <2>7 DEF PayStep
<1>. QED
    BY <1>7

LEMMA DecisionsElsewhere ==
    ASSUME PaymentInv, NEW p \in Callers, PolicyStep(p) \/ PutAgentPolicy(p) \/ FailDecision(p)
    PROVE  proc'[p].pc \notin AliasSteps
<1>1. Shape
    BY DEF PaymentInv
<1>2. ASSUME NEW s \in PolicySteps \union Answers, Go(p, s) \/ Answer(p, s)
      PROVE  proc'[p].pc \notin AliasSteps
    <2>1. CASE Go(p, s)
        BY <1>1, <2>1, GoMoves DEF PolicySteps, Answers, AliasSteps
    <2>2. CASE Answer(p, s)
        BY <1>1, <2>2, PutMoves DEF Answer, PolicySteps, Answers, AliasSteps
    <2>. QED
        BY <1>2, <2>1, <2>2
<1>3. CASE Ask(p)
    <2>1. Put(p, Reads) /\ "pc" \in DOMAIN Reads /\ Reads.pc \notin AliasSteps
        BY <1>3 DEF Ask, Reads, AliasSteps
    <2>. QED
        BY <1>1, <2>1, PutMoves
<1>4. Synced(p) => proc'[p].pc \notin AliasSteps
    BY <1>2 DEF Synced, PolicySteps, Answers
<1>5. CASE ~Ask(p)
    BY <1>2, <1>4, <1>5 DEF PolicyStep, Decide, SetStanding, SyncAgents, WriteList, RelaxAgents, WriteOpen,
                            PutAgentPolicy, FailDecision, PolicySteps, Answers
<1>. QED
    BY <1>3, <1>5

LEMMA OthersElsewhere ==
    ASSUME PaymentInv, NEW p \in Callers, Work(p) \/ Failure(p), ~AliasStep(p), ~FailAlias(p)
    PROVE  Moves(p) /\ proc'[p].pc \notin AliasSteps
<1>. DEFINE Suits(s) == s \notin AliasSteps
<1>1. Shape /\ Moves(p)
    BY StepMoves DEF PaymentInv
<1>2. CASE SignupStep(p) \/ SendStep(p) \/ TokenStep(p)
    BY <1>1, <1>2, SignupLands, SendLands, TokenLands
       DEF Lands, SignupEnds, SendEnds, TokenEnds, SignupSteps, SendSteps, TokenSteps, Answers, AliasSteps
<1>3. ASSUME NEW s, Go(p, s) \/ Answer(p, s), Suits(s)
      PROVE  Suits(proc'[p].pc)
    <2>1. CASE Go(p, s)
        BY <1>1, <1>3, <2>1, GoMoves
    <2>2. CASE Answer(p, s)
        BY <1>1, <1>3, <2>2, PutMoves DEF Answer
    <2>. QED
        BY <1>3, <2>1, <2>2
<1>4. CASE Arrive(p)
    BY <1>4, <1>1 DEF Arrive, AliasSteps
<1>5. CASE FailSignup(p) \/ FailSend(p) \/ FailToken(p) \/ Crash(p)
    <2>1. \A s \in SignupSteps \union TokenSteps \union Answers : Suits(s)
        BY DEF SignupSteps, TokenSteps, Answers, AliasSteps
    <2>2. Suits(proc'[p].pc)
        <3>. HIDE DEF Suits
        <3>1. CASE FailSignup(p)
            BY <1>3, <2>1, <3>1 DEF FailSignup, Unsent, SignupSteps, Answers
        <3>2. CASE FailToken(p)
            BY <1>3, <2>1, <3>2 DEF FailToken, Unmailed, TokenSteps, Answers
        <3>3. CASE FailSend(p) \/ Crash(p)
            BY <1>3, <2>1, <3>3 DEF FailSend, Crash, Answers
        <3>. QED
            BY <1>5, <3>1, <3>2, <3>3
    <2>. QED
        BY <1>1, <2>2
<1>. QED
    BY <1>1, <1>2, <1>4, <1>5, PaysElsewhere, DecisionsElsewhere DEF Work, Failure

LEMMA OthersLeave ==
    ASSUME NEW p, Work(p) \/ Failure(p), ~AliasStep(p), ~FailAlias(p)
    PROVE  UNCHANGED <<box, rule>> /\ (UNCHANGED unclear \/ Crash(p))
BY DEF Work, Failure, Crash, aliasVars

(* A request about aliases takes only their steps.                         *)
LEMMA OnlyAliases ==
    ASSUME NEW p \in Callers, calls[p].call \in AliasCalls, proc[p].pc \in AliasPlaces,
           Work(p) \/ Failure(p)
    PROVE  /\ Work(p) => AliasStep(p) /\ Overlap(p)
           /\ Failure(p) => FailAlias(p) \/ Crash(p)
<1>. USE DEF AliasCalls, AliasPlaces, AliasSteps, Answers, At, Calls
<1>1. ~PayStep(p)
    <2>1. ~Topup(p) /\ ~UpgradeIntent(p) /\ ~Confirm(p) /\ ~Repeat(p)
        BY DEF Topup, UpgradeIntent, Confirm, Repeat
    <2>2. ~LookUp(p, "Lookup") /\ ~LookUp(p, "Relook") /\ ~Create(p) /\ ~Begin(p)
        BY DEF LookUp, Create, Begin
    <2>3. ~Verify(p) /\ ~WriteVerified(p) /\ ~WriteFailed(p) /\ ~Settle(p) /\ ~WriteSettled(p)
        BY DEF Verify, WriteVerified, WriteFailed, Settle, WriteSettled
    <2>4. ~WriteRefused(p) /\ ~Finalize(p) /\ ~Grant(p) /\ ~Account(p) /\ ~Profile(p)
        BY DEF WriteRefused, Finalize, Grant, Account, Profile
    <2>5. ~ReadPolicy(p) /\ ~Enable(p) /\ ~RelaxUpgraded(p) /\ ~Open(p)
        BY DEF ReadPolicy, Enable, RelaxUpgraded, Open
    <2>6. ~Sum(p) /\ ~Credit(p) /\ ~Mark(p) /\ ~Refresh(p)
        BY DEF Sum, Credit, Mark, Refresh
    <2>. QED
        BY <2>1, <2>2, <2>3, <2>4, <2>5, <2>6 DEF PayStep
<1>2. ~PolicyStep(p) /\ ~PutAgentPolicy(p)
    BY DEF PolicyStep, PutAgentPolicy, Ask, Decide, SetStanding, SyncAgents, WriteList, RelaxAgents,
           WriteOpen, Decisions
<1>3. ~SendStep(p)
    BY DEF SendStep, SendBegins, Route, ReadStanding, Judge, ReadAgent, RouteAgain, Balance
<1>4. ~SignupStep(p)
    <2>1. ~Start(p) /\ ~Check(p) /\ ~Routing(p) /\ ~Provision(p) /\ ~Allow(p)
        BY DEF Start, Check, Routing, Provision, Allow
    <2>2. ~WriteDraft(p) /\ ~Enqueue(p) /\ ~DropDraft(p) /\ ~Keys(p) /\ ~Blobs(p) /\ ~Clean(p)
        BY DEF WriteDraft, Enqueue, DropDraft, Keys, Blobs, Clean
    <2>. QED
        BY <2>1, <2>2 DEF SignupStep
<1>5. ~TokenStep(p)
    <2>1. ~Reissue(p) /\ ~Rotate(p) /\ ~Mint(p) /\ ~Change(p)
        BY DEF Reissue, Rotate, Rotating, Mint, Minting, Change, Changing
    <2>2. ~Recent(p) /\ ~ByIp(p) /\ ~Target(p) /\ ~Operator(p)
        BY DEF Recent, ByIp, Target, Operator
    <2>3. ~Binding(p) /\ ~AnyBinding(p) /\ ~Deployment(p) /\ ~Claims(p)
        BY DEF Binding, AnyBinding, Deployment, Claims
    <2>4. ~Deliver(p) /\ ~Sender(p) /\ ~MailDraft(p) /\ ~MailQueue(p) /\ ~MailUndo(p) /\ ~Log(p)
        BY DEF Deliver, Sender, MailDraft, MailQueue, MailUndo, Log
    <2>. QED
        BY <2>1, <2>2, <2>3, <2>4 DEF TokenStep
<1>6. ~FailPayment(p) /\ ~NoVerdict(p) /\ ~FailDecision(p)
    BY DEF FailPayment, Guarded, PaySteps, NoVerdict, FailDecision, PolicySteps
<1>7. ~FailSend(p) /\ ~FailSignup(p) /\ ~Arrive(p) /\ ~FailToken(p)
    BY DEF FailSend, SendSteps, FailSignup, SignupSteps, Arrive, FailToken, TokenSteps
<1>. QED
    BY <1>1, <1>2, <1>3, <1>4, <1>5, <1>6, <1>7 DEF Work, Failure

-----------------------------------------------------------------------------
(* What the loops go on with.                                              *)

LEMMA HeadTail ==
    ASSUME NEW S, NEW s \in Seq(S), s # <<>>
    PROVE  /\ Head(s) \in S /\ Tail(s) \in Seq(S)
           /\ \A a \in Elements(s) : a = Head(s) \/ a \in Elements(Tail(s))
<1>1. Head(s) \in S /\ Tail(s) \in Seq(S) /\ Len(s) \in Nat \ {0} /\ DOMAIN s = 1 .. Len(s)
    OBVIOUS
<1>2. DOMAIN Tail(s) = 1 .. Len(s) - 1 /\ \A i \in 1 .. Len(s) - 1 : Tail(s)[i] = s[i + 1]
    BY <1>1
<1>3. ASSUME NEW i \in 1 .. Len(s)
      PROVE  s[i] = Head(s) \/ s[i] \in Elements(Tail(s))
    <2>1. CASE i = 1
        BY <2>1
    <2>2. CASE i # 1
        <3>1. i - 1 \in 1 .. Len(s) - 1 /\ Tail(s)[i - 1] = s[i]
            BY <1>1, <1>2, <2>2
        <3>. QED
            BY <1>2, <3>1 DEF Elements
    <2>. QED
        BY <2>1, <2>2
<1>. QED
    BY <1>1, <1>3 DEF Elements

LEMMA AllAliases == Elements(Aliases) = ContactParts
BY DEF Elements, ContactParts

LEMMA FollowingIs ==
    ASSUME NEW p, NEW r, IsTask(r), r.todo # <<>>, r.phase \in {1, 2}, NEW f, f = Following(p, r)
    PROVE  /\ Tail(r.todo) # <<>> =>
                /\ IsTask(f) /\ f.todo = Tail(r.todo) /\ f.rules = r.rules /\ f.phase = r.phase
                /\ f.pc = IF r.phase = 2 THEN "Rule" ELSE "Box"
           /\ Tail(r.todo) = <<>> /\ Maintains(p) /\ r.phase = 1 =>
                IsTask(f) /\ f.pc = "List" /\ f.todo = Aliases /\ f.phase = 2
           /\ Tail(r.todo) = <<>> /\ Maintains(p) /\ r.phase = 2 =>
                IsTask(f) /\ f.pc = "Redundant" /\ f.rules = r.rules /\ f.phase = 2
           /\ Tail(r.todo) = <<>> /\ ~Maintains(p) => f = [pc |-> "done"]
<1>. DEFINE q == [r EXCEPT !.todo = Tail(r.todo), !.created = FALSE, !.prior = "none"]
<1>1. Tail(r.todo) \in Seq(ContactParts)
    BY HeadTail DEF IsTask
<1>2. IsTask(q) /\ q.todo = Tail(r.todo) /\ q.rules = r.rules /\ q.phase = r.phase
    BY <1>1 DEF IsTask, BoxKinds
<1>3. f = CASE q.todo # <<>> /\ r.phase = 2 -> [q EXCEPT !.pc = "Rule"]
            [] q.todo # <<>> /\ r.phase = 1 -> [q EXCEPT !.pc = "Box"]
            [] q.todo = <<>> /\ Maintains(p) /\ r.phase = 1 ->
                 [q EXCEPT !.pc = "List", !.todo = Aliases, !.phase = 2]
            [] q.todo = <<>> /\ Maintains(p) /\ r.phase = 2 -> [q EXCEPT !.pc = "Redundant"]
            [] OTHER -> [pc |-> "done"]
    BY DEF Following
<1>. HIDE DEF q
<1>4. ASSUME NEW s, f = [q EXCEPT !.pc = s]
      PROVE  IsTask(f) /\ f.pc = s /\ f.todo = q.todo /\ f.rules = q.rules /\ f.phase = q.phase
    BY <1>2, <1>4 DEF IsTask
<1>5. LET g == [q EXCEPT !.pc = "List", !.todo = Aliases, !.phase = 2] IN
      IsTask(g) /\ g.pc = "List" /\ g.todo = Aliases /\ g.phase = 2
    BY <1>2, AliasAssumption DEF IsTask
<1>6. CASE Tail(r.todo) # <<>> /\ r.phase = 2
    <2>1. f = [q EXCEPT !.pc = "Rule"]
        BY <1>2, <1>3, <1>6
    <2>. QED
        BY <1>2, <1>4, <1>6, <2>1
<1>7. CASE Tail(r.todo) # <<>> /\ r.phase = 1
    <2>1. f = [q EXCEPT !.pc = "Box"]
        BY <1>2, <1>3, <1>7
    <2>. QED
        BY <1>2, <1>4, <1>7, <2>1
<1>8. CASE Tail(r.todo) = <<>> /\ Maintains(p) /\ r.phase = 1
    <2>1. f = [q EXCEPT !.pc = "List", !.todo = Aliases, !.phase = 2]
        BY <1>2, <1>3, <1>8
    <2>. QED
        BY <1>2, <1>5, <1>8, <2>1
<1>9. CASE Tail(r.todo) = <<>> /\ Maintains(p) /\ r.phase = 2
    <2>1. f = [q EXCEPT !.pc = "Redundant"]
        BY <1>2, <1>3, <1>9
    <2>2. IsTask(f) /\ f.pc = "Redundant" /\ f.rules = q.rules /\ f.phase = q.phase
        BY <1>4, <2>1
    <2>. QED
        BY <1>2, <1>9, <2>2
<1>10. CASE Tail(r.todo) = <<>> /\ ~Maintains(p)
    BY <1>2, <1>3, <1>10
<1>. QED
    BY <1>6, <1>7, <1>8, <1>9, <1>10

-----------------------------------------------------------------------------
(* The steps of a request about aliases.                                   *)

Stands(p) ==
    /\ Working(p) => TaskOK(p)
    /\ ~Working(p) => AllAgree
    /\ Maintained => MaintainedStands
Ready(p) == Shape /\ CallsFit /\ AliasRows /\ AliasTyped(p)
Keeps(p) ==
    /\ Moves(p) /\ AliasTyped(p)' /\ AliasRows'
    /\ Stands(p) /\ ~unclear' => Stands(p)'

LEMMA AnswerOver ==
    ASSUME Shape, NEW p \in Callers, NEW a \in Answers, Answer(p, a)
    PROVE  Moves(p) /\ proc'[p].pc = a /\ ~Working(p)' /\ AliasTyped(p)'
<1>1. Moves(p) /\ proc'[p].pc = a
    <2>1. Put(p, [pc |-> a]) /\ "pc" \in DOMAIN [pc |-> a]
        BY DEF Answer
    <2>. QED
        BY <2>1, PutMoves
<1>2. a \in AliasPlaces /\ a \notin AliasSteps
    BY DEF AliasPlaces, Answers, AliasSteps
<1>. QED
    BY <1>1, <1>2 DEF Working, AliasTyped

LEMMA MaintainedBefore ==
    ASSUME NEW p \in Callers, Moves(p), UNCHANGED calls, Maintained', ~(Maintains(p) /\ proc'[p].pc = "done")
    PROVE  Maintained
BY DEF Maintained, Maintains, Calls, At, Moves

LEMMA BeginsKeeps ==
    ASSUME NEW p \in Callers, Ready(p), UNCHANGED calls, Begins(p)
    PROVE  Keeps(p)
<1>1. Shape /\ AliasRows' /\ proc[p].pc = "free" /\ ~Working(p)
    BY DEF Begins, Ready, AliasRows, aliasVars, At, Working, AliasSteps
<1>2. AllAgree' <=> AllAgree
    BY DEF Begins, aliasVars, AllAgree, Agrees
<1>3. MaintainedStands' <=> MaintainedStands
    BY DEF Begins, aliasVars, MaintainedStands
<1>4. CASE Answer(p, "refused")
    <2>1. Moves(p) /\ proc'[p].pc = "refused" /\ ~Working(p)' /\ AliasTyped(p)'
        <3>1. "refused" \in Answers
            BY DEF Answers
        <3>. QED
            BY <1>1, <1>4, <3>1, AnswerOver
    <2>2. Maintained' => Maintained
        BY <2>1, MaintainedBefore
    <2>. QED
        BY <1>1, <1>2, <1>3, <2>1, <2>2 DEF Keeps, Stands
<1>5. ASSUME NEW s \in {"List", "Box"}, NEW todo \in Seq(ContactParts), todo # <<>>, Put(p, Task(s, todo)),
             calls[p].call \in AliasCalls, Maintains(p) => s = "Box" /\ todo = Aliases,
             s = "Box" => Maintains(p), Calls(p, "remove") => ~calls[p].auto
      PROVE  Keeps(p)
    <2>. DEFINE t == Task(s, todo)
    <2>1. /\ IsTask(t) /\ t.pc = s /\ t.todo = todo /\ t.phase = 1
        BY <1>5 DEF IsTask, Task, BoxKinds
    <2>. HIDE DEF t
    <2>2. Moves(p) /\ proc'[p] = t
        BY <1>1, <1>5, <2>1, PutMoves DEF IsTask, t
    <2>3. AliasTyped(p)'
        BY <1>5, <2>1, <2>2 DEF AliasTyped, TaskTyped, At, Calls, FirstPhase, Saving, Maintains, SaveSteps,
                                RemoveSteps, MaintainSteps, AliasPlaces, AliasSteps, Working
    <2>4. Maintained' => Maintained
        BY <1>5, <2>1, <2>2, MaintainedBefore
    <2>5. ASSUME Stands(p)
          PROVE  Stands(p)'
        <3>1. AllAgree'
            BY <1>1, <1>2, <2>5 DEF Stands
        <3>2. Saving(p)' => SavingOK(p)'
            BY <1>5, <2>1, <2>2, <3>1 DEF SavingOK, Saving, Maintains, Calls, At
        <3>3. Calls(p, "remove")' => RemovingOK(p)'
            BY <1>5, <2>1, <2>2, <3>1 DEF RemovingOK, Maintains, Calls, At
        <3>4. Maintains(p)' => MaintainingOK(p)'
            BY <1>5, <2>1, <2>2, AllAliases DEF MaintainingOK, Waits, Maintains, Calls, At
        <3>. QED
            BY <1>3, <2>4, <2>5, <3>1, <3>2, <3>3, <3>4 DEF Stands, TaskOK
    <2>. QED
        BY <1>1, <2>2, <2>3, <2>5 DEF Keeps
<1>6. CASE (Calls(p, "save") \/ (Calls(p, "remove") /\ ~calls[p].auto)) /\ Put(p, Task("List", <<calls[p].alias>>))
    <2>1. <<calls[p].alias>> \in Seq(ContactParts) /\ <<calls[p].alias>> # <<>>
        BY <1>6 DEF Ready, CallsFit, Calls
    <2>. QED
        BY <1>5, <1>6, <2>1 DEF Calls, AliasCalls, Maintains
<1>7. CASE (Calls(p, "bootstrap") /\ Put(p, Task("List", Aliases))) \/ (Maintains(p) /\ Put(p, Task("Box", Aliases)))
    BY <1>5, <1>7, AliasAssumption DEF Calls, AliasCalls, Maintains
<1>. QED
    BY <1>4, <1>6, <1>7 DEF Begins

LEMMA ListKeeps ==
    ASSUME NEW p \in Callers, Ready(p), UNCHANGED calls, List(p)
    PROVE  Keeps(p)
<1>1. Shape /\ AliasRows' /\ proc[p].pc = "List" /\ Working(p) /\ TaskTyped(p) /\ calls[p].call \in AliasCalls
    BY DEF List, Ready, AliasRows, aliasVars, At, Working, AliasSteps, AliasTyped
<1>2. /\ AllAgree' <=> AllAgree
      /\ MaintainedStands' <=> MaintainedStands
      /\ rule \in [Localparts -> RuleKinds]
      /\ UNCHANGED <<box, rule>>
    BY DEF List, Ready, AliasRows, aliasVars, AllAgree, Agrees, MaintainedStands
<1>. DEFINE s == CASE Calls(p, "remove") -> "OwnBox"
                   [] Maintains(p) -> "Rule"
                   [] OTHER -> "Box"
            r == [proc[p] EXCEPT !.rules = rule, !.pc = s]
<1>3. /\ Calls(p, "remove") => s = "OwnBox"
      /\ Maintains(p) => s = "Rule"
      /\ Saving(p) => s = "Box"
    BY DEF Calls, Maintains, Saving
<1>4. Put(p, r)
    BY DEF List
<1>. HIDE DEF s
<1>5. IsTask(r) /\ r.pc = s /\ r.rules = rule /\ r.todo = proc[p].todo /\ r.phase = proc[p].phase
    BY <1>1 DEF IsTask, TaskTyped
<1>. HIDE DEF r
<1>6. Moves(p) /\ proc'[p] = r
    BY <1>1, <1>4, <1>5, PutMoves DEF IsTask
<1>7. s \in {"OwnBox", "Rule", "Box"} /\ (Maintains(p) \/ Saving(p) \/ Calls(p, "remove"))
    BY <1>1, <1>3 DEF AliasCalls, Calls, Maintains, Saving
<1>8. AliasTyped(p)'
    <2>1. TaskTyped(p)'
        BY <1>1, <1>2, <1>3, <1>5, <1>6, <1>7
           DEF TaskTyped, At, Calls, FirstPhase, Saving, Maintains, SaveSteps, RemoveSteps, MaintainSteps
    <2>. QED
        BY <1>1, <1>5, <1>6, <1>7, <2>1 DEF AliasTyped, Working, AliasPlaces, AliasSteps
<1>9. Maintained' => Maintained
    BY <1>5, <1>6, <1>7, MaintainedBefore
<1>10. ASSUME Stands(p)
       PROVE  Stands(p)'
    <2>1. Working(p)'
        BY <1>5, <1>6, <1>7 DEF Working, AliasSteps
    <2>2. SavingOK(p) /\ Saving(p) => SavingOK(p)'
        BY <1>1, <1>2, <1>3, <1>5, <1>6 DEF SavingOK, Listed, At
    <2>3. RemovingOK(p) /\ Calls(p, "remove") => RemovingOK(p)'
        BY <1>1, <1>2, <1>3, <1>5, <1>6 DEF RemovingOK, At
    <2>4. MaintainingOK(p) /\ Maintains(p) => MaintainingOK(p)'
        BY <1>1, <1>2, <1>3, <1>5, <1>6, AllAliases DEF MaintainingOK, Waits, Listed, At
    <2>. QED
        BY <1>1, <1>2, <1>9, <1>10, <2>1, <2>2, <2>3, <2>4 DEF Stands, TaskOK, Saving, Maintains, Calls
<1>. QED
    BY <1>1, <1>6, <1>8, <1>10 DEF Keeps

(* What the loops leave for the next alias.                                *)
SavesWith(p, r) == Saving(p) /\ r.phase = 1 /\ r.rules \in [Localparts -> RuleKinds]
MaintainsWith(p, r) ==
    Maintains(p) /\ (r.phase = 1 \/ (r.phase = 2 /\ r.rules \in [Localparts -> RuleKinds]))

LEMMA FollowingTyped ==
    ASSUME NEW p \in Callers, Shape, UNCHANGED calls, NEW r, IsTask(r), r.todo # <<>>,
           SavesWith(p, r) \/ MaintainsWith(p, r), Put(p, Following(p, r))
    PROVE  Moves(p) /\ proc'[p] = Following(p, r) /\ AliasTyped(p)'
<1>. DEFINE f == Following(p, r)
<1>1. r.phase \in {1, 2} /\ (Saving(p) \/ Maintains(p)) /\ Put(p, f)
    BY DEF SavesWith, MaintainsWith
<1>2. f = Following(p, r)
    OBVIOUS
<1>. HIDE DEF f
<1>3. Maintains(p) => ~Saving(p)
    BY DEF Maintains, Saving, Calls
<1>4. CASE Tail(r.todo) # <<>>
    <2>1. IsTask(f) /\ f.todo # <<>> /\ f.rules = r.rules /\ f.phase = r.phase
          /\ f.pc = IF r.phase = 2 THEN "Rule" ELSE "Box"
        BY <1>1, <1>2, <1>4, FollowingIs
    <2>2. Moves(p) /\ proc'[p] = f
        BY <1>1, <2>1, PutMoves DEF IsTask
    <2>3. TaskTyped(p)'
        BY <1>1, <1>3, <2>1, <2>2
           DEF TaskTyped, SavesWith, MaintainsWith, FirstPhase, At, Saving, Maintains, Calls, SaveSteps,
               MaintainSteps
    <2>. QED
        BY <1>1, <1>2, <2>1, <2>2, <2>3 DEF AliasTyped, Working, AliasPlaces, AliasSteps, Saving, Maintains,
                                            Calls, AliasCalls
<1>5. CASE Tail(r.todo) = <<>> /\ Maintains(p)
    <2>1. /\ IsTask(f) /\ f.phase = 2
          /\ \/ f.pc = "List" /\ f.todo = Aliases
             \/ f.pc = "Redundant" /\ f.rules = r.rules /\ r.phase = 2
        BY <1>1, <1>2, <1>5, FollowingIs
    <2>2. Moves(p) /\ proc'[p] = f
        BY <1>1, <2>1, PutMoves DEF IsTask
    <2>3. TaskTyped(p)'
        BY <1>3, <1>5, <2>1, <2>2, AliasAssumption
           DEF TaskTyped, SavesWith, MaintainsWith, FirstPhase, At, Saving, Maintains, Calls, MaintainSteps
    <2>. QED
        BY <1>2, <1>5, <2>1, <2>2, <2>3 DEF AliasTyped, Working, AliasPlaces, AliasSteps, Maintains, Calls,
                                            AliasCalls
<1>6. CASE Tail(r.todo) = <<>> /\ ~Maintains(p)
    <2>1. f = [pc |-> "done"]
        BY <1>1, <1>2, <1>6, FollowingIs
    <2>2. "pc" \in DOMAIN f /\ f.pc = "done"
        BY <2>1
    <2>3. Moves(p) /\ proc'[p] = f
        BY <1>1, <2>2, PutMoves
    <2>. QED
        BY <1>2, <2>2, <2>3 DEF AliasTyped, Working, AliasPlaces, AliasSteps, Answers
<1>. QED
    BY <1>4, <1>5, <1>6

LEMMA FollowingSaves ==
    ASSUME NEW p \in Callers, Shape, UNCHANGED calls, NEW r, IsTask(r), r.todo # <<>>,
           SavesWith(p, r), Put(p, Following(p, r)),
           AllAgree', Maintained => MaintainedStands',
           \A a \in ContactParts : /\ r.rules[a] # "none" => rule'[a] # "none"
                                   /\ r.rules[a] = "worker" => rule'[a] = "worker"
    PROVE  Stands(p)'
<1>. DEFINE f == Following(p, r)
<1>1. f = Following(p, r) /\ proc'[p] = f /\ Moves(p)
    BY FollowingTyped
<1>. HIDE DEF f
<1>2. Saving(p) /\ ~Maintains(p) /\ ~Calls(p, "remove") /\ r.phase = 1
    BY DEF SavesWith, Saving, Maintains, Calls
<1>3. Maintained' => Maintained
    BY <1>1, <1>2, MaintainedBefore
<1>4. CASE Tail(r.todo) # <<>>
    <2>1. f.rules = r.rules /\ f.pc = "Box"
        BY <1>1, <1>2, <1>4, FollowingIs
    <2>2. SavingOK(p)'
        BY <1>1, <2>1 DEF SavingOK, Listed, At
    <2>. QED
        BY <1>1, <1>2, <1>3, <2>1, <2>2 DEF Stands, TaskOK, Saving, Maintains, Calls, Working, AliasSteps
<1>5. CASE Tail(r.todo) = <<>>
    <2>1. f = [pc |-> "done"]
        BY <1>1, <1>2, <1>5, FollowingIs
    <2>. QED
        BY <1>1, <1>3, <2>1 DEF Stands, Working, AliasSteps
<1>. QED
    BY <1>4, <1>5

LEMMA FollowingMaintains ==
    ASSUME NEW p \in Callers, Shape, UNCHANGED calls, NEW r, IsTask(r), r.todo # <<>>,
           MaintainsWith(p, r), Put(p, Following(p, r)), Maintained => MaintainedStands',
           \A a \in ContactParts : box'[a] = "active" \/ (r.phase = 1 /\ a \in Elements(Tail(r.todo))),
           r.phase = 2 =>
             \A a \in ContactParts : /\ r.rules[a] # "none" => rule'[a] # "none"
                                     /\ r.rules[a] = "worker" => rule'[a] = "worker"
                                     /\ rule'[a] = "worker" \/ a \in Elements(Tail(r.todo))
    PROVE  Stands(p)'
<1>. DEFINE f == Following(p, r)
<1>1. f = Following(p, r) /\ proc'[p] = f /\ Moves(p)
    BY FollowingTyped
<1>. HIDE DEF f
<1>2. Maintains(p) /\ ~Saving(p) /\ ~Calls(p, "remove") /\ r.phase \in {1, 2}
    BY DEF MaintainsWith, Saving, Maintains, Calls
<1>3. SUFFICES f.pc \in {"Rule", "Box", "List", "Redundant"} /\ MaintainingOK(p)'
    <2>1. Maintained' => Maintained
        BY <1>1, <1>3, MaintainedBefore
    <2>. QED
        BY <1>1, <1>2, <1>3, <2>1 DEF Stands, TaskOK, Saving, Maintains, Calls, Working, AliasSteps
<1>4. CASE Tail(r.todo) # <<>>
    <2>1. f.todo = Tail(r.todo) /\ f.rules = r.rules /\ f.phase = r.phase
          /\ f.pc = IF r.phase = 2 THEN "Rule" ELSE "Box"
        BY <1>1, <1>2, <1>4, FollowingIs
    <2>. QED
        BY <1>1, <1>2, <2>1 DEF MaintainingOK, Waits, Listed, At
<1>5. CASE Tail(r.todo) = <<>>
    <2>1. Elements(Tail(r.todo)) = {}
        BY <1>5 DEF Elements
    <2>2. CASE r.phase = 1
        <3>1. f.pc = "List" /\ f.todo = Aliases /\ f.phase = 2
            BY <1>1, <1>2, <1>5, <2>2, FollowingIs
        <3>. QED
            BY <1>1, <2>1, <2>2, <3>1 DEF MaintainingOK, At
    <2>3. CASE r.phase = 2
        <3>1. f.pc = "Redundant"
            BY <1>1, <1>2, <1>5, <2>3, FollowingIs
        <3>. QED
            BY <1>1, <2>1, <2>3, <3>1 DEF MaintainingOK, At
    <2>. QED
        BY <1>2, <2>2, <2>3
<1>. QED
    BY <1>4, <1>5

LEMMA AtWork ==
    ASSUME NEW p \in Callers, Ready(p), proc[p].pc \in AliasSteps
    PROVE  /\ Working(p) /\ TaskTyped(p) /\ IsTask(proc[p])
           /\ Saving(p) \/ Maintains(p) \/ Calls(p, "remove")
           /\ ~At(p, "Redundant") => /\ proc[p].todo # <<>> /\ Part(p) \in ContactParts
                                     /\ Part(p) \in Localparts
BY HeadTail DEF Ready, AliasTyped, Working, TaskTyped, IsTask, AliasCalls, Saving, Maintains, Calls, Part,
                Localparts

LEMMA MaintainedKept ==
    ASSUME AliasRows, MaintainedStands, NEW a \in ContactParts,
           box' = box \/ box' = [box EXCEPT ![a] = "active"],
           rule' = rule \/ rule' = [rule EXCEPT ![a] = "worker"]
    PROVE  MaintainedStands'
<1>1. \A b \in ContactParts : box'[b] = box[b]
    BY DEF AliasRows, MaintainedStands
<1>2. \A l \in Localparts : rule'[l] = rule[l]
    BY DEF AliasRows, MaintainedStands
<1>. QED
    BY <1>1, <1>2 DEF MaintainedStands, Localparts

LEMMA WithBoxKeeps ==
    ASSUME NEW p \in Callers, Ready(p), UNCHANGED <<calls, rule, unclear>>,
           proc[p].pc \in {"Box", "Activate"},
           NEW r, IsTask(r), r.todo = proc[p].todo, r.rules = proc[p].rules, r.phase = proc[p].phase,
           Stands(p) /\ Saving(p) =>
             /\ r.created <=> box[Part(p)] = "none"
             /\ \/ r.prior = "active" /\ box[Part(p)] \in {"none", "active"}
                \/ r.prior = "inactive" /\ box[Part(p)] = "inactive",
           box' = box \/ box' = [box EXCEPT ![Part(p)] = "active"], box'[Part(p)] = "active",
           Put(p, WithBox(p, r))
    PROVE  Keeps(p)
<1>1. /\ Shape /\ AliasRows /\ Working(p) /\ TaskTyped(p) /\ IsTask(proc[p])
      /\ proc[p].todo # <<>> /\ Part(p) \in ContactParts
    BY AtWork DEF Ready, AliasSteps, At
<1>2. /\ ~Calls(p, "remove") /\ (Saving(p) \/ Maintains(p)) /\ r.phase = 1
      /\ Saving(p) => ~Maintains(p) /\ r.rules \in [Localparts -> RuleKinds] /\ Part(p) = Head(r.todo)
    BY <1>1, AtWork DEF TaskTyped, At, FirstPhase, Saving, Maintains, Calls, RemoveSteps, Part, AliasSteps
<1>3. AliasRows' /\ (\A a \in ContactParts \ {Part(p)} : box'[a] = box[a])
    BY <1>1 DEF AliasRows, BoxKinds
<1>4. MaintainedStands => MaintainedStands'
    BY <1>1, MaintainedKept
<1>5. CASE Maintains(p)
    <2>1. Put(p, Following(p, r)) /\ MaintainsWith(p, r)
        BY <1>2, <1>5 DEF WithBox, MaintainsWith
    <2>2. Moves(p) /\ AliasTyped(p)'
        BY <1>1, <2>1, FollowingTyped
    <2>3. ASSUME Stands(p)
          PROVE  Stands(p)'
        <3>1. ASSUME NEW a \in ContactParts
              PROVE  box'[a] = "active" \/ (r.phase = 1 /\ a \in Elements(Tail(r.todo)))
            <4>1. box[a] = "active" \/ a \in Elements(r.todo)
                BY <1>1, <1>5, <2>3 DEF Stands, TaskOK, MaintainingOK, Waits
            <4>2. a = Part(p) \/ box[a] = "active" \/ a \in Elements(Tail(r.todo))
                BY <1>1, <4>1, HeadTail DEF IsTask, Part
            <4>. QED
                BY <1>2, <1>3, <4>2
        <3>2. Maintained => MaintainedStands'
            BY <1>4, <2>3 DEF Stands
        <3>. QED
            BY <1>1, <1>2, <2>1, <3>1, <3>2, FollowingMaintains
    <2>. QED
        BY <1>3, <2>2, <2>3 DEF Keeps
<1>6. CASE Saving(p) /\ Healthy(p, r.rules, Head(r.todo))
    <2>1. Put(p, Following(p, r)) /\ SavesWith(p, r) /\ r.rules[Part(p)] = "worker"
        BY <1>2, <1>6 DEF WithBox, SavesWith, Healthy
    <2>2. Moves(p) /\ AliasTyped(p)'
        BY <1>1, <2>1, FollowingTyped
    <2>3. ASSUME Stands(p)
          PROVE  Stands(p)'
        <3>1. Listed(p) /\ AllAgree
            BY <1>1, <1>6, <2>3 DEF Stands, TaskOK, SavingOK, At
        <3>2. box[Part(p)] = "active"
            BY <1>1, <2>1, <3>1 DEF Listed, AllAgree, Agrees
        <3>3. AllAgree'
            BY <1>3, <3>1, <3>2 DEF AllAgree, Agrees
        <3>4. Maintained => MaintainedStands'
            BY <1>4, <2>3 DEF Stands
        <3>5. \A a \in ContactParts : /\ r.rules[a] # "none" => rule'[a] # "none"
                                      /\ r.rules[a] = "worker" => rule'[a] = "worker"
            BY <3>1 DEF Listed
        <3>. QED
            BY <1>1, <2>1, <3>3, <3>4, <3>5, FollowingSaves
    <2>. QED
        BY <1>3, <2>2, <2>3 DEF Keeps
<1>7. CASE Saving(p) /\ ~Healthy(p, r.rules, Head(r.todo))
    <2>. DEFINE t == [r EXCEPT !.pc = "Rule"]
    <2>1. Put(p, t) /\ IsTask(t) /\ t.pc = "Rule" /\ t.todo = r.todo /\ t.rules = r.rules
          /\ t.phase = r.phase /\ t.created = r.created /\ t.prior = r.prior
        BY <1>2, <1>7 DEF WithBox, IsTask
    <2>. HIDE DEF t
    <2>2. Moves(p) /\ proc'[p] = t
        BY <1>1, <2>1, PutMoves DEF IsTask
    <2>3. TaskTyped(p)' /\ Saving(p)' /\ ~Maintains(p)' /\ ~Calls(p, "remove")'
        BY <1>1, <1>2, <1>7, <2>1, <2>2
           DEF TaskTyped, FirstPhase, At, Saving, Maintains, Calls, SaveSteps
    <2>4. AliasTyped(p)'
        BY <2>1, <2>2, <2>3 DEF AliasTyped, Working, AliasPlaces, AliasSteps, Saving, Calls, AliasCalls
    <2>5. ASSUME Stands(p)
          PROVE  Stands(p)'
        <3>1. Listed(p) /\ AllAgree
            BY <1>1, <1>7, <2>5 DEF Stands, TaskOK, SavingOK, At
        <3>2. Listed(p)' /\ Part(p)' = Part(p)
            BY <2>1, <2>2, <3>1 DEF Listed, Part
        <3>3. OthersAgree(p)'
            BY <1>3, <3>1, <3>2 DEF OthersAgree, AllAgree, Agrees
        <3>4. SavingOK(p)'
            BY <1>1, <1>7, <2>1, <2>2, <2>5, <3>1, <3>2, <3>3 DEF SavingOK, At, AllAgree, Agrees
        <3>5. Maintained' => MaintainedStands'
            BY <1>4, <2>1, <2>2, <2>5, MaintainedBefore DEF Stands
        <3>. QED
            BY <2>1, <2>2, <2>3, <3>4, <3>5 DEF Stands, TaskOK, Working, AliasSteps
    <2>. QED
        BY <1>3, <2>2, <2>4, <2>5 DEF Keeps
<1>. QED
    BY <1>2, <1>5, <1>6, <1>7

LEMMA BoxKeeps ==
    ASSUME NEW p \in Callers, Ready(p), UNCHANGED calls, Box(p)
    PROVE  Keeps(p)
<1>. DEFINE new == box[Part(p)] = "none"
            r == [proc[p] EXCEPT !.created = new, !.prior = IF new THEN "active" ELSE box[Part(p)]]
            t == [r EXCEPT !.pc = "Activate"]
<1>1. /\ proc[p].pc = "Box" /\ UNCHANGED <<rule, unclear>>
      /\ box' = IF new THEN [box EXCEPT ![Part(p)] = "active"] ELSE box
      /\ Put(p, IF r.prior = "active" THEN WithBox(p, r) ELSE t)
    BY DEF Box, At
<1>2. /\ Shape /\ AliasRows /\ Working(p) /\ TaskTyped(p) /\ IsTask(proc[p])
      /\ proc[p].todo # <<>> /\ Part(p) \in ContactParts
      /\ ~Calls(p, "remove") /\ (Saving(p) \/ Maintains(p)) /\ proc[p].phase = 1
    BY <1>1, AtWork DEF Ready, AliasSteps, At, TaskTyped, RemoveSteps, Saving, Maintains, Calls
<1>3. box[Part(p)] \in BoxKinds
    BY <1>2 DEF AliasRows
<1>4. /\ IsTask(r) /\ r.todo = proc[p].todo /\ r.rules = proc[p].rules /\ r.phase = proc[p].phase
      /\ r.created = new /\ r.prior = IF new THEN "active" ELSE box[Part(p)]
    BY <1>2, <1>3 DEF IsTask, BoxKinds
<1>. HIDE DEF r
<1>5. CASE r.prior = "active"
    <2>1. (box' = box \/ box' = [box EXCEPT ![Part(p)] = "active"]) /\ box'[Part(p)] = "active"
        BY <1>1, <1>2, <1>4, <1>5 DEF AliasRows
    <2>. QED
        BY <1>1, <1>3, <1>4, <1>5, <2>1, WithBoxKeeps DEF BoxKinds
<1>6. CASE r.prior # "active"
    <2>1. /\ Put(p, t) /\ IsTask(t) /\ t.pc = "Activate" /\ t.todo = r.todo /\ t.rules = r.rules
          /\ t.phase = 1 /\ t.created = r.created /\ t.prior = r.prior
        BY <1>1, <1>2, <1>4, <1>6 DEF IsTask
    <2>. HIDE DEF t
    <2>2. Moves(p) /\ proc'[p] = t /\ UNCHANGED <<calls, box, rule>>
        BY <1>1, <1>2, <1>4, <1>6, <2>1, PutMoves DEF IsTask
    <2>3. box[Part(p)] = "inactive" /\ ~t.created /\ t.prior = "inactive"
        BY <1>3, <1>4, <1>6, <2>1 DEF BoxKinds
    <2>4. AliasTyped(p)'
        <3>1. TaskTyped(p)'
            BY <1>1, <1>2, <1>4, <2>1, <2>2
               DEF TaskTyped, FirstPhase, At, Saving, Maintains, Calls, SaveSteps, MaintainSteps
        <3>. QED
            BY <1>2, <2>1, <2>2, <3>1 DEF AliasTyped, Working, AliasPlaces, AliasSteps, Saving, Maintains,
                                          Calls, AliasCalls
    <2>5. Maintained' => Maintained
        BY <2>1, <2>2, MaintainedBefore
    <2>6. ASSUME Stands(p)
          PROVE  Stands(p)'
        <3>1. Part(p)' = Part(p)
            BY <1>4, <2>1, <2>2 DEF Part
        <3>2. Saving(p) => SavingOK(p)'
            BY <1>1, <1>2, <1>4, <2>1, <2>2, <2>3, <2>6, <3>1
               DEF Stands, TaskOK, SavingOK, Listed, At, AllAgree, Agrees
        <3>3. Maintains(p) => MaintainingOK(p)'
            BY <1>1, <1>2, <1>4, <2>1, <2>2, <2>3, <2>6, <3>1
               DEF Stands, TaskOK, MaintainingOK, Waits, At
        <3>. QED
            BY <1>2, <2>1, <2>2, <2>5, <2>6, <3>2, <3>3
               DEF Stands, TaskOK, Working, AliasSteps, MaintainedStands, Saving, Maintains, Calls
    <2>. QED
        BY <1>2, <2>2, <2>4, <2>6 DEF Keeps, AliasRows
<1>. QED
    BY <1>5, <1>6

LEMMA ActivateKeeps ==
    ASSUME NEW p \in Callers, Ready(p), UNCHANGED calls, Activate(p)
    PROVE  Keeps(p)
<1>1. /\ proc[p].pc = "Activate" /\ UNCHANGED <<rule, unclear>>
    BY DEF Activate, At
<1>2. /\ Shape /\ AliasRows /\ Working(p) /\ TaskTyped(p) /\ IsTask(proc[p])
      /\ Part(p) \in ContactParts
      /\ ~Calls(p, "remove") /\ (Saving(p) \/ Maintains(p))
    BY <1>1, AtWork DEF Ready, AliasSteps, At, TaskTyped, RemoveSteps, Saving, Maintains, Calls
<1>3. Stands(p) => box[Part(p)] = "inactive" /\ (Saving(p) => ~proc[p].created /\ proc[p].prior = "inactive")
    BY <1>1, <1>2 DEF Stands, TaskOK, SavingOK, MaintainingOK, At
<1>4. CASE box' = [box EXCEPT ![Part(p)] = "active"] /\ Put(p, WithBox(p, proc[p]))
    <2>1. box'[Part(p)] = "active"
        BY <1>2, <1>4 DEF AliasRows
    <2>. QED
        BY <1>1, <1>2, <1>3, <1>4, <2>1, WithBoxKeeps DEF IsTask
<1>5. CASE box[Part(p)] = "none" /\ Answer(p, "error") /\ box' = box
    <2>1. Moves(p) /\ AliasTyped(p)'
        BY <1>2, <1>5, AnswerOver DEF Answers
    <2>. QED
        BY <1>1, <1>2, <1>3, <1>5, <2>1 DEF Keeps, AliasRows
<1>. QED
    BY <1>4, <1>5 DEF Activate

LEMMA UndoKeeps ==
    ASSUME NEW p \in Callers, Ready(p), UNCHANGED calls, Undo(p)
    PROVE  Keeps(p)
<1>1. /\ proc[p].pc = "Undo" /\ Answer(p, "error") /\ UNCHANGED <<rule, unclear>>
      /\ box' = [box EXCEPT ![Part(p)] = IF proc[p].created THEN "none"
                                         ELSE IF @ = "none" \/ proc[p].prior = "active" THEN @
                                         ELSE proc[p].prior]
    BY DEF Undo, At
<1>2. /\ Shape /\ AliasRows /\ Working(p) /\ TaskTyped(p) /\ IsTask(proc[p])
      /\ Part(p) \in ContactParts /\ Saving(p)
    BY <1>1, AtWork DEF Ready, AliasSteps, At, TaskTyped, RemoveSteps, MaintainSteps
<1>3. AliasRows'
    BY <1>1, <1>2 DEF AliasRows, IsTask, BoxKinds
<1>4. Moves(p) /\ proc'[p].pc = "error" /\ ~Working(p)' /\ AliasTyped(p)'
    BY <1>1, <1>2, AnswerOver DEF Answers
<1>5. Maintained' => Maintained
    BY <1>4, MaintainedBefore
<1>6. ASSUME Stands(p)
      PROVE  Stands(p)'
    <2>1. SavingOK(p)
        BY <1>2, <1>6 DEF Stands, TaskOK
    <2>2. OthersAgree(p) /\ box[Part(p)] = "active" /\ proc[p].prior \in {"active", "inactive"}
          /\ (rule[Part(p)] = "worker" <=> ~proc[p].created /\ proc[p].prior = "active")
        BY <1>1, <2>1 DEF SavingOK, At
    <2>3. box'[Part(p)] = "active" <=> rule'[Part(p)] = "worker"
        BY <1>1, <1>2, <2>2 DEF AliasRows
    <2>4. AllAgree'
        BY <1>1, <1>2, <2>2, <2>3 DEF AliasRows, AllAgree, OthersAgree, Agrees
    <2>5. Maintained => MaintainedStands'
        <3>1. ASSUME MaintainedStands
              PROVE  \A a \in ContactParts : box'[a] = box[a]
            BY <1>1, <1>2, <2>2, <2>3, <3>1 DEF AliasRows, MaintainedStands
        <3>. QED
            BY <1>1, <1>6, <3>1 DEF Stands, MaintainedStands
    <2>. QED
        BY <1>4, <1>5, <2>4, <2>5 DEF Stands
<1>. QED
    BY <1>3, <1>4, <1>6 DEF Keeps

(* The rule could not be written: the mailbox is to be undone.             *)
LEMMA NotFoundTyped ==
    ASSUME NEW p \in Callers, Ready(p), UNCHANGED calls, proc[p].pc = "Rule", NotFound(p)
    PROVE  /\ Moves(p) /\ AliasTyped(p)'
           /\ Maintained' => Maintained
           /\ Saving(p) => proc'[p] = [proc[p] EXCEPT !.pc = "Undo"]
<1>1. /\ Shape /\ Working(p) /\ TaskTyped(p) /\ IsTask(proc[p]) /\ calls[p].call \in AliasCalls
      /\ proc[p].todo # <<>> /\ (Saving(p) \/ Maintains(p))
    BY AtWork DEF Ready, AliasSteps, At, TaskTyped, RemoveSteps, AliasTyped
<1>2. CASE Maintains(p)
    <2>1. Answer(p, "error") /\ ~Saving(p)
        BY <1>2 DEF NotFound, Maintains, Saving, Calls
    <2>2. Moves(p) /\ AliasTyped(p)' /\ proc'[p].pc = "error"
        BY <1>1, <2>1, AnswerOver DEF Answers
    <2>. QED
        BY <2>1, <2>2, MaintainedBefore
<1>3. CASE ~Maintains(p)
    <2>. DEFINE t == [proc[p] EXCEPT !.pc = "Undo"]
    <2>1. Saving(p) /\ ~Calls(p, "remove") /\ Go(p, "Undo")
        BY <1>1, <1>3 DEF NotFound, Saving, Calls
    <2>2. Moves(p) /\ proc'[p] = t
        BY <1>1, <2>1, GoMoves
    <2>3. /\ IsTask(t) /\ t.pc = "Undo" /\ t.todo = proc[p].todo /\ t.rules = proc[p].rules
          /\ t.phase = proc[p].phase
        BY <1>1 DEF IsTask
    <2>. HIDE DEF t
    <2>4. TaskTyped(p)'
        BY <1>1, <1>3, <2>1, <2>2, <2>3 DEF TaskTyped, FirstPhase, At, Saving, Maintains, Calls, SaveSteps
    <2>5. AliasTyped(p)'
        BY <1>1, <2>2, <2>3, <2>4 DEF AliasTyped, Working, AliasPlaces, AliasSteps
    <2>6. Maintained' => Maintained
        BY <2>2, <2>3, MaintainedBefore
    <2>. QED
        BY <2>2, <2>5, <2>6 DEF t
<1>. QED
    BY <1>2, <1>3

LEMMA RuleKeeps ==
    ASSUME NEW p \in Callers, Ready(p), UNCHANGED calls, Rule(p)
    PROVE  Keeps(p)
<1>. DEFINE r == proc[p]
<1>1. proc[p].pc = "Rule" /\ UNCHANGED <<box, unclear>>
    BY DEF Rule, At
<1>2. /\ Shape /\ AliasRows /\ Working(p) /\ TaskTyped(p) /\ IsTask(r)
      /\ r.todo # <<>> /\ Part(p) \in ContactParts /\ Part(p) \in Localparts
      /\ ~Calls(p, "remove") /\ (Saving(p) \/ Maintains(p))
    BY <1>1, AtWork DEF Ready, AliasSteps, At, TaskTyped, RemoveSteps, Saving, Maintains, Calls
<1>3. /\ Saving(p) => SavesWith(p, r) /\ ~Maintains(p)
      /\ Maintains(p) => MaintainsWith(p, r) /\ r.phase = 2
    BY <1>1, <1>2 DEF TaskTyped, FirstPhase, At, SavesWith, MaintainsWith, Saving, Maintains, Calls
<1>4. Stands(p) => Listed(p)
    BY <1>1, <1>2 DEF Stands, TaskOK, SavingOK, MaintainingOK, At
<1>5. CASE ~Fine(p) /\ Gone(p) /\ NotFound(p) /\ UNCHANGED rule
    <2>1. Moves(p) /\ AliasTyped(p)'
        BY <1>1, <1>5, NotFoundTyped
    <2>2. ~Stands(p)
        BY <1>2, <1>4, <1>5 DEF Gone, Listed
    <2>. QED
        BY <1>1, <1>2, <1>5, <2>1, <2>2 DEF Keeps, AliasRows
<1>6. CASE /\ Put(p, Following(p, r))
           /\ \/ rule' = [rule EXCEPT ![Part(p)] = "worker"]
              \/ Fine(p) /\ rule' = rule
    <2>1. /\ AliasRows' /\ \A l \in Localparts \ {Part(p)} : rule'[l] = rule[l]
          /\ \A l \in Localparts : rule'[l] \in {rule[l], "worker"}
        BY <1>1, <1>2, <1>6, AliasAssumption DEF AliasRows, RuleKinds, Localparts
    <2>2. Moves(p) /\ AliasTyped(p)'
        BY <1>2, <1>3, <1>6, FollowingTyped
    <2>3. ASSUME Stands(p)
          PROVE  Stands(p)'
        <3>1. rule'[Part(p)] = "worker"
            BY <1>2, <1>4, <1>6, <2>3 DEF Fine, Listed, AliasRows
        <3>2. \A a \in ContactParts : /\ r.rules[a] # "none" => rule'[a] # "none"
                                      /\ r.rules[a] = "worker" => rule'[a] = "worker"
            BY <1>4, <2>1, <2>3 DEF Listed, Localparts
        <3>3. Maintained => MaintainedStands'
            BY <1>1, <1>2, <1>6, <2>3, MaintainedKept DEF Stands
        <3>4. CASE Saving(p)
            <4>1. OthersAgree(p) /\ box[Part(p)] = "active"
                BY <1>1, <1>2, <2>3, <3>4 DEF Stands, TaskOK, SavingOK, At
            <4>2. AllAgree'
                BY <1>1, <2>1, <3>1, <4>1 DEF AllAgree, OthersAgree, Agrees, Localparts
            <4>. QED
                BY <1>2, <1>3, <1>6, <3>2, <3>3, <3>4, <4>2, FollowingSaves
        <3>5. CASE Maintains(p)
            <4>1. /\ \A a \in ContactParts : box'[a] = "active"
                  /\ \A a \in ContactParts : rule[a] = "worker" \/ a \in Elements(r.todo)
                BY <1>1, <1>2, <1>3, <2>3, <3>5 DEF Stands, TaskOK, MaintainingOK, Waits, At
            <4>2. \A a \in Elements(r.todo) : a = Part(p) \/ a \in Elements(Tail(r.todo))
                BY <1>2, HeadTail DEF IsTask, Part
            <4>3. \A a \in ContactParts : rule'[a] = "worker" \/ a \in Elements(Tail(r.todo))
                BY <2>1, <3>1, <4>1, <4>2 DEF Localparts
            <4>. QED
                BY <1>2, <1>3, <1>6, <3>2, <3>3, <3>5, <4>1, <4>3, FollowingMaintains
        <3>. QED
            BY <1>2, <3>4, <3>5
    <2>. QED
        BY <2>1, <2>2, <2>3 DEF Keeps
<1>. QED
    BY <1>5, <1>6 DEF Rule

-----------------------------------------------------------------------------
(* Deletion of an alias.                                                   *)

Removes(p) == ~calls[p].auto /\ Calls(p, "remove") /\ ~Saving(p) /\ ~Maintains(p)

LEMMA Removal ==
    ASSUME NEW p \in Callers, Ready(p), proc[p].pc \in RemoveSteps \ {"List"}
    PROVE  /\ Shape /\ AliasRows /\ Working(p) /\ TaskTyped(p) /\ IsTask(proc[p]) /\ Removes(p)
           /\ proc[p].todo # <<>> /\ Part(p) \in ContactParts /\ Part(p) \in Localparts
           /\ ~Maintained
           /\ Stands(p) => RemovingOK(p)
<1>1. /\ Shape /\ CallsFit /\ AliasRows /\ Working(p) /\ TaskTyped(p) /\ IsTask(proc[p])
      /\ proc[p].todo # <<>> /\ Part(p) \in ContactParts /\ Part(p) \in Localparts
      /\ Saving(p) \/ Maintains(p) \/ Calls(p, "remove")
    BY AtWork DEF Ready, AliasSteps, At, RemoveSteps
<1>2. Removes(p)
    BY <1>1 DEF TaskTyped, SaveSteps, MaintainSteps, RemoveSteps, Removes, Calls, Saving, Maintains
<1>. QED
    BY <1>1, <1>2 DEF CallsFit, Removes, Maintained, Stands, TaskOK

Proceeds(p, k, s) ==
    /\ proc[p].pc \in RemoveSteps \ {"List"} /\ k \in BoxKinds /\ s \in RemoveSteps \union Answers
    /\ Put(p, [proc[p] EXCEPT !.prior = k, !.pc = s])

LEMMA RemovalGoes ==
    ASSUME NEW p \in Callers, Ready(p), UNCHANGED calls, NEW k, NEW s, Proceeds(p, k, s)
    PROVE  /\ Moves(p) /\ AliasTyped(p)'
           /\ proc'[p].pc = s /\ proc'[p].prior = k /\ proc'[p].todo = proc[p].todo
           /\ proc'[p].rules = proc[p].rules
           /\ ~Maintained' /\ (Working(p)' <=> s \notin Answers)
<1>. DEFINE t == [proc[p] EXCEPT !.prior = k, !.pc = s]
<1>1. /\ Shape /\ TaskTyped(p) /\ IsTask(proc[p]) /\ Removes(p) /\ proc[p].todo # <<>> /\ ~Maintained
    BY Removal DEF Proceeds
<1>2. /\ IsTask(t) /\ t.pc = s /\ t.prior = k /\ t.todo = proc[p].todo /\ t.rules = proc[p].rules
    BY <1>1 DEF IsTask, Proceeds
<1>3. Put(p, t) /\ s \in RemoveSteps \union Answers /\ proc[p].pc # "List"
    BY DEF Proceeds
<1>. HIDE DEF t
<1>4. Moves(p) /\ proc'[p] = t
    BY <1>1, <1>2, <1>3, PutMoves DEF IsTask
<1>5. TaskTyped(p)' \/ s \in Answers
    BY <1>1, <1>2, <1>3, <1>4 DEF TaskTyped, FirstPhase, At, Removes, Saving, Maintains, Calls, RemoveSteps
<1>6. AliasTyped(p)' /\ (Working(p)' <=> s \notin Answers)
    BY <1>1, <1>2, <1>3, <1>4, <1>5
       DEF AliasTyped, Working, AliasPlaces, AliasSteps, Answers, RemoveSteps, Removes,
                                  Calls, AliasCalls
<1>7. ~Maintained'
    BY <1>1, <1>4, MaintainedBefore DEF Removes
<1>. QED
    BY <1>2, <1>4, <1>6, <1>7

LEMMA OwnBoxKeeps ==
    ASSUME NEW p \in Callers, Ready(p), UNCHANGED calls, OwnBox(p)
    PROVE  Keeps(p)
<1>. DEFINE s == IF box[Part(p)] = "active" THEN "Deactivate"
                 ELSE IF proc[p].rules[Part(p)] = "none" THEN "done"
                 ELSE "DeleteRule"
            k == box[Part(p)]
<1>1. /\ proc[p].pc = "OwnBox" /\ UNCHANGED <<box, rule, unclear>>
      /\ Put(p, [proc[p] EXCEPT !.prior = k, !.pc = s])
    BY DEF OwnBox, At, aliasVars
<1>2. /\ proc[p].pc \in RemoveSteps \ {"List"} /\ AliasRows /\ Part(p) \in ContactParts
      /\ Working(p) /\ Removes(p) /\ (Stands(p) => RemovingOK(p))
    BY <1>1, Removal DEF RemoveSteps
<1>3. Proceeds(p, k, s)
    BY <1>1, <1>2 DEF Proceeds, AliasRows, RemoveSteps, Answers
<1>. HIDE DEF s, k
<1>4. /\ Moves(p) /\ AliasTyped(p)'
      /\ proc'[p].pc = s /\ proc'[p].prior = box[Part(p)] /\ Part(p)' = Part(p)
      /\ proc'[p].rules = proc[p].rules
      /\ ~Maintained' /\ (Working(p)' <=> s \notin Answers)
    <2>1. proc'[p].todo = proc[p].todo
        BY <1>3, RemovalGoes
    <2>2. Part(p)' = Part(p)
        BY <2>1 DEF Part
    <2>. QED
        BY <1>3, <2>2, RemovalGoes DEF k
<1>5. AliasRows'
    BY <1>1, <1>2 DEF AliasRows
<1>6. ASSUME Stands(p)
      PROVE  Stands(p)'
    <2>1. proc[p].rules[Part(p)] = rule[Part(p)] /\ AllAgree /\ Agrees(Part(p))
        BY <1>1, <1>2, <1>6 DEF RemovingOK, At, AllAgree
    <2>2. AllAgree'
        BY <1>1, <2>1 DEF AllAgree, Agrees
    <2>3. s \in {"Deactivate", "DeleteRule", "done"}
          /\ (s = "Deactivate" => box[Part(p)] = "active") /\ (s = "DeleteRule" => box[Part(p)] # "active")
        BY DEF s
    <2>4. RemovingOK(p)'
        BY <1>1, <1>4, <2>1, <2>2, <2>3 DEF RemovingOK, At, OthersAgree, AllAgree, Agrees
    <2>. QED
        BY <1>2, <1>4, <2>2, <2>4 DEF Stands, TaskOK, Removes, Saving, Maintains, Calls
<1>. QED
    BY <1>4, <1>5, <1>6 DEF Keeps

LEMMA DeactivateKeeps ==
    ASSUME NEW p \in Callers, Ready(p), UNCHANGED calls, Deactivate(p)
    PROVE  Keeps(p)
<1>. DEFINE s == IF proc[p].rules[Part(p)] = "none" THEN "done" ELSE "DeleteRule"
<1>1. proc[p].pc = "Deactivate" /\ UNCHANGED <<rule, unclear>>
    BY DEF Deactivate, At
<1>2. /\ proc[p].pc \in RemoveSteps \ {"List"} /\ Shape /\ AliasRows /\ Part(p) \in ContactParts
      /\ Working(p) /\ IsTask(proc[p]) /\ Removes(p) /\ (Stands(p) => RemovingOK(p))
    BY <1>1, Removal DEF RemoveSteps
<1>3. Stands(p) => /\ proc[p].rules[Part(p)] = rule[Part(p)] /\ AllAgree
                   /\ box[Part(p)] = "active" /\ proc[p].prior = "active"
    BY <1>1, <1>2 DEF RemovingOK, At
<1>4. CASE box[Part(p)] = "none" /\ Answer(p, "error") /\ box' = box
    <2>1. Moves(p) /\ AliasTyped(p)'
        BY <1>2, <1>4, AnswerOver DEF Answers
    <2>. QED
        BY <1>1, <1>2, <1>3, <1>4, <2>1 DEF Keeps, AliasRows
<1>5. CASE box' = [box EXCEPT ![Part(p)] = "inactive"] /\ Go(p, s)
    <2>1. AliasRows' /\ box'[Part(p)] = "inactive" /\ \A a \in ContactParts \ {Part(p)} : box'[a] = box[a]
        BY <1>1, <1>2, <1>5 DEF AliasRows, BoxKinds
    <2>. DEFINE k == proc[p].prior
    <2>2. Put(p, [proc[p] EXCEPT !.prior = k, !.pc = s])
        <3>1. [proc[p] EXCEPT !.prior = proc[p].prior, !.pc = s] = [proc[p] EXCEPT !.pc = s]
            BY <1>2 DEF IsTask
        <3>. QED
            BY <1>5, <3>1 DEF Go
    <2>3. Proceeds(p, k, s)
        BY <1>2, <2>2 DEF Proceeds, IsTask, RemoveSteps, Answers
    <2>. HIDE DEF s, k
    <2>4. /\ Moves(p) /\ AliasTyped(p)'
          /\ proc'[p].pc = s /\ proc'[p].prior = proc[p].prior /\ Part(p)' = Part(p)
          /\ proc'[p].rules = proc[p].rules
          /\ ~Maintained' /\ (Working(p)' <=> s \notin Answers)
        <3>1. proc'[p].todo = proc[p].todo
            BY <2>3, RemovalGoes
        <3>2. Part(p)' = Part(p)
            BY <3>1 DEF Part
        <3>. QED
            BY <2>3, <3>2, RemovalGoes DEF k
    <2>5. ASSUME Stands(p)
          PROVE  Stands(p)'
        <3>1. /\ AllAgree /\ rule[Part(p)] = "worker" /\ proc[p].prior = "active"
              /\ s = "DeleteRule" /\ proc[p].rules[Part(p)] = rule[Part(p)]
            BY <1>2, <1>3, <2>5 DEF AllAgree, Agrees, s
        <3>2. OthersAgree(p)'
            BY <1>1, <2>1, <2>4, <3>1 DEF OthersAgree, AllAgree, Agrees
        <3>3. RemovingOK(p)'
            BY <1>1, <2>1, <2>4, <3>1, <3>2 DEF RemovingOK, At
        <3>4. Working(p)'
            BY <2>4, <3>1 DEF Answers
        <3>. QED
            BY <1>2, <2>4, <3>3, <3>4 DEF Stands, TaskOK, Removes, Saving, Maintains, Calls
    <2>. QED
        BY <2>1, <2>4, <2>5 DEF Keeps
<1>. QED
    BY <1>4, <1>5 DEF Deactivate

(* The rule has not gone while one request is at work: it is deleted, or   *)
(* the mailbox is restored.                                                *)
LEMMA RestoringTyped ==
    ASSUME NEW p \in Callers, Ready(p), UNCHANGED calls, proc[p].pc = "DeleteRule", Go(p, "Restore")
    PROVE  /\ Moves(p) /\ AliasTyped(p)' /\ ~Maintained' /\ Working(p)'
           /\ proc'[p] = [proc[p] EXCEPT !.pc = "Restore"]
<1>1. proc[p].pc \in RemoveSteps \ {"List"} /\ IsTask(proc[p]) /\ Shape
    BY Removal DEF RemoveSteps
<1>. DEFINE k == proc[p].prior
<1>2. [proc[p] EXCEPT !.prior = k, !.pc = "Restore"] = [proc[p] EXCEPT !.pc = "Restore"]
    BY <1>1 DEF IsTask
<1>3. Proceeds(p, k, "Restore")
    BY <1>1, <1>2 DEF Proceeds, Go, IsTask, RemoveSteps
<1>. HIDE DEF k
<1>4. Moves(p) /\ AliasTyped(p)' /\ ~Maintained' /\ Working(p)'
    BY <1>3, RemovalGoes DEF Answers
<1>5. proc'[p] = [proc[p] EXCEPT !.pc = "Restore"]
    BY <1>1, GoMoves
<1>. QED
    BY <1>4, <1>5

LEMMA DeleteRuleKeeps ==
    ASSUME NEW p \in Callers, Ready(p), UNCHANGED calls, DeleteRule(p)
    PROVE  Keeps(p)
<1>1. proc[p].pc = "DeleteRule" /\ UNCHANGED <<box, unclear>>
    BY DEF DeleteRule, At
<1>2. /\ Shape /\ AliasRows /\ Part(p) \in ContactParts /\ Part(p) \in Localparts /\ Working(p)
      /\ Removes(p) /\ ~Maintained /\ (Stands(p) => RemovingOK(p))
    BY <1>1, Removal DEF RemoveSteps
<1>3. Stands(p) => /\ proc[p].rules[Part(p)] = rule[Part(p)] /\ OthersAgree(p)
                   /\ box[Part(p)] # "active"
    BY <1>1, <1>2 DEF RemovingOK, At
<1>4. CASE Gone(p) /\ Go(p, "Restore") /\ UNCHANGED rule
    <2>1. Moves(p) /\ AliasTyped(p)' /\ ~Stands(p)
        BY <1>1, <1>3, <1>4, RestoringTyped DEF Gone
    <2>. QED
        BY <1>1, <1>2, <1>4, <2>1 DEF Keeps, AliasRows
<1>5. CASE rule' = [rule EXCEPT ![Part(p)] = "none"] /\ Answer(p, "done")
    <2>1. AliasRows' /\ rule'[Part(p)] = "none" /\ \A l \in Localparts \ {Part(p)} : rule'[l] = rule[l]
        BY <1>1, <1>2, <1>5, AliasAssumption DEF AliasRows, RuleKinds, Localparts
    <2>2. Moves(p) /\ AliasTyped(p)' /\ ~Working(p)'
        BY <1>2, <1>5, AnswerOver DEF Answers
    <2>3. ~Maintained'
        BY <1>2, <2>2, MaintainedBefore DEF Removes
    <2>4. Stands(p) => AllAgree'
        BY <1>1, <1>3, <2>1 DEF AllAgree, OthersAgree, Agrees, Localparts
    <2>. QED
        BY <2>1, <2>2, <2>3, <2>4 DEF Keeps, Stands
<1>. QED
    BY <1>4, <1>5 DEF DeleteRule

LEMMA RestoreKeeps ==
    ASSUME NEW p \in Callers, Ready(p), UNCHANGED calls, Restore(p)
    PROVE  Keeps(p)
<1>1. /\ proc[p].pc = "Restore" /\ Answer(p, "error") /\ UNCHANGED <<rule, unclear>>
      /\ box' = IF proc[p].prior = "active" /\ box[Part(p)] # "none"
                THEN [box EXCEPT ![Part(p)] = "active"] ELSE box
    BY DEF Restore, At
<1>2. /\ Shape /\ AliasRows /\ Part(p) \in ContactParts /\ Part(p) \in Localparts /\ Working(p)
      /\ Removes(p) /\ ~Maintained /\ (Stands(p) => RemovingOK(p))
    BY <1>1, Removal DEF RemoveSteps
<1>3. AliasRows' /\ \A a \in ContactParts \ {Part(p)} : box'[a] = box[a]
    BY <1>1, <1>2 DEF AliasRows, BoxKinds
<1>4. Moves(p) /\ AliasTyped(p)' /\ ~Working(p)'
    BY <1>1, <1>2, AnswerOver DEF Answers
<1>5. ~Maintained'
    BY <1>2, <1>4, MaintainedBefore DEF Removes
<1>6. ASSUME Stands(p)
      PROVE  AllAgree'
    <2>1. /\ OthersAgree(p)
          /\ rule[Part(p)] = "worker" => box[Part(p)] = "inactive" /\ proc[p].prior = "active"
          /\ rule[Part(p)] # "worker" => box[Part(p)] # "active" /\ proc[p].prior # "active"
        BY <1>1, <1>2, <1>6 DEF RemovingOK, At
    <2>2. box'[Part(p)] = "active" <=> rule[Part(p)] = "worker"
        BY <1>1, <1>2, <2>1 DEF AliasRows
    <2>. QED
        BY <1>1, <1>3, <2>1, <2>2 DEF AllAgree, OthersAgree, Agrees
<1>. QED
    BY <1>3, <1>4, <1>5, <1>6 DEF Keeps, Stands

-----------------------------------------------------------------------------
(* The clean-up of the maintenance, and failures.                          *)

LEMMA RedundantKeeps ==
    ASSUME NEW p \in Callers, Ready(p), UNCHANGED calls, Redundant(p)
    PROVE  Keeps(p)
<1>. DEFINE extra == {l \in Others \ Preserved : rule[l] = "worker"}
<1>1. proc[p].pc = "Redundant" /\ UNCHANGED <<box, unclear>>
    BY DEF Redundant, At
<1>2. /\ Shape /\ AliasRows /\ AliasTyped(p) /\ Working(p) /\ TaskTyped(p) /\ IsTask(proc[p])
      /\ Maintains(p) /\ ~Saving(p) /\ ~Calls(p, "remove") /\ proc[p].phase = 2
    BY <1>1, AtWork DEF Ready, AliasSteps, At, TaskTyped, SaveSteps, RemoveSteps, Saving, Maintains, Calls
<1>3. Stands(p) => \A a \in ContactParts : box[a] = "active" /\ rule[a] = "worker"
    BY <1>1, <1>2 DEF Stands, TaskOK, MaintainingOK, At
<1>4. ASSUME NEW l \in extra, rule' = [rule EXCEPT ![l] = "none"], UNCHANGED proc
      PROVE  Keeps(p)
    <2>1. l \notin ContactParts /\ l \notin Preserved /\ l \in Localparts
        BY AliasAssumption DEF Localparts
    <2>2. AliasRows' /\ \A a \in ContactParts : rule'[a] = rule[a]
        BY <1>1, <1>2, <1>4, <2>1, AliasAssumption DEF AliasRows, Localparts, RuleKinds
    <2>3. Moves(p)
        BY <1>2, <1>4 DEF Moves, Shape
    <2>4. AliasTyped(p)'
        BY <1>2, <1>4 DEF AliasTyped, Working, TaskTyped, At, FirstPhase, Saving, Maintains, Calls
    <2>5. ASSUME Stands(p)
          PROVE  Stands(p)'
        <3>1. ~Maintained
            BY <2>1, <2>5 DEF Stands, MaintainedStands
        <3>2. ~Maintained'
            BY <1>1, <2>3, <1>4, <3>1, MaintainedBefore
        <3>3. MaintainingOK(p)'
            BY <1>1, <1>3, <1>4, <2>2, <2>5 DEF MaintainingOK, At
        <3>. QED
            BY <1>2, <1>4, <3>2, <3>3 DEF Stands, TaskOK, Working, Saving, Maintains, Calls
    <2>. QED
        BY <2>2, <2>3, <2>4, <2>5 DEF Keeps
<1>5. CASE extra = {} /\ Answer(p, "done") /\ rule' = rule
    <2>1. Moves(p) /\ AliasTyped(p)' /\ ~Working(p)'
        BY <1>2, <1>5, AnswerOver DEF Answers
    <2>2. {l \in Others : rule[l] = "worker"} = Preserved
        BY <1>2, <1>5, AliasAssumption DEF AliasRows
    <2>. QED
        BY <1>1, <1>2, <1>3, <1>5, <2>1, <2>2
           DEF Keeps, Stands, AliasRows, AllAgree, Agrees, MaintainedStands
<1>. QED
    BY <1>4, <1>5 DEF Redundant

LEMMA FailAliasKeeps ==
    ASSUME NEW p \in Callers, Ready(p), UNCHANGED calls, FailAlias(p)
    PROVE  Keeps(p)
<1>1. proc[p].pc \in AliasSteps /\ UNCHANGED box
    BY DEF FailAlias
<1>2. Shape /\ AliasRows /\ Working(p) /\ TaskTyped(p) /\ (Saving(p) \/ Maintains(p) \/ Calls(p, "remove"))
    BY <1>1, AtWork DEF Ready
<1>3. CASE proc[p].pc = "Rule"
    <2>1. NotFound(p) /\ Part(p) \in ContactParts /\ (Saving(p) \/ Maintains(p)) /\ ~Calls(p, "remove")
        BY <1>3, AtWork DEF FailAlias, AliasSteps, At, TaskTyped, RemoveSteps
    <2>2. /\ Moves(p) /\ AliasTyped(p)' /\ (Maintained' => Maintained)
          /\ Saving(p) => proc'[p] = [proc[p] EXCEPT !.pc = "Undo"]
        BY <1>3, <2>1, NotFoundTyped
    <2>3. CASE rule' = [rule EXCEPT ![Part(p)] = "worker"] /\ unclear' = TRUE
        <3>1. AliasRows'
            BY <1>1, <1>2, <2>1, <2>3, AliasAssumption DEF AliasRows, RuleKinds, Localparts
        <3>. QED
            BY <2>2, <2>3, <3>1 DEF Keeps
    <2>4. CASE rule' = rule /\ unclear' = (unclear \/ Maintains(p))
        <3>1. AliasRows'
            BY <1>1, <2>4, <1>2 DEF AliasRows
        <3>2. ASSUME Stands(p), Saving(p)
              PROVE  Stands(p)'
            <4>1. /\ proc'[p].pc = "Undo" /\ Part(p)' = Part(p) /\ proc'[p].rules = proc[p].rules
                  /\ proc'[p].created = proc[p].created /\ proc'[p].prior = proc[p].prior
                BY <1>2, <2>2, <3>2 DEF TaskTyped, IsTask, Part
            <4>2. SavingOK(p)
                BY <1>2, <3>2 DEF Stands, TaskOK
            <4>3. Listed(p)'
                BY <1>3, <2>4, <4>1, <4>2 DEF SavingOK, Listed, At
            <4>4. OthersAgree(p)'
                BY <1>1, <1>3, <2>4, <4>1, <4>2 DEF SavingOK, OthersAgree, Agrees, At
            <4>5. SavingOK(p)'
                BY <1>1, <1>3, <2>4, <4>1, <4>2, <4>3, <4>4 DEF SavingOK, At
            <4>. QED
                BY <1>1, <2>1, <2>2, <2>4, <3>2, <4>1, <4>5
                   DEF Stands, TaskOK, Saving, Maintains, Calls, Working, AliasSteps, MaintainedStands
        <3>. QED
            BY <2>1, <2>2, <2>4, <3>1, <3>2 DEF Keeps
    <2>. QED
        BY <1>3, <2>3, <2>4 DEF FailAlias
<1>4. CASE proc[p].pc = "DeleteRule"
    <2>1. Go(p, "Restore") /\ Part(p) \in Localparts
        BY <1>4, AtWork DEF FailAlias, AliasSteps, At
    <2>2. /\ Moves(p) /\ AliasTyped(p)' /\ ~Maintained' /\ Working(p)'
          /\ proc'[p] = [proc[p] EXCEPT !.pc = "Restore"]
        BY <1>4, <2>1, RestoringTyped
    <2>3. Part(p) \in ContactParts /\ Removes(p) /\ (Stands(p) => RemovingOK(p))
        BY <1>4, Removal DEF RemoveSteps
    <2>4. CASE rule' = [rule EXCEPT ![Part(p)] = "none"] /\ unclear' = TRUE
        <3>1. AliasRows'
            BY <1>1, <1>2, <2>1, <2>3, <2>4, AliasAssumption DEF AliasRows, RuleKinds, Localparts
        <3>. QED
            BY <2>2, <2>4, <3>1 DEF Keeps
    <2>5. CASE rule' = rule
        <3>1. AliasRows'
            BY <1>1, <2>5, <1>2 DEF AliasRows
        <3>2. ASSUME Stands(p)
              PROVE  Stands(p)'
            <4>1. /\ proc'[p].pc = "Restore" /\ Part(p)' = Part(p) /\ proc'[p].rules = proc[p].rules
                  /\ proc'[p].prior = proc[p].prior
                BY <1>2, <2>2 DEF TaskTyped, IsTask, Part
            <4>2. OthersAgree(p)'
                BY <1>1, <1>4, <2>3, <2>5, <3>2, <4>1 DEF RemovingOK, OthersAgree, Agrees, At
            <4>3. RemovingOK(p)'
                BY <1>1, <1>4, <2>3, <2>5, <3>2, <4>1, <4>2 DEF RemovingOK, At
            <4>. QED
                BY <2>2, <2>3, <4>3 DEF Stands, TaskOK, Removes, Saving, Maintains, Calls
        <3>. QED
            BY <2>2, <3>1, <3>2 DEF Keeps
    <2>. QED
        BY <1>4, <2>4, <2>5 DEF FailAlias
<1>5. CASE proc[p].pc \notin {"Rule", "DeleteRule"}
    <2>1. /\ Answer(p, "error") /\ rule' = rule
          /\ unclear' = (unclear \/ Maintains(p) \/ proc[p].pc \in {"Undo", "Restore"})
        BY <1>5 DEF FailAlias
    <2>2. Moves(p) /\ AliasTyped(p)' /\ ~Working(p)' /\ proc'[p].pc = "error"
        BY <1>2, <2>1, AnswerOver DEF Answers
    <2>3. Maintained' => Maintained
        BY <2>2, MaintainedBefore
    <2>4. AliasRows' /\ (AllAgree => AllAgree') /\ (MaintainedStands => MaintainedStands')
        BY <1>1, <1>2, <2>1 DEF AliasRows, AllAgree, Agrees, MaintainedStands
    <2>5. ASSUME Stands(p), ~unclear'
          PROVE  AllAgree
        <3>1. ~Maintains(p) /\ proc[p].pc \notin {"Undo", "Restore"}
            BY <2>1, <2>5
        <3>2. (Saving(p) /\ SavingOK(p)) \/ (Calls(p, "remove") /\ RemovingOK(p))
            BY <1>2, <2>5, <3>1 DEF Stands, TaskOK
        <3>3. /\ Saving(p) => proc[p].pc \in {"List", "Box", "Activate"}
              /\ Calls(p, "remove") => proc[p].pc \in {"List", "OwnBox", "Deactivate"}
            BY <1>2, <1>5, <3>1 DEF TaskTyped, SaveSteps, RemoveSteps
        <3>. QED
            BY <3>2, <3>3 DEF SavingOK, RemovingOK
    <2>. QED
        BY <2>2, <2>3, <2>4, <2>5 DEF Keeps, Stands
<1>. QED
    BY <1>3, <1>4, <1>5

-----------------------------------------------------------------------------
(* The invariant holds in the beginning and after every step.              *)

LEMMA InitAliasInv == Init => AliasInv
<1>. SUFFICES ASSUME Init
              PROVE  AliasInv
    OBVIOUS
<1>1. PICK w \in Workloads :
        /\ calls = [p \in Callers |-> IF p \in DOMAIN w.calls THEN w.calls[p] ELSE NoCall]
        /\ InitAliases(w.start)
    BY DEF Init
<1>2. proc = [p \in Callers |-> Free] /\ \A p \in Callers : proc[p].pc = "free"
    BY DEF Init, Free
<1>3. AliasesFit(w)
    BY AliasAssumption
<1>4. CallsFit
    <2>1. \A p \in Callers : calls[p].call # "none" => p \in DOMAIN w.calls /\ calls[p] = w.calls[p]
        BY <1>1 DEF NoCall
    <2>. QED
        BY <1>3, <2>1 DEF CallsFit, AliasesFit, Maintains, Calls
<1>5. AliasRows /\ AllAgree
    BY <1>1, <1>3 DEF AliasRows, AllAgree, Agrees, AliasesFit, InitAliases, BoxKinds, RuleKinds, Localparts
<1>6. \A p \in Callers : ~Working(p) /\ AliasTyped(p) /\ ~At(p, "done")
    BY <1>2 DEF Working, AliasTyped, AliasPlaces, AliasSteps, At
<1>. QED
    BY <1>4, <1>5, <1>6 DEF AliasInv, OneAtWork, AliasesStand, Maintained

LEMMA AliasKeeps ==
    ASSUME NEW p \in Callers, Ready(p), UNCHANGED calls, AliasStep(p) \/ FailAlias(p)
    PROVE  Keeps(p)
BY BeginsKeeps, ListKeeps, BoxKeeps, ActivateKeeps, RuleKeeps, UndoKeeps, OwnBoxKeeps, DeactivateKeeps,
   DeleteRuleKeeps, RestoreKeeps, RedundantKeeps, FailAliasKeeps DEF AliasStep

LEMMA AliasStepWorks ==
    ASSUME NEW p, AliasStep(p) \/ FailAlias(p)
    PROVE  /\ At(p, "free") \/ Working(p)
           /\ calls[p].call \in AliasCalls \/ Working(p)
           /\ ~unclear' => ~unclear
<1>. USE DEF At, Working, AliasSteps
<1>1. CASE Begins(p) \/ List(p) \/ Box(p) \/ Activate(p)
    BY <1>1 DEF Begins, List, Box, Activate, aliasVars, AliasCalls, Maintains, Calls
<1>2. CASE Rule(p) \/ Undo(p) \/ OwnBox(p) \/ Deactivate(p)
    BY <1>2 DEF Rule, Undo, OwnBox, Deactivate, aliasVars
<1>3. CASE DeleteRule(p) \/ Restore(p) \/ Redundant(p)
    BY <1>3 DEF DeleteRule, Restore, Redundant
<1>4. CASE FailAlias(p)
    BY <1>4 DEF FailAlias
<1>. QED
    BY <1>1, <1>2, <1>3, <1>4 DEF AliasStep

LEMMA NothingElse ==
    ASSUME NEW p \in Callers, Moves(p), UNCHANGED calls
    PROVE  \A q \in Callers : q # p => /\ Working(q)' <=> Working(q)
                                       /\ AliasTyped(q)' <=> AliasTyped(q)
BY DEF Moves, Working, AliasTyped, TaskTyped, IsTask, At, FirstPhase, Saving, Maintains, Calls

LEMMA AliasesPreserved ==
    ASSUME PaymentInv, AliasInv, NEW p \in Callers, AliasStep(p) \/ FailAlias(p),
           UNCHANGED calls, (AliasStep(p) /\ Overlap(p)) \/ (FailAlias(p) /\ UNCHANGED overlapped)
    PROVE  AliasInv'
<1>1. Ready(p)
    BY DEF AliasInv, PaymentInv, Ready
<1>2. Keeps(p)
    BY <1>1, AliasKeeps
<1>3. Moves(p) /\ AliasRows'
    BY <1>2 DEF Keeps
<1>4. \A q \in Callers : AliasTyped(q)'
    BY <1>2, <1>3, NothingElse DEF AliasInv, Keeps
<1>5. CallsFit'
    BY DEF AliasInv, CallsFit, Maintains, Calls
<1>6. ASSUME ~overlapped'
      PROVE  ~overlapped /\ \A q \in Callers : q # p => ~Working(q) /\ ~Working(q)'
    <2>1. ~overlapped /\ (Working(p) \/ AtRest)
        <3>1. CASE AliasStep(p) /\ Overlap(p)
            <4>1. ~overlapped /\ (~At(p, "free") \/ AtRest)
                BY <1>6, <3>1, Zenon DEF Overlap
            <4>. QED
                BY <4>1, AliasStepWorks
        <3>2. CASE FailAlias(p) /\ UNCHANGED overlapped
            <4>1. ~overlapped
                BY <1>6, <3>2
            <4>2. Working(p)
                BY <3>2 DEF FailAlias, Working
            <4>. QED
                BY <4>1, <4>2
        <3>. QED
            BY <3>1, <3>2
    <2>2. OneAtWork
        BY <2>1 DEF AliasInv
    <2>3. AtRest => \A q \in Callers : ~Working(q)
        BY DEF AtRest, Running, Working, AliasSteps, Answers
    <2>. QED
        BY <1>3, <2>1, <2>2, <2>3, NothingElse DEF OneAtWork
<1>7. ASSUME ~overlapped', ~unclear'
      PROVE  AliasesStand'
    <2>1. AliasesStand
        BY <1>6, <1>7, AliasStepWorks DEF AliasInv
    <2>2. Stands(p)
        BY <1>6, <1>7, <2>1 DEF AliasesStand, Stands
    <2>3. Stands(p)'
        BY <1>2, <1>7, <2>2 DEF Keeps
    <2>4. \A q \in Callers : q # p => ~Working(q)'
        BY <1>6, <1>7
    <2>5. \A q \in Callers : Working(q)' => TaskOK(q)'
        BY <2>3, <2>4 DEF Stands
    <2>. QED
        BY <2>3, <2>5 DEF AliasesStand, Stands
<1>. QED
    BY <1>3, <1>4, <1>5, <1>6, <1>7 DEF AliasInv, OneAtWork

LEMMA AliasesLeft ==
    ASSUME PaymentInv, AliasInv, NEW p \in Callers, UNCHANGED calls, ~overlapped' => ~overlapped,
           Crash(p) \/ ((Work(p) \/ Failure(p)) /\ calls[p].call \notin AliasCalls)
    PROVE  AliasInv'
<1>1. Moves(p) /\ ~Working(p)' /\ UNCHANGED <<box, rule>> /\ (UNCHANGED unclear \/ Crash(p))
    <2>1. CASE Crash(p)
        BY <2>1, AnswerOver DEF Crash, Answers, PaymentInv
    <2>2. CASE (Work(p) \/ Failure(p)) /\ calls[p].call \notin AliasCalls
        <3>1. ~AliasStep(p) /\ ~FailAlias(p)
            BY <2>2, AliasStepWorks DEF AliasInv, AliasTyped
        <3>. QED
            BY <2>2, <3>1, OthersElsewhere, OthersLeave DEF Working
    <2>. QED
        BY <2>1, <2>2
<1>2. calls[p].call \in AliasCalls => Crash(p) /\ proc'[p].pc = "crashed"
    BY AnswerOver DEF Crash, Answers, PaymentInv
<1>3. AliasTyped(p)'
    BY <1>1, <1>2 DEF AliasTyped, Working, AliasPlaces, Answers
<1>4. CallsFit' /\ AliasRows' /\ (\A q \in Callers : AliasTyped(q)')
    BY <1>1, <1>3, NothingElse DEF AliasInv, CallsFit, AliasRows, Maintains, Calls
<1>5. \A q \in Callers : Working(q)' => q # p /\ Working(q)
    BY <1>1, NothingElse
<1>6. ASSUME ~overlapped', ~unclear'
      PROVE  AliasesStand'
    <2>1. ~unclear /\ ~Working(p)
        <3>1. Crash(p) => unclear' = (unclear \/ Working(p))
            BY DEF Crash, Working
        <3>2. Working(p) => Crash(p)
            BY <1>2 DEF AliasInv, AliasTyped
        <3>. QED
            <4>1. CASE Crash(p)
                BY <1>6, <3>1, <4>1, Zenon
            <4>2. CASE UNCHANGED unclear /\ ~Crash(p)
                BY <1>6, <3>2, <4>2
            <4>. QED
                BY <1>1, <4>1, <4>2
    <2>2. AliasesStand
        BY <1>6, <2>1 DEF AliasInv
    <2>3. \A q \in Callers : Working(q)' => TaskOK(q)'
        <3>1. ASSUME NEW q \in Callers, q # p, TaskOK(q)
              PROVE  TaskOK(q)'
            <4>1. proc'[q] = proc[q] /\ UNCHANGED <<box, rule, calls>>
                BY <1>1, <3>1 DEF Moves
            <4>2. (Listed(q)' <=> Listed(q)) /\ (AllAgree' <=> AllAgree) /\ (OthersAgree(q)' <=> OthersAgree(q))
                BY <4>1 DEF Listed, AllAgree, OthersAgree, Agrees, Part
            <4>3. (SavingOK(q)' <=> SavingOK(q)) /\ (RemovingOK(q)' <=> RemovingOK(q))
                BY <4>1, <4>2 DEF SavingOK, RemovingOK, At, Part
            <4>4. MaintainingOK(q)' <=> MaintainingOK(q)
                BY <4>1, <4>2 DEF MaintainingOK, At, Part, Waits
            <4>. QED
                BY <3>1, <4>1, <4>3, <4>4 DEF TaskOK, Saving, Maintains, Calls
        <3>. QED
            BY <1>5, <2>2, <3>1 DEF AliasesStand
    <2>4. (\A q \in Callers : ~Working(q)') => AllAgree'
        <3>1. (\A q \in Callers : ~Working(q)') => \A q \in Callers : ~Working(q)
            BY <1>1, <2>1, NothingElse
        <3>. QED
            BY <1>1, <2>2, <3>1 DEF AliasesStand, AllAgree, Agrees
    <2>5. Maintained' => Maintained
        BY <1>1, <1>2, MaintainedBefore DEF Maintains, Calls, AliasCalls
    <2>. QED
        BY <1>1, <2>2, <2>3, <2>4, <2>5 DEF AliasesStand, MaintainedStands
<1>. QED
    BY <1>4, <1>5, <1>6 DEF AliasInv, OneAtWork

LEMMA NextAliasInv == PaymentInv /\ AliasInv /\ [Next]_vars => AliasInv'
<1>. SUFFICES ASSUME PaymentInv, AliasInv, [Next]_vars
              PROVE  AliasInv'
    OBVIOUS
<1>1. CASE Next
    <2>1. PICK p \in Callers : Work(p) \/ (Failure(p) /\ UNCHANGED overlapped)
        BY <1>1 DEF Next
    <2>2. UNCHANGED calls
        BY <1>1 DEF Next
    <2>3. ~overlapped' => ~overlapped
        BY <2>1 DEF Work, Overlap
    <2>4. CASE calls[p].call \in AliasCalls
        <3>1. proc[p].pc \in AliasPlaces
            BY <2>4 DEF AliasInv, AliasTyped
        <3>2. CASE Work(p)
            BY <2>2, <2>4, <3>1, <3>2, OnlyAliases, AliasesPreserved
        <3>3. CASE Failure(p) /\ UNCHANGED overlapped
            BY <2>2, <2>3, <2>4, <3>1, <3>3, OnlyAliases, AliasesPreserved, AliasesLeft
        <3>. QED
            BY <2>1, <3>2, <3>3
    <2>5. CASE calls[p].call \notin AliasCalls
        BY <2>1, <2>2, <2>3, <2>5, AliasesLeft
    <2>. QED
        BY <2>4, <2>5
<1>2. CASE UNCHANGED vars
    <2>1. UNCHANGED <<calls, proc, box, rule, unclear, overlapped>>
        BY <1>2 DEF vars, aliasVars
    <2>2. CallsFit' /\ AliasRows' /\ (AllAgree' <=> AllAgree) /\ (MaintainedStands' <=> MaintainedStands)
          /\ (Maintained' <=> Maintained)
        BY <2>1 DEF AliasInv, CallsFit, AliasRows, AllAgree, Agrees, MaintainedStands, Maintained, Maintains,
                    Calls, At
    <2>3. \A p \in Callers : (Working(p)' <=> Working(p)) /\ AliasTyped(p)'
        BY <2>1 DEF AliasInv, AliasTyped, Working, TaskTyped, IsTask, At, FirstPhase, Saving, Maintains, Calls
    <2>4. ASSUME NEW p \in Callers
          PROVE  TaskOK(p)' <=> TaskOK(p)
        <3>1. (SavingOK(p)' <=> SavingOK(p)) /\ (RemovingOK(p)' <=> RemovingOK(p))
            BY <2>1, <2>2 DEF SavingOK, RemovingOK, Listed, OthersAgree, Agrees, At, Part
        <3>2. MaintainingOK(p)' <=> MaintainingOK(p)
            BY <2>1, <2>2 DEF MaintainingOK, At, Waits, Listed, AllAgree, Agrees, Part
        <3>. QED
            BY <2>1, <3>1, <3>2 DEF TaskOK, Saving, Maintains, Calls
    <2>. QED
        BY <2>1, <2>2, <2>3, <2>4 DEF AliasInv, OneAtWork, AliasesStand
<1>. QED
    BY <1>1, <1>2

(* While no request is at work, none began during another one's, and none  *)
(* ended in the dark, a contact alias has an active mailbox exactly if it  *)
(* has a rule to the worker; what was maintained has every mailbox and     *)
(* rule, and of the others exactly those to be kept.                       *)
(* (the contact-alias routes, ensureManagedContactAliasRouting,            *)
(* cleanupRedundantMailboxWorkerRules)                                     *)
THEOREM AliasesAgree == Spec => []AliasAgrees
<1>1. AliasInv => AliasAgrees
    <2>. SUFFICES ASSUME AliasInv, AtRest, ~overlapped, ~unclear
                  PROVE  /\ AllAgree
                         /\ Maintained => MaintainedStands
        BY DEF AliasAgrees, Quiet, AllAgree, Agrees, Maintained, MaintainedStands
    <2>1. \A p \in Callers : ~Working(p)
        BY DEF AtRest, Running, Working, AliasSteps, Answers
    <2>. QED
        BY <2>1 DEF AliasInv, AliasesStand
<1>2. Init => PaymentInv /\ AliasInv
    BY InitBacked, InitAliasInv
<1>3. PaymentInv /\ AliasInv /\ [Next]_vars => (PaymentInv /\ AliasInv)'
    BY NextBacked, NextAliasInv
<1>. QED
    BY <1>1, <1>2, <1>3, PTL DEF Spec

=============================================================================
